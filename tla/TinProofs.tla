------------------------------ MODULE TinProofs ------------------------------
(***************************************************************************)
(* Proofs about TinRegistrar, alone with any callers and with the Crankers *)
(* of TinOperation: for any intents, owners, blobs, routes appended before *)
(* and heights of the route tree.                                          *)
(***************************************************************************)
EXTENDS TinOperation, SumLemmas, TLAPS

created == <<registry, recovery, sequence, appended>>

CreatedTypes ==
  /\ registry \in [Lookup -> Account \cup {None}]
  /\ recovery \in [Owner -> Intent \cup {None}]
  /\ sequence \in Nat
  /\ appended \in Seq(Lookup \cup {None})

RInv == CreatedTypes /\ OwnerApproved /\ CreatedTogether

-----------------------------------------------------------------------------
(* Creations.                                                              *)

LEMMA EarlierRoutes ==
  ASSUME NEW n \in Nat
  PROVE  /\ [m \in 1..n |-> None] \in Seq(Lookup \cup {None})
         /\ Len([m \in 1..n |-> None]) = n
OBVIOUS

LEMMA CreatedInit == RInit => RInv
<1> SUFFICES ASSUME RInit PROVE RInv
  OBVIOUS
<1> USE RegistrarAssumption DEF RInit
<1>1. PICK n \in Before : appended = [m \in 1..n |-> None] /\ sequence = n
  OBVIOUS
<1>2. n \in Nat
  BY <1>1
<1>3. CreatedTypes
  BY <1>1, <1>2, EarlierRoutes DEF CreatedTypes
<1>4. OwnerApproved
  BY DEF OwnerApproved
<1>5. CreatedTogether
  <2>1. \A m \in DOMAIN appended : appended[m] = None
    BY <1>1
  <2>2. sequence = Len(appended)
    BY <1>1, <1>2, EarlierRoutes
  <2> QED
    BY <2>1, <2>2 DEF CreatedTogether
<1> QED
  BY <1>3, <1>4, <1>5 DEF RInv

(* What a creation appends to the history.                                 *)
LEMMA AppendedLeaf ==
  ASSUME CreatedTypes, NEW l \in Lookup, appended' = Append(appended, l)
  PROVE  /\ appended' \in Seq(Lookup \cup {None})
         /\ Len(appended') = Len(appended) + 1
         /\ Len(appended) \in Nat
         /\ DOMAIN appended' = 1..(Len(appended) + 1)
         /\ DOMAIN appended = 1..Len(appended)
         /\ \A n \in 1..Len(appended) : appended'[n] = appended[n]
         /\ appended'[Len(appended) + 1] = l
BY DEF CreatedTypes

LEMMA CreationStep ==
  ASSUME RInv, NEW i \in Intent, NEW fields, NEW content, apply(i, fields, content)
  PROVE  RInv'
<1> USE RegistrarAssumption
<1> DEFINE l == LookupOf[i]
           o == OwnerOf[i]
           a == [intent |-> i, fields |-> "approved", content |-> Approved]
           N == Len(appended)
<1>1. /\ l \in Lookup /\ o \in Owner
      /\ registry[l] = None /\ recovery[o] = None
      /\ registry' = [registry EXCEPT ![l] = a]
      /\ recovery' = [recovery EXCEPT ![o] = i]
      /\ appended' = Append(appended, l)
      /\ sequence' = sequence + 1
  BY DEF apply, CreateAllowed
<1>2. Approved \in Content
  BY DEF Approved, Content, Mark
<1>3. a \in Account
  BY <1>2 DEF Account, Mark
<1>4. CreatedTypes'
  BY <1>1, <1>3, AppendedLeaf DEF RInv, CreatedTypes
<1>5. /\ registry'[l] = a /\ \A m \in Lookup : m # l => registry'[m] = registry[m]
      /\ recovery'[o] = i /\ \A p \in Owner : p # o => recovery'[p] = recovery[p]
  BY <1>1 DEF RInv, CreatedTypes
<1>6. a # None /\ i # None
  BY <1>3
<1>7. OwnerApproved'
  <2>1. a.intent = i /\ a.fields = "approved" /\ a.content = Approved
    OBVIOUS
  <2>2. ASSUME NEW m \in Lookup, registry'[m] # None
        PROVE  /\ LookupOf[registry'[m].intent] = m
               /\ registry'[m].fields = "approved" /\ registry'[m].content = Approved
    <3>1. CASE m = l
      BY <1>5, <2>1, <3>1, Zenon
    <3>2. CASE m # l
      BY <1>5, <2>2, <3>2 DEF RInv, OwnerApproved
    <3> QED
      BY <3>1, <3>2
  <2> QED
    BY <2>2 DEF OwnerApproved, Approved, Kind, ToSet
<1>8. CreatedTogether'
  <2> USE DEF RInv, CreatedTogether
  <2>1. ASSUME NEW m \in Lookup, registry'[m] # None
        PROVE  recovery'[OwnerOf[registry'[m].intent]] = registry'[m].intent
    <3>1. CASE m = l
      BY <3>1, <1>5
    <3>2. CASE m # l
      <4>1. registry'[m] = registry[m] /\ registry[m] \in Account
        BY <3>2, <1>5, <2>1 DEF CreatedTypes
      <4>2. registry[m].intent \in Intent
        BY <4>1 DEF Account
      <4>3. recovery[OwnerOf[registry[m].intent]] = registry[m].intent
        BY <4>1, <2>1
      <4>4. OwnerOf[registry[m].intent] # o
        BY <4>2, <4>3, <1>1
      <4> QED
        BY <4>1, <4>2, <4>3, <4>4, <1>5
    <3> QED
      BY <3>1, <3>2
  <2>2. ASSUME NEW p \in Owner, recovery'[p] # None
        PROVE  /\ OwnerOf[recovery'[p]] = p
               /\ registry'[LookupOf[recovery'[p]]] # None
               /\ registry'[LookupOf[recovery'[p]]].intent = recovery'[p]
    <3>1. CASE p = o
      BY <3>1, <1>5, <1>6
    <3>2. CASE p # o
      <4>1. recovery'[p] = recovery[p] /\ recovery[p] \in Intent
        BY <3>2, <1>5, <2>2 DEF CreatedTypes
      <4>2. /\ OwnerOf[recovery[p]] = p
            /\ registry[LookupOf[recovery[p]]] # None
            /\ registry[LookupOf[recovery[p]]].intent = recovery[p]
        BY <4>1, <2>2
      <4>3. LookupOf[recovery[p]] \in Lookup /\ LookupOf[recovery[p]] # l
        BY <4>1, <4>2, <1>1
      <4> QED
        BY <4>1, <4>2, <4>3, <1>5
    <3> QED
      BY <3>1, <3>2
  <2>3. ASSUME NEW m \in Lookup
        PROVE  (registry'[m] # None) <=> \E n \in DOMAIN appended' : appended'[n] = m
    <3>1. \A n \in DOMAIN appended' : n = N + 1 \/ (n \in DOMAIN appended /\ appended'[n] = appended[n])
      BY <1>1, AppendedLeaf
    <3>2. \A n \in DOMAIN appended : n \in DOMAIN appended' /\ appended'[n] = appended[n]
      BY <1>1, AppendedLeaf
    <3>3. N + 1 \in DOMAIN appended' /\ appended'[N + 1] = l
      BY <1>1, AppendedLeaf
    <3>4. CASE m = l
      BY <3>3, <3>4, <1>5, <1>6
    <3>5. CASE m # l
      <4>1. registry'[m] = registry[m]
        BY <3>5, <1>5
      <4>2. (\E n \in DOMAIN appended' : appended'[n] = m) <=> \E n \in DOMAIN appended : appended[n] = m
        BY <3>1, <3>2, <3>3, <3>5, Zenon
      <4> QED
        BY <4>1, <4>2
    <3> QED
      BY <3>4, <3>5
  <2>4. ASSUME NEW m \in DOMAIN appended', NEW n \in DOMAIN appended',
               appended'[m] = appended'[n], appended'[m] # None
        PROVE  m = n
    <3>1. \A k \in DOMAIN appended : appended[k] # l
      BY <1>1
    <3>2. \A k \in DOMAIN appended' : k = N + 1 \/ (k \in DOMAIN appended /\ appended'[k] = appended[k])
      BY <1>1, AppendedLeaf
    <3>3. appended'[N + 1] = l
      BY <1>1, AppendedLeaf
    <3> QED
      BY <2>4, <3>1, <3>2, <3>3
  <2>5. sequence' = Len(appended')
    BY <1>1, AppendedLeaf
  <2> QED
    BY <2>1, <2>2, <2>3, <2>4, <2>5
<1> QED
  BY <1>4, <1>7, <1>8 DEF RInv

LEMMA NoCreation == RInv /\ UNCHANGED created => RInv'
BY DEF RInv, created, CreatedTypes, OwnerApproved, CreatedTogether

-----------------------------------------------------------------------------
(* The program alone, whoever calls it.                                    *)

(* What any instruction does to what was created.                          *)
LEMMA ProgramStep ==
  ASSUME RInv, NEW i \in Intent,
         \/ finalize(i) \/ CreateTinV1(i)
         \/ close_expired(i)
         \/ \E fields : stage(i, fields)
         \/ \E k, offset, mark : append_chunk(i, k, offset, mark)
  PROVE  RInv'
<1>1. CASE finalize(i)
  BY <1>1, CreationStep DEF finalize
<1>2. CASE CreateTinV1(i)
  BY <1>2, CreationStep DEF CreateTinV1
<1>3. CASE \/ close_expired(i)
           \/ \E fields : stage(i, fields)
           \/ \E k, offset, mark : append_chunk(i, k, offset, mark)
  <2>1. UNCHANGED created
    BY <1>3 DEF close_expired, stage, append_chunk, created
  <2> QED
    BY <2>1, NoCreation
<1> QED
  BY <1>1, <1>2, <1>3

LEMMA RStep == RInv /\ [RNext]_chain => RInv'
<1> SUFFICES ASSUME RInv, [RNext]_chain PROVE RInv'
  OBVIOUS
<1>1. CASE Tick \/ UNCHANGED chain
  <2>1. UNCHANGED created
    BY <1>1 DEF Tick, chain, created
  <2> QED
    BY <2>1, NoCreation
<1>2. CASE \E i \in Intent :
             \/ close_expired(i) \/ finalize(i) \/ CreateTinV1(i)
             \/ \E fields \in Mark : stage(i, fields)
             \/ \E k \in Kind, mark \in Mark :
                  \E offset \in 0..(ChunksOf[k] - 1) : append_chunk(i, k, offset, mark)
  <2>1. PICK i \in Intent :
             \/ close_expired(i) \/ finalize(i) \/ CreateTinV1(i)
             \/ \E fields \in Mark : stage(i, fields)
             \/ \E k \in Kind, mark \in Mark :
                  \E offset \in 0..(ChunksOf[k] - 1) : append_chunk(i, k, offset, mark)
    BY <1>2
  <2>2. \/ finalize(i) \/ CreateTinV1(i) \/ close_expired(i)
        \/ \E fields : stage(i, fields)
        \/ \E k, offset, mark : append_chunk(i, k, offset, mark)
    BY <2>1, Zenon
  <2> QED
    BY <2>2, ProgramStep
<1> QED
  BY <1>1, <1>2 DEF RNext

(* The registrar keeps to what owners signed and creates its accounts      *)
(* together, whatever instructions any callers send it in any order.       *)
THEOREM RegistrarSound == RSpec => [](OwnerApproved /\ CreatedTogether)
<1>1. RInv => OwnerApproved /\ CreatedTogether
  BY DEF RInv
<1> QED
  BY <1>1, CreatedInit, RStep, PTL DEF RSpec

-----------------------------------------------------------------------------
(* The program and the Crankers.                                           *)

Work == [intent : Intent, step : Nat, tx : {"none", "sent", "ok", "err"}]

OInv ==
  /\ RInv
  /\ crank \in [Cranker -> Work \cup {None}]
  /\ adrift \subseteq Intent \X Nat

LEMMA ExecuteStep ==
  ASSUME RInv, NEW i \in Intent, NEW n, Execute(i, n)
  PROVE  RInv'
<1>1. CASE UNCHANGED chain
  BY <1>1, NoCreation DEF chain, created
<1>2. CASE ~UNCHANGED chain
  <2>1. \/ finalize(i) \/ CreateTinV1(i) \/ close_expired(i)
        \/ \E fields : stage(i, fields)
        \/ \E k, offset, mark : append_chunk(i, k, offset, mark)
    BY <1>2, Zenon DEF Execute
  <2> QED
    BY <2>1, ProgramStep
<1> QED
  BY <1>1, <1>2

LEMMA OperationInit == Init => OInv
BY CreatedInit DEF Init, OInv

LEMMA OperationStep == OInv /\ [Next]_vars => OInv'
<1> SUFFICES ASSUME OInv, [Next]_vars PROVE OInv'
  OBVIOUS
<1> USE DEF OInv
<1>1. ASSUME NEW c \in Cranker, NEW i \in Intent, Lease(c, i)
      PROVE  OInv'
  <2>1. UNCHANGED created
    BY <1>1 DEF Lease, chain, created
  <2>2. [intent |-> i, step |-> 1, tx |-> "none"] \in Work
    BY DEF Work
  <2> QED
    BY <1>1, <2>1, <2>2, NoCreation DEF Lease
<1>2. ASSUME NEW c \in Cranker, sendTransaction(c)
      PROVE  OInv'
  <2>1. UNCHANGED created
    BY <1>2 DEF sendTransaction, chain, created
  <2>2. crank[c] \in Work
    BY <1>2 DEF sendTransaction
  <2>3. [crank[c] EXCEPT !.tx = "sent"] \in Work
    BY <2>2 DEF Work
  <2>4. crank' = [crank EXCEPT ![c] = [crank[c] EXCEPT !.tx = "sent"]] \/ crank' = [crank EXCEPT ![c] = None]
    BY <1>2 DEF sendTransaction
  <2>5. crank' \in [Cranker -> Work \cup {None}]
    BY <2>3, <2>4
  <2> QED
    BY <1>2, <2>1, <2>5, NoCreation DEF sendTransaction
<1>3. ASSUME NEW c \in Cranker, Land(c)
      PROVE  OInv'
  <2>1. crank[c] \in Work
    BY <1>3 DEF Land
  <2>2. crank[c].intent \in Intent
    BY <2>1 DEF Work
  <2>3. RInv'
    BY <1>3, <2>2, ExecuteStep DEF Land
  <2>4. PICK t \in {"ok", "err"} : crank' = [crank EXCEPT ![c].tx = t]
    BY <1>3 DEF Land
  <2>5. [crank[c] EXCEPT !.tx = t] \in Work
    BY <2>1, <2>4 DEF Work
  <2>6. crank' \in [Cranker -> Work \cup {None}]
    BY <2>4, <2>5
  <2> QED
    BY <1>3, <2>3, <2>6 DEF Land
<1>4. ASSUME NEW c \in Cranker, NextStep(c)
      PROVE  OInv'
  <2>1. UNCHANGED created
    BY <1>4 DEF NextStep, chain, created
  <2>2. crank[c] \in Work
    BY <1>4 DEF NextStep
  <2>3. PICK n \in Nat : n = crank[c].step + 1
    BY <2>2 DEF Work
  <2>4. [crank[c] EXCEPT !.step = n, !.tx = "none"] \in Work
    BY <2>2, <2>3 DEF Work
  <2>5. crank' = [crank EXCEPT ![c] = [crank[c] EXCEPT !.step = n, !.tx = "none"]]
    BY <1>4, <2>3 DEF NextStep
  <2>6. crank' \in [Cranker -> Work \cup {None}]
    BY <2>4, <2>5
  <2> QED
    BY <1>4, <2>1, <2>6, NoCreation DEF NextStep
(* A Cranker that stops leaves its transaction behind.                     *)
<1>5. ASSUME NEW c \in Cranker, Finish(c) \/ GiveUp(c) \/ Crash(c)
      PROVE  OInv'
  <2>1. UNCHANGED created
    BY <1>5 DEF Finish, GiveUp, Crash, chain, created
  <2>2. crank' \in [Cranker -> Work \cup {None}]
    BY <1>5 DEF Finish, GiveUp, Crash
  <2>3. crank[c] \in Work
    BY <1>5 DEF Finish, GiveUp, Crash
  <2>4. crank[c].intent \in Intent /\ crank[c].step \in Nat
    BY <2>3 DEF Work
  <2>5. adrift' \subseteq Intent \X Nat
    BY <1>5, <2>4 DEF Finish, GiveUp, Crash, SetAdrift
  <2> QED
    BY <2>1, <2>2, <2>5, NoCreation
<1>6. ASSUME NEW transaction \in adrift,
             \/ LandLate(transaction[1], transaction[2])
             \/ Expire(transaction[1], transaction[2])
      PROVE  OInv'
  <2>1. transaction[1] \in Intent
    OBVIOUS
  <2>2. CASE LandLate(transaction[1], transaction[2])
    BY <2>1, <2>2, ExecuteStep DEF LandLate
  <2>3. CASE Expire(transaction[1], transaction[2])
    BY <2>3, NoCreation DEF Expire, chain, created
  <2> QED
    BY <1>6, <2>2, <2>3
<1>7. ASSUME NEW i \in Intent, Others(i)
      PROVE  OInv'
  <2>1. \/ finalize(i) \/ CreateTinV1(i) \/ close_expired(i)
        \/ \E fields : stage(i, fields)
        \/ \E k, offset, mark : append_chunk(i, k, offset, mark)
    BY <1>7, Zenon DEF Others
  <2> QED
    BY <1>7, <2>1, ProgramStep DEF Others
<1>8. CASE (Tick /\ UNCHANGED <<crank, adrift, report>>) \/ UNCHANGED vars
  <2>1. UNCHANGED created /\ UNCHANGED <<crank, adrift>>
    BY <1>8 DEF Tick, vars, chain, created
  <2> QED
    BY <2>1, NoCreation
<1> QED
  BY <1>1, <1>2, <1>3, <1>4, <1>5, <1>6, <1>7, <1>8 DEF Next

(* The same with Crankers that lease, send, crash, give up and leave       *)
(* transactions that execute late.                                         *)
THEOREM OwnersApproved == Spec => []OwnerApproved
<1>1. OInv => OwnerApproved
  BY DEF OInv, RInv
<1> QED
  BY <1>1, OperationInit, OperationStep, PTL DEF Spec

(* Whatever the Crankers do, the accounts of a creation are made together, *)
(* one TIN for an owner and one leaf for a TIN.                            *)
THEOREM CreationsWhole == Spec => []CreatedTogether
<1>1. OInv => CreatedTogether
  BY DEF OInv, RInv
<1> QED
  BY <1>1, OperationInit, OperationStep, PTL DEF Spec

-----------------------------------------------------------------------------
(* What is reported.                                                       *)

(* What is registered under a lookup commitment stays.                     *)
Kept == \A l \in Lookup : registry[l] # None => registry'[l] = registry[l]

LEMMA ApprovedType == Approved \in Content
BY RegistrarAssumption DEF Approved, Content, Mark

LEMMA ApplyKeeps ==
  ASSUME CreatedTypes, NEW i \in Intent, NEW fields, NEW content, apply(i, fields, content)
  PROVE  Kept /\ registry'[LookupOf[i]] # None /\ registry'[LookupOf[i]].intent = i
<1>1. LookupOf[i] \in Lookup /\ registry[LookupOf[i]] = None
  BY RegistrarAssumption DEF apply, CreateAllowed
<1>2. fields = "approved" /\ content = Approved
  BY DEF apply, CreateAllowed
<1>3. [intent |-> i, fields |-> fields, content |-> content] \in Account
  BY <1>2, ApprovedType DEF Account, Mark
<1>4. [intent |-> i, fields |-> fields, content |-> content] # None
  BY <1>3, RegistrarAssumption
<1>5. registry' = [registry EXCEPT ![LookupOf[i]] =
                     [intent |-> i, fields |-> fields, content |-> content]]
  BY DEF apply
<1> QED
  BY <1>1, <1>4, <1>5 DEF Kept, CreatedTypes


LEMMA UntouchedKeeps == registry' = registry => Kept
BY DEF Kept

LEMMA InstructionKeeps ==
  ASSUME CreatedTypes, NEW i \in Intent,
         \/ finalize(i) \/ CreateTinV1(i)
         \/ close_expired(i)
         \/ \E fields : stage(i, fields)
         \/ \E k, offset, mark : append_chunk(i, k, offset, mark)
  PROVE  Kept
<1>1. CASE finalize(i)
  BY <1>1, ApplyKeeps DEF finalize
<1>2. CASE CreateTinV1(i)
  BY <1>2, ApplyKeeps DEF CreateTinV1
<1>3. CASE \/ close_expired(i)
           \/ \E fields : stage(i, fields)
           \/ \E k, offset, mark : append_chunk(i, k, offset, mark)
  BY <1>3, UntouchedKeeps DEF close_expired, stage, append_chunk
<1> QED
  BY <1>1, <1>2, <1>3

LEMMA ExecuteKeeps ==
  ASSUME CreatedTypes, NEW i \in Intent, NEW n, Execute(i, n)
  PROVE  Kept
<1>1. CASE UNCHANGED chain
  BY <1>1, UntouchedKeeps DEF chain
<1>2. CASE ~UNCHANGED chain
  <2>1. \/ finalize(i) \/ CreateTinV1(i) \/ close_expired(i)
        \/ \E fields : stage(i, fields)
        \/ \E k, offset, mark : append_chunk(i, k, offset, mark)
    BY <1>2, Zenon DEF Execute
  <2> QED
    BY <2>1, InstructionKeeps
<1> QED
  BY <1>1, <1>2

(* The last transaction of a staged creation, when it succeeds, registers  *)
(* the intent.                                                             *)
LEMMA LastExecution ==
  ASSUME CreatedTypes, NEW i \in Oversize,
         Execute(i, LastStep(i)), Succeeds(i, LastStep(i))
  PROVE  registry'[LookupOf[i]] # None /\ registry'[LookupOf[i]].intent = i
<1>1. Plan(i, LastStep(i)) = [op |-> "finalize"]
  BY DEF Plan
<1>2. finalize(i)
  BY <1>1 DEF Execute
<1> QED
  BY <1>2, ApplyKeeps, OperationAssumption DEF finalize

(* A Cranker whose last transaction of a staged creation was confirmed.    *)
Landed(c) ==
  /\ crank[c] # None
  /\ crank[c].intent \in Oversize
  /\ crank[c].step = LastStep(crank[c].intent)
  /\ crank[c].tx = "ok"

CInv ==
  /\ report \in [Intent -> {None, "CONFIRMED", "FAILED"}]
  /\ \A c \in Cranker : Landed(c) =>
       /\ registry[LookupOf[crank[c].intent]] # None
       /\ registry[LookupOf[crank[c].intent]].intent = crank[c].intent
  /\ ConfirmedIsCreated

LEMMA ConfirmedInit == Init => CInv
BY OperationAssumption DEF Init, CInv, Landed, ConfirmedIsCreated

(* Nothing new is landed or reported.                                      *)
LEMMA NothingConfirmed ==
  ASSUME OInv, CInv, Kept,
         \A c \in Cranker : Landed(c)' => Landed(c) /\ crank'[c] = crank[c],
         report' \in [Intent -> {None, "CONFIRMED", "FAILED"}],
         \A i \in Intent : report'[i] = "CONFIRMED" => report[i] = "CONFIRMED"
  PROVE  CInv'
<1>1. \A i \in Intent : LookupOf[i] \in Lookup
  BY RegistrarAssumption
<1>2. \A c \in Cranker : Landed(c) => crank[c].intent \in Intent
  BY OperationAssumption DEF Landed
<1>3. ConfirmedIsCreated'
  BY <1>1 DEF CInv, ConfirmedIsCreated, Kept
<1>4. ASSUME NEW c \in Cranker, Landed(c)'
      PROVE  /\ registry'[LookupOf[crank'[c].intent]] # None
             /\ registry'[LookupOf[crank'[c].intent]].intent = crank'[c].intent
  BY <1>1, <1>2, <1>4 DEF CInv, Kept
<1> QED
  BY <1>3, <1>4 DEF CInv

LEMMA ConfirmedStep == OInv /\ CInv /\ [Next]_vars => CInv'
<1> SUFFICES ASSUME OInv, CInv, [Next]_vars PROVE CInv'
  OBVIOUS
<1> USE OperationAssumption
<1>t. /\ report \in [Intent -> {None, "CONFIRMED", "FAILED"}]
      /\ crank \in [Cranker -> Work \cup {None}]
      /\ CreatedTypes
  BY DEF CInv, OInv, RInv
<1>1. ASSUME NEW c \in Cranker, NEW i \in Intent, Lease(c, i)
      PROVE  CInv'
  <2>1. Kept /\ report' = report
    BY <1>1, UntouchedKeeps DEF Lease, chain
  <2>2. \A d \in Cranker : Landed(d)' => Landed(d) /\ crank'[d] = crank[d]
    BY <1>1, <1>t DEF Lease, Landed
  <2> QED
    BY <1>t, <2>1, <2>2, NothingConfirmed
<1>2. ASSUME NEW c \in Cranker, sendTransaction(c)
      PROVE  CInv'
  <2>1. Kept
    BY <1>2, UntouchedKeeps DEF sendTransaction, chain
  <2>2. crank[c] \in Work /\ crank[c].intent \in Intent
    BY <1>2, <1>t DEF sendTransaction, Work
  <2>3. report' = report \/ report' = [report EXCEPT ![crank[c].intent] = IF @ = None THEN "FAILED" ELSE @]
    BY <1>2 DEF sendTransaction, Report
  <2>4. crank' = [crank EXCEPT ![c].tx = "sent"] \/ crank' = [crank EXCEPT ![c] = None]
    BY <1>2 DEF sendTransaction
  <2>5. \A d \in Cranker : Landed(d)' => Landed(d) /\ crank'[d] = crank[d]
    BY <1>t, <2>2, <2>4 DEF Landed, Work
  <2> QED
    BY <1>t, <2>1, <2>2, <2>3, <2>5, NothingConfirmed
<1>3. ASSUME NEW c \in Cranker, Land(c)
      PROVE  CInv'
  <2> DEFINE i == crank[c].intent
             n == crank[c].step
  <2>1. crank[c] \in Work /\ i \in Intent /\ Execute(i, n) /\ report' = report
    BY <1>3, <1>t DEF Land, Work
  <2>2. Kept
    BY <1>t, <2>1, ExecuteKeeps
  <2>3. crank' = [crank EXCEPT ![c].tx = IF Succeeds(i, n) THEN "ok" ELSE "err"]
    BY <1>3 DEF Land
  <2>4. ConfirmedIsCreated'
    BY <2>1, <2>2, RegistrarAssumption DEF CInv, ConfirmedIsCreated, Kept
  <2>5. ASSUME NEW d \in Cranker, Landed(d)'
        PROVE  /\ registry'[LookupOf[crank'[d].intent]] # None
               /\ registry'[LookupOf[crank'[d].intent]].intent = crank'[d].intent
    <3>1. CASE d = c
      <4>1. crank'[c].intent = i /\ crank'[c].step = n
            /\ crank'[c].tx = IF Succeeds(i, n) THEN "ok" ELSE "err"
        BY <1>t, <2>1, <2>3 DEF Work
      <4>2. i \in Oversize /\ n = LastStep(i) /\ Succeeds(i, n)
        BY <2>5, <3>1, <4>1, Zenon DEF Landed
      <4> QED
        BY <1>t, <2>1, <3>1, <4>1, <4>2, LastExecution
    <3>2. CASE d # c
      <4>1. crank'[d] = crank[d] /\ Landed(d)
        BY <1>t, <2>3, <2>5, <3>2 DEF Landed
      <4>2. LookupOf[crank[d].intent] \in Lookup
        BY <4>1, RegistrarAssumption DEF Landed
      <4> QED
        BY <2>2, <4>1, <4>2 DEF CInv, Kept
    <3> QED
      BY <3>1, <3>2
  <2> QED
    BY <1>t, <2>1, <2>4, <2>5 DEF CInv
<1>4. ASSUME NEW c \in Cranker, NextStep(c)
      PROVE  CInv'
  <2>1. Kept /\ report' = report
    BY <1>4, UntouchedKeeps DEF NextStep, chain
  <2>2. crank[c] \in Work /\ crank' = [crank EXCEPT ![c].step = @ + 1, ![c].tx = "none"]
    BY <1>4, <1>t DEF NextStep
  <2>3. \A d \in Cranker : Landed(d)' => Landed(d) /\ crank'[d] = crank[d]
    BY <1>t, <2>2 DEF Landed, Work
  <2> QED
    BY <1>t, <2>1, <2>3, NothingConfirmed
<1>5. ASSUME NEW c \in Cranker, Finish(c)
      PROVE  CInv'
  <2> DEFINE i == crank[c].intent
  <2>1. crank[c] \in Work /\ i \in Intent /\ registry' = registry
    BY <1>5, <1>t DEF Finish, Work, chain
  <2>2. crank' = [crank EXCEPT ![c] = None]
    BY <1>5 DEF Finish
  <2>3. i \in Oversize => Landed(c)
    BY <1>5 DEF Finish, Confirms, Landed
  <2>4. PICK status \in {"CONFIRMED", "FAILED"} :
          /\ report' = [report EXCEPT ![i] = IF @ = None THEN status ELSE @]
          /\ status = "CONFIRMED" => registry[LookupOf[i]] # None
    BY <1>5 DEF Finish, Report
  <2>5. report' \in [Intent -> {None, "CONFIRMED", "FAILED"}]
    BY <1>t, <2>1, <2>4
  <2>6. ASSUME NEW j \in Intent, report'[j] = "CONFIRMED"
        PROVE  /\ registry[LookupOf[j]] # None
               /\ j \in Oversize => registry[LookupOf[j]].intent = j
    <3>1. CASE report[j] = "CONFIRMED"
      BY <3>1 DEF CInv, ConfirmedIsCreated
    <3>2. CASE report[j] # "CONFIRMED"
      <4>1. j = i /\ status = "CONFIRMED"
        BY <1>t, <2>1, <2>4, <2>6, <3>2
      <4> QED
        BY <2>3, <2>4, <4>1 DEF CInv
    <3> QED
      BY <3>1, <3>2
  <2>7. \A d \in Cranker : Landed(d)' => Landed(d) /\ crank'[d] = crank[d]
    BY <1>t, <2>2 DEF Landed
  <2> QED
    BY <2>1, <2>5, <2>6, <2>7 DEF CInv, ConfirmedIsCreated
<1>6. ASSUME NEW c \in Cranker, GiveUp(c) \/ Crash(c)
      PROVE  CInv'
  <2>1. Kept
    BY <1>6, UntouchedKeeps DEF GiveUp, Crash, chain
  <2>2. crank[c] \in Work /\ crank[c].intent \in Intent
    BY <1>6, <1>t DEF GiveUp, Crash, Work
  <2>3. report' = report \/ report' = [report EXCEPT ![crank[c].intent] = IF @ = None THEN "FAILED" ELSE @]
    BY <1>6 DEF GiveUp, Crash, Report
  <2>4. crank' = [crank EXCEPT ![c] = None]
    BY <1>6 DEF GiveUp, Crash
  <2>5. \A d \in Cranker : Landed(d)' => Landed(d) /\ crank'[d] = crank[d]
    BY <1>t, <2>4 DEF Landed
  <2> QED
    BY <1>t, <2>1, <2>2, <2>3, <2>5, NothingConfirmed
<1>7. ASSUME NEW transaction \in adrift,
             \/ LandLate(transaction[1], transaction[2])
             \/ Expire(transaction[1], transaction[2])
      PROVE  CInv'
  <2>1. transaction[1] \in Intent
    BY DEF OInv
  <2>2. Kept
    BY <1>7, <1>t, <2>1, ExecuteKeeps, UntouchedKeeps DEF LandLate, Expire, chain
  <2>3. crank' = crank /\ report' = report
    BY <1>7 DEF LandLate, Expire
  <2> QED
    BY <1>t, <2>2, <2>3, NothingConfirmed DEF Landed
<1>8. ASSUME NEW i \in Intent, Others(i)
      PROVE  CInv'
  <2>1. \/ finalize(i) \/ CreateTinV1(i) \/ close_expired(i)
        \/ \E fields : stage(i, fields)
        \/ \E k, offset, mark : append_chunk(i, k, offset, mark)
    BY <1>8, Zenon DEF Others
  <2>2. Kept
    BY <1>t, <2>1, InstructionKeeps
  <2>3. crank' = crank /\ report' = report
    BY <1>8 DEF Others
  <2> QED
    BY <1>t, <2>2, <2>3, NothingConfirmed DEF Landed
<1>9. CASE (Tick /\ UNCHANGED <<crank, adrift, report>>) \/ UNCHANGED vars
  <2>1. registry' = registry /\ crank' = crank /\ report' = report
    BY <1>9 DEF Tick, vars, chain
  <2> QED
    BY <1>t, <2>1, UntouchedKeeps, NothingConfirmed DEF Landed
<1> QED
  BY <1>1, <1>2, <1>3, <1>4, <1>5, <1>6, <1>7, <1>8, <1>9 DEF Next

(* A creation reported CONFIRMED is in the registry, and a staged one is   *)
(* there under its own intent, whatever else the Crankers and other        *)
(* callers sent.                                                           *)
THEOREM ConfirmationsHold == Spec => []ConfirmedIsCreated
<1>1. CInv => ConfirmedIsCreated
  BY DEF CInv
<1> QED
  BY <1>1, OperationInit, OperationStep, ConfirmedInit, ConfirmedStep, PTL DEF Spec

-----------------------------------------------------------------------------
(* What is staged.                                                         *)

StagingTypes == staging \in [Intent -> Staging \cup {None}]

(* What StagingGrows says of one staging account.                          *)
Grows(i) ==
  staging[i] # None =>
    \/ staging'[i] = None /\ (Lapsed(i) \/ recovery'[OwnerOf[i]] = i)
    \/ /\ staging'[i] # None /\ staging'[i].fields = staging[i].fields
       /\ \A k \in Kind : IsPrefix(staging[i].content[k], staging'[i].content[k])

LEMMA PrefixOfItself ==
  ASSUME NEW s \in Seq(Mark)
  PROVE  IsPrefix(s, s)
BY DEF IsPrefix

LEMMA PrefixOfAppended ==
  ASSUME NEW s \in Seq(Mark), NEW mark \in Mark
  PROVE  IsPrefix(s, Append(s, mark))
<1>1. Len(s) \in Nat /\ Append(s, mark) \in Seq(Mark) /\ Len(Append(s, mark)) = Len(s) + 1
  OBVIOUS
<1>2. \A n \in 1..Len(s) : Append(s, mark)[n] = s[n]
  OBVIOUS
<1>3. SubSeq(s, 1, Len(s)) = SubSeq(Append(s, mark), 1, Len(s))
  BY <1>1, <1>2
<1> QED
  BY <1>1, <1>3 DEF IsPrefix

LEMMA AppendedBlob ==
  ASSUME NEW c \in [Kind -> Seq(Mark)], NEW k, NEW mark \in Mark
  PROVE  /\ [c EXCEPT ![k] = Append(@, mark)] \in [Kind -> Seq(Mark)]
         /\ \A b \in Kind : [c EXCEPT ![k] = Append(@, mark)][b]
                             = IF b = k THEN Append(c[b], mark) ELSE c[b]
<1>1. \A b \in Kind : Append(c[b], mark) \in Seq(Mark)
  OBVIOUS
<1>2. [c EXCEPT ![k] = Append(@, mark)] = [b \in Kind |-> IF b = k THEN Append(c[b], mark) ELSE c[b]]
  OBVIOUS
<1> QED
  BY <1>1, <1>2

LEMMA UntouchedGrows ==
  ASSUME StagingTypes, NEW i \in Intent, staging'[i] = staging[i]
  PROVE  Grows(i)
<1> SUFFICES ASSUME staging[i] # None PROVE Grows(i)
  BY DEF Grows
<1>1. staging[i].content \in [Kind -> Seq(Mark)]
  BY DEF StagingTypes, Staging, Content
<1> QED
  BY <1>1, PrefixOfItself DEF Grows

(* An account that is made, is closed or is finalized.                     *)
LEMMA OneAccount ==
  ASSUME StagingTypes, NEW i \in Intent, NEW account \in Staging \cup {None},
         staging' = [staging EXCEPT ![i] = account], Grows(i)
  PROVE  StagingTypes' /\ \A j \in Intent : Grows(j)
<1>1. \A j \in Intent : j # i => staging'[j] = staging[j]
  BY DEF StagingTypes
<1> QED
  BY <1>1, UntouchedGrows DEF StagingTypes

LEMMA StageGrows ==
  ASSUME StagingTypes, NEW i \in Intent, NEW fields \in Mark, stage(i, fields)
  PROVE  StagingTypes' /\ \A j \in Intent : Grows(j)
<1>1. CASE staging' = staging
  BY <1>1, UntouchedGrows DEF StagingTypes
<1>2. CASE staging' # staging
  <2> DEFINE account == [fields |-> fields, content |-> [k \in Kind |-> <<>>]]
  <2>1. staging[i] = None /\ staging' = [staging EXCEPT ![i] = account]
    BY <1>2 DEF stage
  <2>2. account \in Staging
    BY DEF Staging, Content
  <2> HIDE DEF account
  <2> QED
    BY <2>1, <2>2, OneAccount DEF Grows
<1> QED
  BY <1>1, <1>2

LEMMA ChunkGrows ==
  ASSUME StagingTypes, NEW i \in Intent, NEW k, NEW offset, NEW mark \in Mark,
         append_chunk(i, k, offset, mark)
  PROVE  StagingTypes' /\ \A j \in Intent : Grows(j)
<1>1. CASE staging' = staging
  BY <1>1, UntouchedGrows DEF StagingTypes
<1>2. CASE staging' # staging
  <2> DEFINE content == [staging[i].content EXCEPT ![k] = Append(@, mark)]
             account == [staging[i] EXCEPT !.content = content]
  <2>1. /\ staging[i] \in Staging /\ staging[i] # None
        /\ staging' = [staging EXCEPT ![i].content[k] = Append(@, mark)]
    BY <1>2 DEF append_chunk, ChunkAllowed, StagingTypes
  <2>2. staging[i].fields \in Mark /\ staging[i].content \in [Kind -> Seq(Mark)]
    BY <2>1 DEF Staging, Content
  <2>3. /\ content \in [Kind -> Seq(Mark)]
        /\ \A b \in Kind : content[b] = IF b = k THEN Append(staging[i].content[b], mark)
                                                ELSE staging[i].content[b]
    BY <2>2, AppendedBlob
  <2>4. \A b \in Kind : IsPrefix(staging[i].content[b], content[b])
    BY <2>2, <2>3, PrefixOfItself, PrefixOfAppended
  <2>5. staging' = [staging EXCEPT ![i] = account]
    BY <2>1
  <2> HIDE DEF content
  <2>6. account \in Staging /\ account.fields = staging[i].fields /\ account.content = content
    BY <2>1, <2>2, <2>3 DEF Staging, Content
  <2> HIDE DEF account
  <2>7. staging'[i] = account /\ account # None
    BY <2>5, <2>6, RegistrarAssumption DEF StagingTypes
  <2>8. Grows(i)
    BY <2>4, <2>6, <2>7 DEF Grows
  <2> QED
    BY <2>5, <2>6, <2>8, OneAccount
<1> QED
  BY <1>1, <1>2

LEMMA CloseGrows ==
  ASSUME StagingTypes, CreatedTypes, NEW i \in Intent, close_expired(i) \/ finalize(i)
  PROVE  StagingTypes' /\ \A j \in Intent : Grows(j)
<1>1. staging' = [staging EXCEPT ![i] = None]
  BY DEF close_expired, finalize
<1>2. Lapsed(i) \/ recovery'[OwnerOf[i]] = i
  BY RegistrarAssumption DEF close_expired, finalize, apply, CreatedTypes
<1>3. Grows(i)
  BY <1>1, <1>2 DEF Grows, StagingTypes
<1> QED
  BY <1>1, <1>3, OneAccount

LEMMA UnstagedGrows ==
  ASSUME StagingTypes, staging' = staging
  PROVE  StagingTypes' /\ \A j \in Intent : Grows(j)
BY UntouchedGrows DEF StagingTypes

LEMMA ExecuteGrows ==
  ASSUME StagingTypes, CreatedTypes, NEW i \in Intent, NEW n, Execute(i, n)
  PROVE  StagingTypes' /\ \A j \in Intent : Grows(j)
<1>1. "approved" \in Mark
  BY DEF Mark
<1>2. \/ stage(i, "approved")
      \/ \E k, offset : append_chunk(i, k, offset, "approved")
      \/ finalize(i) \/ CreateTinV1(i) \/ UNCHANGED chain
  BY Zenon DEF Execute
<1>3. CASE CreateTinV1(i) \/ UNCHANGED chain
  BY <1>3, UnstagedGrows DEF CreateTinV1, chain
<1> QED
  BY <1>1, <1>2, <1>3, StageGrows, ChunkGrows, CloseGrows

LEMMA StagingStep ==
  ASSUME OInv, StagingTypes, [Next]_vars
  PROVE  StagingTypes' /\ \A j \in Intent : Grows(j)
<1>0. /\ CreatedTypes
      /\ crank \in [Cranker -> Work \cup {None}] /\ adrift \subseteq Intent \X Nat
  BY DEF OInv, RInv
<1>1. ASSUME NEW c \in Cranker, Land(c)
      PROVE  StagingTypes' /\ \A j \in Intent : Grows(j)
  <2>1. crank[c].intent \in Intent /\ Execute(crank[c].intent, crank[c].step)
    BY <1>0, <1>1 DEF Land, Work
  <2> QED
    BY <1>0, <2>1, ExecuteGrows
<1>2. ASSUME NEW tx \in adrift, LandLate(tx[1], tx[2])
      PROVE  StagingTypes' /\ \A j \in Intent : Grows(j)
  <2>1. tx[1] \in Intent
    BY <1>0
  <2> QED
    BY <1>0, <1>2, <2>1, ExecuteGrows DEF LandLate
<1>3. ASSUME NEW i \in Intent, Others(i)
      PROVE  StagingTypes' /\ \A j \in Intent : Grows(j)
  <2>1. "other" \in Mark
    BY DEF Mark
  <2>2. \/ close_expired(i) \/ finalize(i) \/ stage(i, "other")
        \/ \E k, offset : append_chunk(i, k, offset, "other")
    BY <1>3, Zenon DEF Others
  <2> QED
    BY <1>0, <2>1, <2>2, StageGrows, ChunkGrows, CloseGrows
<1>4. ASSUME NEW c, NEW i,
             \/ Lease(c, i) \/ sendTransaction(c) \/ NextStep(c) \/ Finish(c) \/ GiveUp(c) \/ Crash(c)
      PROVE  UNCHANGED staging
  BY <1>4 DEF Lease, sendTransaction, NextStep, Finish, GiveUp, Crash, chain
<1>5. ASSUME NEW i, NEW n, Expire(i, n) \/ Tick \/ UNCHANGED vars
      PROVE  UNCHANGED staging
  BY <1>5 DEF Expire, Tick, vars, chain
<1> QED
  BY <1>1, <1>2, <1>3, <1>4, <1>5, UnstagedGrows DEF Next

(* Whatever the Crankers and other callers send, repeat or leave behind:   *)
(* a staging account only grows until its intent was created or lapsed.    *)
THEOREM StagedOnlyGrows == Spec => StagingGrows
<1>1. Init => StagingTypes
  BY DEF Init, RInit, StagingTypes
<1>2. OInv /\ StagingTypes /\ [Next]_vars => StagingTypes' /\ \A i \in Intent : Grows(i)
  BY StagingStep
<1>3. (\A i \in Intent : Grows(i)) =>
        [\A i \in Intent : staging[i] # None =>
           \/ staging'[i] = None /\ (Lapsed(i) \/ recovery'[OwnerOf[i]] = i)
           \/ /\ staging'[i] # None /\ staging'[i].fields = staging[i].fields
              /\ \A k \in Kind : IsPrefix(staging[i].content[k], staging'[i].content[k])]_chain
  BY Zenon DEF Grows
<1> QED
  BY <1>1, <1>2, <1>3, OperationInit, OperationStep, PTL DEF Spec, StagingGrows

-----------------------------------------------------------------------------
(* The route tree: what its recursive definitions compute, level by level. *)
(* Each is the function its equations describe, as one of every length     *)
(* exists.                                                                 *)

LEMMA ZeroHashes ==
  /\ ZeroHash[0] = Zero
  /\ \A l \in Level : ZeroHash[l + 1] = poseidon2(ZeroHash[l], ZeroHash[l])
<1> USE DepthAssumption
<1> DEFINE IsIt(F, n) ==
             F = [k \in 0..n |-> IF k = 0 THEN Zero ELSE poseidon2(F[k - 1], F[k - 1])]
           Q == {n \in 0..Depth : \E F : IsIt(F, n)}
<1>1. 0 \in Q
  <2> DEFINE F == [k \in 0..0 |-> Zero]
  <2>1. IsIt(F, 0)
    OBVIOUS
  <2> HIDE DEF F, IsIt
  <2> QED
    BY <2>1
<1>2. ASSUME NEW n \in 0..(Depth - 1), n \in Q PROVE n + 1 \in Q
  <2>1. PICK F : IsIt(F, n)
    BY <1>2
  <2> DEFINE G == [k \in 0..(n + 1) |-> IF k = n + 1 THEN poseidon2(F[n], F[n]) ELSE F[k]]
  <2>2. \A k \in 0..n : F[k] = IF k = 0 THEN Zero ELSE poseidon2(F[k - 1], F[k - 1])
    BY <2>1
  <2>3. ASSUME NEW k \in 0..(n + 1) PROVE G[k] = IF k = 0 THEN Zero ELSE poseidon2(G[k - 1], G[k - 1])
    <3>1. CASE k = n + 1
      BY <3>1
    <3>2. CASE k # n + 1
      BY <3>2, <2>2
    <3> QED
      BY <3>1, <3>2
  <2>4. IsIt(G, n + 1)
    BY <2>3
  <2> HIDE DEF G, IsIt
  <2> QED
    BY <2>4
<1>3. \E F : IsIt(F, Depth)
  <2> HIDE DEF IsIt
  <2>1. Depth \in Q
    <3> HIDE DEF Q
    <3> QED
      BY <1>1, <1>2, UpTo
  <2> QED
    BY <2>1
<1>4. IsIt(ZeroHash, Depth)
  BY <1>3 DEF ZeroHash
<1> HIDE DEF Q
<1>5. \A k \in 0..Depth : ZeroHash[k] = IF k = 0 THEN Zero ELSE poseidon2(ZeroHash[k - 1], ZeroHash[k - 1])
  BY <1>4
<1> QED
  BY <1>5 DEF Level

LEMMA Widths ==
  Width[0] = 1 /\ \A l \in Level : Width[l + 1] = 2 * Width[l]
<1> USE DepthAssumption
<1> DEFINE IsIt(F, n) ==
             F = [k \in 0..n |-> IF k = 0 THEN 1 ELSE 2 * F[k - 1]]
           Q == {n \in 0..Depth : \E F : IsIt(F, n)}
<1>1. 0 \in Q
  <2> DEFINE F == [k \in 0..0 |-> 1]
  <2>1. IsIt(F, 0)
    OBVIOUS
  <2> HIDE DEF F, IsIt
  <2> QED
    BY <2>1
<1>2. ASSUME NEW n \in 0..(Depth - 1), n \in Q PROVE n + 1 \in Q
  <2>1. PICK F : IsIt(F, n)
    BY <1>2
  <2> DEFINE G == [k \in 0..(n + 1) |-> IF k = n + 1 THEN 2 * F[n] ELSE F[k]]
  <2>2. \A k \in 0..n : F[k] = IF k = 0 THEN 1 ELSE 2 * F[k - 1]
    BY <2>1
  <2>3. ASSUME NEW k \in 0..(n + 1) PROVE G[k] = IF k = 0 THEN 1 ELSE 2 * G[k - 1]
    <3>1. CASE k = n + 1
      BY <3>1
    <3>2. CASE k # n + 1
      BY <3>2, <2>2
    <3> QED
      BY <3>1, <3>2
  <2>4. IsIt(G, n + 1)
    BY <2>3
  <2> HIDE DEF G, IsIt
  <2> QED
    BY <2>4
<1>3. \E F : IsIt(F, Depth)
  <2> HIDE DEF IsIt
  <2>1. Depth \in Q
    <3> HIDE DEF Q
    <3> QED
      BY <1>1, <1>2, UpTo
  <2> QED
    BY <2>1
<1>4. IsIt(Width, Depth)
  BY <1>3 DEF Width
<1> HIDE DEF Q
<1>5. \A k \in 0..Depth : Width[k] = IF k = 0 THEN 1 ELSE 2 * Width[k - 1]
  BY <1>4
<1> QED
  BY <1>5 DEF Level

LEMMA Halves ==
  ASSUME NEW count
  PROVE  /\ Shifted(count)[0] = count
         /\ \A l \in Level : Shifted(count)[l + 1] = Shifted(count)[l] \div 2
<1> USE DepthAssumption
<1> DEFINE IsIt(F, n) ==
             F = [k \in 0..n |-> IF k = 0 THEN count ELSE F[k - 1] \div 2]
           Q == {n \in 0..Depth : \E F : IsIt(F, n)}
<1>1. 0 \in Q
  <2> DEFINE F == [k \in 0..0 |-> count]
  <2>1. IsIt(F, 0)
    OBVIOUS
  <2> HIDE DEF F, IsIt
  <2> QED
    BY <2>1
<1>2. ASSUME NEW n \in 0..(Depth - 1), n \in Q PROVE n + 1 \in Q
  <2>1. PICK F : IsIt(F, n)
    BY <1>2
  <2> DEFINE G == [k \in 0..(n + 1) |-> IF k = n + 1 THEN F[n] \div 2 ELSE F[k]]
  <2>2. \A k \in 0..n : F[k] = IF k = 0 THEN count ELSE F[k - 1] \div 2
    BY <2>1
  <2>3. ASSUME NEW k \in 0..(n + 1) PROVE G[k] = IF k = 0 THEN count ELSE G[k - 1] \div 2
    <3>1. CASE k = n + 1
      BY <3>1
    <3>2. CASE k # n + 1
      BY <3>2, <2>2
    <3> QED
      BY <3>1, <3>2
  <2>4. IsIt(G, n + 1)
    BY <2>3
  <2> HIDE DEF G, IsIt
  <2> QED
    BY <2>4
<1>3. \E F : IsIt(F, Depth)
  <2> HIDE DEF IsIt
  <2>1. Depth \in Q
    <3> HIDE DEF Q
    <3> QED
      BY <1>1, <1>2, UpTo
  <2> QED
    BY <2>1
<1>4. IsIt(Shifted(count), Depth)
  BY <1>3 DEF Shifted
<1> HIDE DEF Q
<1>5. \A k \in 0..Depth : Shifted(count)[k] = IF k = 0 THEN count ELSE Shifted(count)[k - 1] \div 2
  BY <1>4
<1> QED
  BY <1>5 DEF Level

LEMMA Paths ==
  ASSUME NEW state, NEW leaf
  PROVE  /\ Path(state, leaf)[0] = leaf
         /\ \A l \in Level : Path(state, leaf)[l + 1] =
              IF IsLeft(state.leaf_count, l) THEN poseidon2(Path(state, leaf)[l], ZeroHash[l])
              ELSE poseidon2(state.frontier[l], Path(state, leaf)[l])
<1> USE DepthAssumption
<1> DEFINE IsIt(F, n) ==
             F = [k \in 0..n |-> IF k = 0 THEN leaf ELSE IF IsLeft(state.leaf_count, k - 1) THEN poseidon2(F[k - 1], ZeroHash[k - 1]) ELSE poseidon2(state.frontier[k - 1], F[k - 1])]
           Q == {n \in 0..Depth : \E F : IsIt(F, n)}
<1>1. 0 \in Q
  <2> DEFINE F == [k \in 0..0 |-> leaf]
  <2>1. IsIt(F, 0)
    OBVIOUS
  <2> HIDE DEF F, IsIt
  <2> QED
    BY <2>1
<1>2. ASSUME NEW n \in 0..(Depth - 1), n \in Q PROVE n + 1 \in Q
  <2>1. PICK F : IsIt(F, n)
    BY <1>2
  <2> DEFINE G == [k \in 0..(n + 1) |-> IF k = n + 1 THEN IF IsLeft(state.leaf_count, n) THEN poseidon2(F[n], ZeroHash[n]) ELSE poseidon2(state.frontier[n], F[n]) ELSE F[k]]
  <2>2. \A k \in 0..n : F[k] = IF k = 0 THEN leaf ELSE IF IsLeft(state.leaf_count, k - 1) THEN poseidon2(F[k - 1], ZeroHash[k - 1]) ELSE poseidon2(state.frontier[k - 1], F[k - 1])
    BY <2>1
  <2>3. ASSUME NEW k \in 0..(n + 1) PROVE G[k] = IF k = 0 THEN leaf ELSE IF IsLeft(state.leaf_count, k - 1) THEN poseidon2(G[k - 1], ZeroHash[k - 1]) ELSE poseidon2(state.frontier[k - 1], G[k - 1])
    <3>1. CASE k = n + 1
      BY <3>1
    <3>2. CASE k # n + 1
      BY <3>2, <2>2
    <3> QED
      BY <3>1, <3>2
  <2>4. IsIt(G, n + 1)
    BY <2>3
  <2> HIDE DEF G, IsIt
  <2> QED
    BY <2>4
<1>3. \E F : IsIt(F, Depth)
  <2> HIDE DEF IsIt
  <2>1. Depth \in Q
    <3> HIDE DEF Q
    <3> QED
      BY <1>1, <1>2, UpTo
  <2> QED
    BY <2>1
<1>4. IsIt(Path(state, leaf), Depth)
  BY <1>3 DEF Path
<1> HIDE DEF Q
<1>5. \A k \in 0..Depth : Path(state, leaf)[k] = IF k = 0 THEN leaf ELSE IF IsLeft(state.leaf_count, k - 1) THEN poseidon2(Path(state, leaf)[k - 1], ZeroHash[k - 1]) ELSE poseidon2(state.frontier[k - 1], Path(state, leaf)[k - 1])
  BY <1>4
<1> QED
  BY <1>5 DEF Level

LEMMA Rows ==
  ASSUME NEW leaves
  PROVE  /\ \A index \in Nat :
              Subtree(leaves)[0][index] = IF index < Len(leaves) THEN leaves[index + 1] ELSE Zero
         /\ \A l \in Level, index \in Nat :
              Subtree(leaves)[l + 1][index] =
                poseidon2(Subtree(leaves)[l][2 * index], Subtree(leaves)[l][2 * index + 1])
<1> USE DepthAssumption
<1> DEFINE Node(F, k, index) ==
             IF k = 0 THEN IF index < Len(leaves) THEN leaves[index + 1] ELSE Zero
             ELSE poseidon2(F[k - 1][2 * index], F[k - 1][2 * index + 1])
           Row(F, k) == [index \in Nat |-> Node(F, k, index)]
           IsIt(F, n) == F = [k \in 0..n |-> Row(F, k)]
           Q == {n \in 0..Depth : \E F : IsIt(F, n)}
<1>1. ASSUME NEW F, NEW G, NEW k, k = 0 \/ F[k - 1] = G[k - 1]
      PROVE  Row(F, k) = Row(G, k)
  <2>1. \A index \in Nat : Node(F, k, index) = Node(G, k, index)
    BY <1>1
  <2> HIDE DEF Node
  <2> QED
    BY <2>1
<1> HIDE DEF Row
<1>2. 0 \in Q
  <2> DEFINE F == [k \in 0..0 |-> Row(<<>>, 0)]
  <2>1. IsIt(F, 0)
    <3>1. Row(F, 0) = Row(<<>>, 0)
      <4> HIDE DEF F
      <4> QED
        BY <1>1
    <3> QED
      BY <3>1
  <2> HIDE DEF F, IsIt
  <2> QED
    BY <2>1
<1>3. ASSUME NEW n \in 0..(Depth - 1), n \in Q PROVE n + 1 \in Q
  <2>1. PICK F : IsIt(F, n)
    BY <1>3
  <2> DEFINE G == [k \in 0..(n + 1) |-> IF k = n + 1 THEN Row(F, n + 1) ELSE F[k]]
  <2>2. \A k \in 0..n : F[k] = Row(F, k)
    BY <2>1
  <2>3. \A k \in 0..n : G[k] = F[k]
    OBVIOUS
  <2>4. G[n + 1] = Row(F, n + 1) /\ DOMAIN G = 0..(n + 1)
    OBVIOUS
  <2>5. G = [k \in 0..(n + 1) |-> G[k]]
    OBVIOUS
  <2> HIDE DEF G
  <2>6. ASSUME NEW k \in 0..(n + 1) PROVE G[k] = Row(G, k)
    <3>1. Row(F, k) = Row(G, k)
      <4>1. k = 0 \/ F[k - 1] = G[k - 1]
        BY <2>3
      <4> QED
        BY <4>1, <1>1
    <3> QED
      BY <3>1, <2>2, <2>3, <2>4
  <2>7. IsIt(G, n + 1)
    BY <2>5, <2>6
  <2> HIDE DEF IsIt
  <2> QED
    BY <2>7
<1>4. \E F : IsIt(F, Depth)
  <2> HIDE DEF IsIt
  <2>1. Depth \in Q
    <3> HIDE DEF Q
    <3> QED
      BY <1>2, <1>3, UpTo
  <2> QED
    BY <2>1
<1>5. IsIt(Subtree(leaves), Depth)
  BY <1>4 DEF Subtree, Row
<1> HIDE DEF Q
<1>6. \A k \in 0..Depth : Subtree(leaves)[k] = Row(Subtree(leaves), k)
  BY <1>5
<1>7. \A k \in 0..Depth, index \in Nat :
        Subtree(leaves)[k][index] = Node(Subtree(leaves), k, index)
  BY <1>6 DEF Row
<1>8. ASSUME NEW l \in Level, NEW index \in Nat
      PROVE  Subtree(leaves)[l + 1][index] =
               poseidon2(Subtree(leaves)[l][2 * index], Subtree(leaves)[l][2 * index + 1])
  <2>1. l + 1 \in 0..Depth /\ l + 1 # 0 /\ (l + 1) - 1 = l
    BY DEF Level
  <2> QED
    BY <1>7, <2>1
<1> QED
  BY <1>7, <1>8

(* The functions of the levels are numbers.                                *)
LEMMA WidthType == \A l \in 0..Depth : Width[l] \in Nat
<1> USE DepthAssumption
<1> DEFINE Q == {l \in 0..Depth : Width[l] \in Nat}
<1>1. 0 \in Q
  BY Widths
<1>2. ASSUME NEW l \in 0..(Depth - 1), l \in Q PROVE l + 1 \in Q
  BY <1>2, Widths DEF Level
<1>3. 0..Depth \subseteq Q
  <2> HIDE DEF Q
  <2> QED
    BY <1>1, <1>2, UpTo
<1> QED
  BY <1>3

LEMMA ShiftedType ==
  ASSUME NEW count \in Nat
  PROVE  \A l \in 0..Depth : Shifted(count)[l] \in Nat
<1> USE DepthAssumption
<1> DEFINE Q == {l \in 0..Depth : Shifted(count)[l] \in Nat}
<1>1. 0 \in Q
  BY Halves
<1>2. ASSUME NEW l \in 0..(Depth - 1), l \in Q PROVE l + 1 \in Q
  BY <1>2, Halves DEF Level
<1>3. 0..Depth \subseteq Q
  <2> HIDE DEF Q
  <2> QED
    BY <1>1, <1>2, UpTo
<1> QED
  BY <1>3

(* The next leaf falls in the same subtree of a height or in the next one. *)
LEMMA ShiftedNext ==
  ASSUME NEW count \in Nat
  PROVE  \A l \in 0..Depth :
           \/ Shifted(count + 1)[l] = Shifted(count)[l]
           \/ Shifted(count + 1)[l] = Shifted(count)[l] + 1
<1> USE DepthAssumption
<1> DEFINE Q == {l \in 0..Depth : \/ Shifted(count + 1)[l] = Shifted(count)[l]
                                  \/ Shifted(count + 1)[l] = Shifted(count)[l] + 1}
<1>1. 0 \in Q
  BY Halves
<1>2. ASSUME NEW l \in 0..(Depth - 1), l \in Q PROVE l + 1 \in Q
  <2>1. /\ Shifted(count)[l + 1] = Shifted(count)[l] \div 2
        /\ Shifted(count + 1)[l + 1] = Shifted(count + 1)[l] \div 2
    BY Halves DEF Level
  <2>2. Shifted(count)[l] \in Nat
    BY ShiftedType
  <2> QED
    BY <1>2, <2>1, <2>2
<1>3. 0..Depth \subseteq Q
  <2> HIDE DEF Q
  <2> QED
    BY <1>1, <1>2, UpTo
<1> QED
  BY <1>3

(* All leaves are below the one node of the highest level.                 *)
LEMMA ShiftedAway ==
  ASSUME NEW count \in Nat, count < Width[Depth]
  PROVE  Shifted(count)[Depth] = 0
<1> USE DepthAssumption
<1> DEFINE Q == {l \in 0..Depth : Shifted(count)[l] < Width[Depth - l]}
<1>1. 0 \in Q
  BY Halves
<1>2. ASSUME NEW l \in 0..(Depth - 1), l \in Q PROVE l + 1 \in Q
  <2> DEFINE m == Depth - (l + 1)
  <2>1. m \in Level /\ m \in 0..Depth /\ m + 1 = Depth - l
    BY DEF Level
  <2>2. Shifted(count)[l + 1] = Shifted(count)[l] \div 2
    BY Halves DEF Level
  <2>3. Width[m + 1] = 2 * Width[m]
    BY <2>1, Widths
  <2>4. Shifted(count)[l] \in Nat /\ Width[m] \in Nat
    BY <2>1, ShiftedType, WidthType
  <2>5. Shifted(count)[l] < Width[m + 1]
    BY <1>2, <2>1
  <2> HIDE DEF m
  <2>6. Shifted(count)[l + 1] < Width[m]
    BY <2>2, <2>3, <2>4, <2>5
  <2> QED
    BY <2>6 DEF m
<1>3. 0..Depth \subseteq Q
  <2> HIDE DEF Q
  <2> QED
    BY <1>1, <1>2, UpTo
<1>4. Shifted(count)[Depth] < Width[0]
  BY <1>3
<1>5. Shifted(count)[Depth] \in Nat /\ Width[0] = 1
  BY ShiftedType, Widths
<1> QED
  BY <1>4, <1>5

(* A subtree that begins right of the last leaf is empty.                  *)
LEMMA EmptySubtree ==
  ASSUME NEW leaves, Len(leaves) \in Nat
  PROVE  \A l \in 0..Depth : \A index \in Nat :
           Len(leaves) = 0 \/ index > Shifted(Len(leaves) - 1)[l]
             => Subtree(leaves)[l][index] = ZeroHash[l]
<1> USE DepthAssumption
<1> DEFINE T == Subtree(leaves)
           N == Len(leaves)
           S == Shifted(N - 1)
           Q == {l \in 0..Depth : \A index \in Nat :
                   N = 0 \/ index > S[l] => T[l][index] = ZeroHash[l]}
<1>1. 0 \in Q
  <2>1. ASSUME NEW index \in Nat, N = 0 \/ index > S[0] PROVE T[0][index] = ZeroHash[0]
    <3>1. S[0] = N - 1
      BY Halves
    <3>2. ~ (index < N)
      BY <2>1, <3>1
    <3> QED
      BY <3>2, Rows, ZeroHashes
  <2> QED
    BY <2>1
<1>2. ASSUME NEW l \in 0..(Depth - 1), l \in Q PROVE l + 1 \in Q
  <2>1. ASSUME NEW index \in Nat, N = 0 \/ index > S[l + 1]
        PROVE  T[l + 1][index] = ZeroHash[l + 1]
    <3>1. N = 0 \/ (2 * index > S[l] /\ 2 * index + 1 > S[l])
      <4>1. CASE N # 0
        <5>1. S[l + 1] = S[l] \div 2
          BY Halves DEF Level
        <5>2. S[l] \in Nat
          BY <4>1, ShiftedType
        <5> HIDE DEF S
        <5> QED
          BY <2>1, <4>1, <5>1, <5>2
      <4> QED
        BY <4>1
    <3>2. T[l][2 * index] = ZeroHash[l] /\ T[l][2 * index + 1] = ZeroHash[l]
      BY <1>2, <3>1
    <3>3. T[l + 1][index] = poseidon2(T[l][2 * index], T[l][2 * index + 1])
      BY Rows DEF Level
    <3>4. ZeroHash[l + 1] = poseidon2(ZeroHash[l], ZeroHash[l])
      BY ZeroHashes DEF Level
    <3> QED
      BY <3>2, <3>3, <3>4
  <2> QED
    BY <2>1
<1>3. 0..Depth \subseteq Q
  <2> HIDE DEF Q
  <2> QED
    BY <1>1, <1>2, UpTo
<1> QED
  BY <1>3

(* A new leaf leaves the subtrees to its left as they were.                *)
LEMMA SubtreeKept ==
  ASSUME NEW Leaf, NEW leaves \in Seq(Leaf), NEW leaf \in Leaf
  PROVE  \A l \in 0..Depth : \A index \in Nat :
           index < Shifted(Len(leaves))[l]
             => Subtree(Append(leaves, leaf))[l][index] = Subtree(leaves)[l][index]
<1> USE DepthAssumption
<1> DEFINE longer == Append(leaves, leaf)
           T == Subtree(leaves)
           U == Subtree(longer)
           S == Shifted(Len(leaves))
           Q == {l \in 0..Depth : \A index \in Nat : index < S[l] => U[l][index] = T[l][index]}
<1>1. 0 \in Q
  <2>1. ASSUME NEW index \in Nat, index < S[0] PROVE U[0][index] = T[0][index]
    <3>1. S[0] = Len(leaves)
      BY Halves
    <3>2. /\ index < Len(leaves) /\ index < Len(longer)
          /\ longer[index + 1] = leaves[index + 1]
      BY <2>1, <3>1
    <3> HIDE DEF longer
    <3> QED
      BY <3>2, Rows
  <2> QED
    BY <2>1
<1>2. ASSUME NEW l \in 0..(Depth - 1), l \in Q PROVE l + 1 \in Q
  <2>1. ASSUME NEW index \in Nat, index < S[l + 1] PROVE U[l + 1][index] = T[l + 1][index]
    <3>1. 2 * index < S[l] /\ 2 * index + 1 < S[l]
      <4>1. S[l + 1] = S[l] \div 2
        BY Halves DEF Level
      <4>2. S[l] \in Nat
        BY ShiftedType
      <4> HIDE DEF S
      <4> QED
        BY <2>1, <4>1, <4>2
    <3>2. U[l][2 * index] = T[l][2 * index] /\ U[l][2 * index + 1] = T[l][2 * index + 1]
      BY <1>2, <3>1
    <3>3. /\ T[l + 1][index] = poseidon2(T[l][2 * index], T[l][2 * index + 1])
          /\ U[l + 1][index] = poseidon2(U[l][2 * index], U[l][2 * index + 1])
      <4> HIDE DEF longer
      <4> QED
        BY Rows DEF Level
    <3> QED
      BY <3>2, <3>3
  <2> QED
    BY <2>1
<1>3. 0..Depth \subseteq Q
  <2> HIDE DEF Q
  <2> QED
    BY <1>1, <1>2, UpTo
<1> QED
  BY <1>3

-----------------------------------------------------------------------------
(* The root of the route tree.                                             *)

(* What the account says of the leaves appended: their number, the root    *)
(* over them and, for each level at which the next leaf falls into a right *)
(* subtree, the left sibling.                                              *)
Commits(state, leaves) ==
  /\ state.leaf_count = Len(leaves)
  /\ state.root = MerkleRoot(leaves)
  /\ \A l \in Level : ~IsLeft(Len(leaves), l) =>
       state.frontier[l] = Subtree(leaves)[l][Shifted(Len(leaves))[l] - 1]

(* The account before the first route.                                     *)
LEMMA EmptyCommits == Commits(EmptyRoot, <<>>)
<1> USE DepthAssumption
<1>1. Len(<<>>) = 0
  OBVIOUS
<1>2. \A l \in 0..Depth : Subtree(<<>>)[l][0] = ZeroHash[l]
  BY <1>1, EmptySubtree
<1>3. \A l \in 0..Depth : Shifted(0)[l] = 0
  <2> DEFINE Q == {l \in 0..Depth : Shifted(0)[l] = 0}
  <2>1. 0 \in Q
    BY Halves
  <2>2. ASSUME NEW l \in 0..(Depth - 1), l \in Q PROVE l + 1 \in Q
    BY <2>2, Halves DEF Level
  <2>3. 0..Depth \subseteq Q
    <3> HIDE DEF Q
    <3> QED
      BY <2>1, <2>2, UpTo
  <2> QED
    BY <2>3
<1>4. \A l \in Level : IsLeft(0, l)
  BY <1>3 DEF IsLeft, Level
<1>5. EmptyRoot.root = MerkleRoot(<<>>) /\ EmptyRoot.leaf_count = 0
  BY <1>2 DEF EmptyRoot, MerkleRoot
<1> QED
  BY <1>1, <1>4, <1>5 DEF Commits

(* Appending a leaf keeps it: the nodes on the path are the subtrees the   *)
(* leaf is in, up to the root.                                             *)
LEMMA AppendCommits ==
  ASSUME NEW Leaf, NEW leaves \in Seq(Leaf), NEW leaf \in Leaf, NEW state,
         Commits(state, leaves), Len(leaves) < Capacity
  PROVE  Commits(append_route(state, leaf), Append(leaves, leaf))
<1> USE DepthAssumption
<1> DEFINE longer == Append(leaves, leaf)
           N == Len(leaves)
           T == Subtree(leaves)
           U == Subtree(longer)
           S == Shifted(N)
           node == Path(state, leaf)
           after == append_route(state, leaf)
<1>1. N \in Nat /\ Len(longer) = N + 1 /\ longer[N + 1] = leaf /\ state.leaf_count = N
  BY DEF Commits
<1>2. /\ after.root = node[Depth] /\ after.leaf_count = N + 1
      /\ \A l \in Level : after.frontier[l] = IF IsLeft(N, l) THEN node[l] ELSE state.frontier[l]
  BY <1>1 DEF append_route
<1>3. \A l \in 0..Depth : S[l] \in Nat
  BY <1>1, ShiftedType
<1>4. \A l \in Level : ~IsLeft(N, l) => S[l] - 1 \in Nat /\ state.frontier[l] = U[l][S[l] - 1]
  <2> SUFFICES ASSUME NEW l \in Level, ~IsLeft(N, l)
               PROVE  S[l] - 1 \in Nat /\ state.frontier[l] = U[l][S[l] - 1]
    OBVIOUS
  <2>1. S[l] % 2 # 0 /\ S[l] \in Nat /\ l \in 0..Depth
    BY <1>3 DEF IsLeft, Level
  <2>2. S[l] - 1 \in Nat /\ S[l] - 1 < S[l]
    <3> HIDE DEF S
    <3> QED
      BY <2>1
  <2>3. state.frontier[l] = T[l][S[l] - 1]
    BY DEF Commits
  <2> HIDE DEF longer, U, S, T
  <2>4. U[l][S[l] - 1] = T[l][S[l] - 1]
    BY <2>1, <2>2, SubtreeKept DEF longer, U, S, T
  <2> QED
    BY <2>2, <2>3, <2>4
<1>5. \A l \in 0..Depth : node[l] = U[l][S[l]]
  <2> DEFINE Q == {l \in 0..Depth : node[l] = U[l][S[l]]}
  <2>1. 0 \in Q
    <3>1. node[0] = leaf
      BY Paths
    <3>2. S[0] = N
      BY Halves
    <3>3. U[0][N] = leaf
      <4> HIDE DEF longer, N
      <4> QED
        BY <1>1, Rows
    <3> QED
      BY <3>1, <3>2, <3>3
  <2>2. ASSUME NEW l \in 0..(Depth - 1), l \in Q PROVE l + 1 \in Q
    <3>1. l \in Level /\ S[l] \in Nat /\ S[l + 1] \in Nat
      BY <1>3 DEF Level
    <3>2. S[l + 1] = S[l] \div 2
      BY <3>1, Halves
    <3>3. U[l + 1][S[l + 1]] = poseidon2(U[l][2 * S[l + 1]], U[l][2 * S[l + 1] + 1])
      <4> HIDE DEF longer, S
      <4> QED
        BY <3>1, Rows
    <3>4. CASE IsLeft(N, l)
      <4>1. S[l] % 2 = 0
        BY <3>4 DEF IsLeft
      <4>2. 2 * S[l + 1] = S[l]
        <5> HIDE DEF S
        <5> QED
          BY <3>1, <3>2, <4>1
      <4>3. U[l][S[l] + 1] = ZeroHash[l]
        <5>1. Len(longer) - 1 = N /\ Len(longer) \in Nat /\ S[l] + 1 > S[l] /\ S[l] + 1 \in Nat
          BY <1>1, <3>1
        <5> HIDE DEF longer, N
        <5> QED
          BY <5>1, EmptySubtree
      <4>4. node[l + 1] = poseidon2(node[l], ZeroHash[l])
        BY <1>1, <3>1, <3>4, Paths
      <4> QED
        BY <2>2, <3>3, <4>2, <4>3, <4>4
    <3>5. CASE ~IsLeft(N, l)
      <4>1. S[l] % 2 # 0
        BY <3>5 DEF IsLeft
      <4>2. 2 * S[l + 1] = S[l] - 1 /\ 2 * S[l + 1] + 1 = S[l]
        <5> HIDE DEF S
        <5> QED
          BY <3>1, <3>2, <4>1
      <4>3. node[l + 1] = poseidon2(state.frontier[l], node[l])
        BY <1>1, <3>1, <3>5, Paths
      <4>4. state.frontier[l] = U[l][S[l] - 1]
        BY <1>4, <3>1, <3>5
      <4> QED
        BY <2>2, <3>3, <4>2, <4>3, <4>4
    <3> QED
      BY <3>4, <3>5
  <2>3. 0..Depth \subseteq Q
    <3> HIDE DEF Q
    <3> QED
      BY <2>1, <2>2, UpTo
  <2> QED
    BY <2>3
<1>6. after.root = U[Depth][0]
  <2>1. N < Width[Depth]
    <3>1. Width[Depth] \in Nat
      BY WidthType
    <3> HIDE DEF N
    <3> QED
      BY <3>1, <1>1 DEF Capacity, N
  <2>2. S[Depth] = 0
    BY <1>1, <2>1, ShiftedAway
  <2> QED
    BY <1>2, <1>5, <2>2
<1>7. ASSUME NEW l \in Level, ~IsLeft(N + 1, l)
      PROVE  after.frontier[l] = U[l][Shifted(N + 1)[l] - 1]
  <2> DEFINE R == Shifted(N + 1)
  <2>1. l \in 0..Depth /\ S[l] \in Nat /\ R[l] % 2 # 0
    BY <1>3, <1>7 DEF Level, IsLeft
  <2>2. CASE R[l] = S[l]
    <3>1. ~IsLeft(N, l)
      BY <2>1, <2>2 DEF IsLeft
    <3>2. after.frontier[l] = state.frontier[l]
      BY <1>2, <3>1
    <3> QED
      BY <1>4, <2>2, <3>1, <3>2
  <2>3. CASE R[l] = S[l] + 1
    <3>1. S[l] % 2 = 0 /\ R[l] - 1 = S[l]
      <4> HIDE DEF S, R
      <4> QED
        BY <2>1, <2>3
    <3>2. IsLeft(N, l)
      BY <3>1 DEF IsLeft
    <3>3. after.frontier[l] = node[l]
      BY <1>2, <3>2
    <3> QED
      BY <1>5, <2>1, <3>1, <3>3
  <2>4. R[l] = S[l] \/ R[l] = S[l] + 1
    BY <1>1, <2>1, ShiftedNext
  <2> QED
    BY <2>2, <2>3, <2>4
<1>8. after.leaf_count = Len(longer) /\ after.root = MerkleRoot(longer)
  BY <1>1, <1>2, <1>6 DEF MerkleRoot
<1>9. \A l \in Level : ~IsLeft(Len(longer), l) =>
        after.frontier[l] = U[l][Shifted(Len(longer))[l] - 1]
  BY <1>1, <1>7
<1> HIDE DEF after, longer
<1>10. Commits(after, longer)
  BY <1>8, <1>9 DEF Commits
<1> QED
  BY <1>10 DEF after, longer

(* The accounts that appending passes through.                             *)
LEMMA AppendedUnfolds ==
  ASSUME NEW leaves, Len(leaves) \in Nat
  PROVE  \E A : /\ Appended(leaves) = A[Len(leaves)]
                /\ A[0] = EmptyRoot
                /\ \A n \in 0..(Len(leaves) - 1) : A[n + 1] = append_route(A[n], leaves[n + 1])
<1> DEFINE N == Len(leaves)
           IsIt(F, n) ==
             F = [k \in 0..n |-> IF k = 0 THEN EmptyRoot ELSE append_route(F[k - 1], leaves[k])]
           Q == {n \in 0..N : \E F : IsIt(F, n)}
<1>1. 0 \in Q
  <2> DEFINE F == [k \in 0..0 |-> EmptyRoot]
  <2>1. IsIt(F, 0)
    OBVIOUS
  <2> HIDE DEF F, IsIt
  <2> QED
    BY <2>1
<1>2. ASSUME NEW n \in 0..(N - 1), n \in Q PROVE n + 1 \in Q
  <2>1. PICK F : IsIt(F, n)
    BY <1>2
  <2> DEFINE G == [k \in 0..(n + 1) |-> IF k = n + 1 THEN append_route(F[n], leaves[n + 1]) ELSE F[k]]
  <2>2. \A k \in 0..n : F[k] = IF k = 0 THEN EmptyRoot ELSE append_route(F[k - 1], leaves[k])
    BY <2>1
  <2>3. ASSUME NEW k \in 0..(n + 1)
        PROVE  G[k] = IF k = 0 THEN EmptyRoot ELSE append_route(G[k - 1], leaves[k])
    <3>1. CASE k = n + 1
      BY <3>1
    <3>2. CASE k # n + 1
      BY <3>2, <2>2
    <3> QED
      BY <3>1, <3>2
  <2>4. IsIt(G, n + 1)
    BY <2>3
  <2> HIDE DEF G, IsIt
  <2> QED
    BY <2>4
<1>3. \E F : IsIt(F, N)
  <2> HIDE DEF IsIt, N
  <2>0. N \in Nat
    BY DEF N
  <2>1. N \in Q
    <3>1. 0..N \subseteq Q
      <4> HIDE DEF Q
      <4> QED
        BY <1>1, <1>2, <2>0, UpTo
    <3> QED
      BY <2>0, <3>1
  <2> QED
    BY <2>1
<1> DEFINE A == CHOOSE F : IsIt(F, N)
<1>4. IsIt(A, N)
  BY <1>3
<1>5. Appended(leaves) = A[N]
  BY DEF Appended
<1> HIDE DEF A, Q
<1>6. \A k \in 0..N : A[k] = IF k = 0 THEN EmptyRoot ELSE append_route(A[k - 1], leaves[k])
  BY <1>4
<1> QED
  BY <1>5, <1>6

(* However many leaves were appended, as long as they fit.                 *)
LEMMA AppendedCommits ==
  ASSUME NEW Leaf, NEW leaves \in Seq(Leaf), Len(leaves) <= Capacity
  PROVE  Commits(Appended(leaves), leaves)
<1> DEFINE N == Len(leaves)
           front(n) == SubSeq(leaves, 1, n)
<1>1. PICK A : /\ Appended(leaves) = A[N]
               /\ A[0] = EmptyRoot
               /\ \A n \in 0..(N - 1) : A[n + 1] = append_route(A[n], leaves[n + 1])
  BY AppendedUnfolds
<1> DEFINE Q == {n \in 0..N : Commits(A[n], front(n))}
<1>2. 0 \in Q
  <2>1. front(0) = <<>> /\ 0 \in 0..N
    OBVIOUS
  <2>2. Commits(A[0], front(0))
    BY <1>1, <2>1, EmptyCommits
  <2> HIDE DEF front
  <2> QED
    BY <2>1, <2>2
<1>3. ASSUME NEW n \in 0..(N - 1), n \in Q PROVE n + 1 \in Q
  <2>1. front(n) \in Seq(Leaf) /\ Len(front(n)) = n /\ leaves[n + 1] \in Leaf
    OBVIOUS
  <2>2. front(n + 1) = Append(front(n), leaves[n + 1])
    OBVIOUS
  <2>3. n < Capacity
    <3>1. Capacity \in Int
      BY WidthType, DepthAssumption DEF Capacity
    <3> QED
      BY <3>1
  <2>4. Commits(A[n], front(n))
    BY <1>3
  <2> HIDE DEF front
  <2>5. Commits(append_route(A[n], leaves[n + 1]), front(n + 1))
    BY <2>1, <2>2, <2>3, <2>4, AppendCommits
  <2> QED
    BY <1>1, <2>5
<1>4. N \in Q
  <2>1. N \in Nat
    OBVIOUS
  <2>2. 0..N \subseteq Q
    <3> HIDE DEF Q, N
    <3> QED
      BY <1>2, <1>3, <2>1, UpTo
  <2> QED
    BY <2>1, <2>2
<1>5. front(N) = leaves
  OBVIOUS
<1> QED
  BY <1>1, <1>4, <1>5
-----------------------------------------------------------------------------
(* The root, with the program and its callers.                             *)

CommitInv == Commits(routes, appended)

(* What a step does to the routes: nothing, or one leaf more.              *)
OneRoute ==
  \/ UNCHANGED <<routes, appended>>
  \/ /\ routes.leaf_count < Capacity
     /\ \E leaf \in Lookup : /\ routes' = append_route(routes, leaf)
                             /\ appended' = Append(appended, leaf)

(* The routes appended before, none included.                              *)
LEMMA CommitInit == RInit => CommitInv
<1> SUFFICES ASSUME RInit PROVE CommitInv
  OBVIOUS
<1>1. PICK n \in Before : appended = [m \in 1..n |-> None] /\ routes = Appended(appended)
  BY DEF RInit
<1>2. n \in Nat /\ n <= Capacity
  <2>1. Capacity \in Int
    BY WidthType, DepthAssumption DEF Capacity
  <2> QED
    BY <2>1, RegistrarAssumption
<1>3. appended \in Seq(Lookup \cup {None}) /\ Len(appended) = n
  BY <1>1, <1>2, EarlierRoutes
<1> QED
  BY <1>1, <1>2, <1>3, AppendedCommits DEF CommitInv

LEMMA OneRouteCommits ==
  ASSUME CreatedTypes, CommitInv, OneRoute
  PROVE  CommitInv'
<1>1. CASE UNCHANGED <<routes, appended>>
  BY <1>1 DEF CommitInv
<1>2. ASSUME NEW leaf \in Lookup, routes.leaf_count < Capacity,
             routes' = append_route(routes, leaf), appended' = Append(appended, leaf)
      PROVE  CommitInv'
  <2>1. appended \in Seq(Lookup \cup {None}) /\ leaf \in Lookup \cup {None}
    BY DEF CreatedTypes
  <2>2. Commits(routes, appended) /\ Len(appended) < Capacity
    BY <1>2 DEF CommitInv, Commits
  <2>3. Commits(append_route(routes, leaf), Append(appended, leaf))
    BY <2>1, <2>2, AppendCommits
  <2> QED
    BY <1>2, <2>3, Zenon DEF CommitInv
<1> QED
  BY <1>1, <1>2 DEF OneRoute

(* Only a creation, whole or finalized, appends a route.                   *)
LEMMA InstructionRoutes ==
  ASSUME NEW i \in Intent,
         \/ finalize(i) \/ CreateTinV1(i)
         \/ close_expired(i)
         \/ \E fields : stage(i, fields)
         \/ \E k, offset, mark : append_chunk(i, k, offset, mark)
  PROVE  OneRoute
<1>1. CASE finalize(i) \/ CreateTinV1(i)
  <2>1. LookupOf[i] \in Lookup
    BY RegistrarAssumption
  <2>2. /\ routes.leaf_count < Capacity
        /\ routes' = append_route(routes, LookupOf[i])
        /\ appended' = Append(appended, LookupOf[i])
    BY <1>1 DEF finalize, CreateTinV1, apply, CreateAllowed
  <2> QED
    BY <2>1, <2>2 DEF OneRoute
<1>2. CASE \/ close_expired(i)
           \/ \E fields : stage(i, fields)
           \/ \E k, offset, mark : append_chunk(i, k, offset, mark)
  BY <1>2 DEF close_expired, stage, append_chunk, OneRoute
<1> QED
  BY <1>1, <1>2

LEMMA ExecuteRoutes ==
  ASSUME NEW i \in Intent, NEW n, Execute(i, n)
  PROVE  OneRoute
<1>1. CASE UNCHANGED chain
  BY <1>1 DEF chain, OneRoute
<1>2. CASE ~UNCHANGED chain
  <2>1. \/ finalize(i) \/ CreateTinV1(i) \/ close_expired(i)
        \/ \E fields : stage(i, fields)
        \/ \E k, offset, mark : append_chunk(i, k, offset, mark)
    BY <1>2, Zenon DEF Execute
  <2> QED
    BY <2>1, InstructionRoutes
<1> QED
  BY <1>1, <1>2

LEMMA RRoutes == [RNext]_chain => OneRoute
<1> SUFFICES ASSUME [RNext]_chain PROVE OneRoute
  OBVIOUS
<1>1. CASE Tick \/ UNCHANGED chain
  BY <1>1 DEF Tick, chain, OneRoute
<1>2. ASSUME NEW i \in Intent,
             \/ close_expired(i) \/ finalize(i) \/ CreateTinV1(i)
             \/ \E fields \in Mark : stage(i, fields)
             \/ \E k \in Kind, mark \in Mark :
                  \E offset \in 0..(ChunksOf[k] - 1) : append_chunk(i, k, offset, mark)
      PROVE  OneRoute
  <2>1. \/ finalize(i) \/ CreateTinV1(i) \/ close_expired(i)
        \/ \E fields : stage(i, fields)
        \/ \E k, offset, mark : append_chunk(i, k, offset, mark)
    BY <1>2, Zenon
  <2> QED
    BY <2>1, InstructionRoutes
<1> QED
  BY <1>1, <1>2 DEF RNext

LEMMA OperationRoutes ==
  ASSUME OInv, [Next]_vars
  PROVE  OneRoute
<1>0. crank \in [Cranker -> Work \cup {None}] /\ adrift \subseteq Intent \X Nat
  BY DEF OInv
<1>1. ASSUME NEW c \in Cranker, Land(c) PROVE OneRoute
  <2>1. crank[c].intent \in Intent /\ Execute(crank[c].intent, crank[c].step)
    BY <1>0, <1>1 DEF Land, Work
  <2> QED
    BY <2>1, ExecuteRoutes
<1>2. ASSUME NEW tx \in adrift, LandLate(tx[1], tx[2]) PROVE OneRoute
  BY <1>0, <1>2, ExecuteRoutes DEF LandLate
<1>3. ASSUME NEW i \in Intent, Others(i) PROVE OneRoute
  <2>1. \/ close_expired(i) \/ finalize(i) \/ \E fields : stage(i, fields)
        \/ \E k, offset, mark : append_chunk(i, k, offset, mark)
    BY <1>3, Zenon DEF Others
  <2> QED
    BY <2>1, InstructionRoutes
<1>4. ASSUME NEW c, NEW i,
             \/ Lease(c, i) \/ sendTransaction(c) \/ NextStep(c) \/ Finish(c) \/ GiveUp(c) \/ Crash(c)
      PROVE  OneRoute
  BY <1>4 DEF Lease, sendTransaction, NextStep, Finish, GiveUp, Crash, chain, OneRoute
<1>5. ASSUME NEW i, NEW n, Expire(i, n) \/ Tick \/ UNCHANGED vars
      PROVE  OneRoute
  BY <1>5 DEF Expire, Tick, vars, chain, OneRoute
<1> QED
  BY <1>1, <1>2, <1>3, <1>4, <1>5 DEF Next

LEMMA CommitsRoot == CommitInv => RootCommitsRoutes
BY DEF CommitInv, Commits, RootCommitsRoutes

(* However many routes, of whatever height the tree: the root the program  *)
(* keeps from one node per level is the root over all routes appended, in  *)
(* the order of their creation, whatever any callers send.                 *)
THEOREM RegistrarRoot == RSpec => []RootCommitsRoutes
<1>1. RInv /\ CommitInv /\ [RNext]_chain => CommitInv'
  BY RRoutes, OneRouteCommits DEF RInv
<1> QED
  BY <1>1, CommitInit, CommitsRoot, CreatedInit, RStep, PTL DEF RSpec

(* And so with the Crankers' transactions, late and repeated ones included. *)
THEOREM RootIsOfAllRoutes == Spec => []RootCommitsRoutes
<1>1. Init => CommitInv
  BY CommitInit DEF Init
<1>2. OInv /\ CommitInv /\ [Next]_vars => CommitInv'
  BY OperationRoutes, OneRouteCommits DEF OInv, RInv
<1> QED
  BY <1>1, <1>2, CommitsRoot, OperationInit, OperationStep, PTL DEF Spec

=============================================================================
