----------------------------- MODULE TinRegistrar -----------------------------
(***************************************************************************)
(* The program that issues TINs (tin-registrar): creation in one           *)
(* transaction, or by way of a staging account that collects the encrypted *)
(* blobs in chunks.  The program does not ask who sends a chunk, or who    *)
(* finalizes: what is created must hash to the intent its owner signed.    *)
(*                                                                         *)
(* An intent is one its owner signed; it stands for its hash, and so fixes *)
(* its owner, its lookup commitment and its expiry.  A blob is a sequence  *)
(* of chunks, each as the owner approved it or not; the other fields of a  *)
(* staging account are together as approved or not, but for the expiry,    *)
(* which is the intent's.  A transaction is atomic: one that fails changes *)
(* nothing.                                                                *)
(***************************************************************************)
EXTENDS TipRouteTree, SequencesExt

CONSTANTS
  None,
  Intent, Owner, Lookup,
  Blob,        \* the encrypted blobs, in the order the Cranker sends them
  OwnerOf,     \* intent -> owner_pubkey
  LookupOf,    \* intent -> lookup_commitment
  ExpiryOf,    \* intent -> expiry_ts
  ChunksOf,    \* blob -> its chunks
  TimeBound,   \* bound: the clock
  Before       \* bound: how many routes may have been appended before

VARIABLES
  now,         \* the clock of the chain
  staging,     \* intent -> TinV1CreationStaging
  registry,    \* lookup commitment -> TinV1Account
  recovery,    \* owner -> TinV1OwnerRecoveryAccount: the intent that made it
  routes,      \* TipRouteMerkleRootV1, the empty root until it is created
  sequence,    \* next_sequence of the global state, less the one it started at
  appended     \* history: the leaves, in the order of their creation

chain == <<now, staging, registry, recovery, routes, sequence, appended>>

Kind == ToSet(Blob)
Mark == {"approved", "other"}
Content == [Kind -> Seq(Mark)]
Approved == [k \in Kind |-> [n \in 1..ChunksOf[k] |-> "approved"]]
Staging == [fields : Mark, content : Content]
Account == [intent : Intent, fields : Mark, content : Content]

ASSUME RegistrarAssumption ==
  /\ Blob \in Seq(Kind)
  /\ OwnerOf \in [Intent -> Owner] /\ LookupOf \in [Intent -> Lookup]
  /\ ExpiryOf \in [Intent -> Nat] /\ TimeBound \in Nat
  /\ ChunksOf \in [Kind -> Nat \ {0}]
  /\ Before \subseteq 0..Capacity
  /\ None \notin Staging /\ None \notin Account /\ None \notin Intent /\ None \notin Lookup

(* Routes may have been appended before: a leaf of each is enough.         *)
RInit ==
  /\ now = 0
  /\ staging = [i \in Intent |-> None]
  /\ registry = [l \in Lookup |-> None]
  /\ recovery = [o \in Owner |-> None]
  /\ \E n \in Before :
       /\ appended = [m \in 1..n |-> None]
       /\ routes = Appended(appended)
       /\ sequence = n

-----------------------------------------------------------------------------
(* Staging.                                                                *)

Lapsed(i) == ExpiryOf[i] < now

Staged(i, fields) == staging[i] # None /\ staging[i].fields = fields
StageAllowed(i, fields) == ~Lapsed(i) /\ (staging[i] = None \/ Staged(i, fields))

(* A second stage of the same fields finds the first and leaves it.        *)
stage(i, fields) ==
  /\ StageAllowed(i, fields)
  /\ staging' = IF staging[i] # None THEN staging
                ELSE [staging EXCEPT ![i] =
                        [fields |-> fields, content |-> [k \in Kind |-> <<>>]]]
  /\ UNCHANGED <<now, registry, recovery, routes, sequence, appended>>

Written(i, k) == Len(staging[i].content[k])

(* A chunk already written may be sent again if it says the same.          *)
ChunkAllowed(i, k, offset, mark) ==
  /\ staging[i] # None /\ ~Lapsed(i)
  /\ offset < ChunksOf[k]
  /\ offset <= Written(i, k)
  /\ offset < Written(i, k) => staging[i].content[k][offset + 1] = mark

(* Slip: a chunk is written wherever it falls.                             *)
append_chunk_over(i, k, offset, mark) ==
  /\ staging[i] # None /\ ~Lapsed(i)
  /\ offset < ChunksOf[k]
  /\ offset <= Written(i, k)
  /\ staging' = [staging EXCEPT ![i].content[k] = Append(SubSeq(@, 1, offset), mark)]
  /\ UNCHANGED <<now, registry, recovery, routes, sequence, appended>>

append_chunk(i, k, offset, mark) ==
  /\ ChunkAllowed(i, k, offset, mark)
  /\ staging' = IF offset < Written(i, k) THEN staging
                ELSE [staging EXCEPT ![i].content[k] = Append(@, mark)]
  /\ UNCHANGED <<now, registry, recovery, routes, sequence, appended>>

close_expired(i) ==
  /\ staging[i] # None /\ Lapsed(i)
  /\ staging' = [staging EXCEPT ![i] = None]
  /\ UNCHANGED <<now, registry, recovery, routes, sequence, appended>>

-----------------------------------------------------------------------------
(* Creation, with the owner's signature in the same transaction.           *)

(* Slip: the blobs are not part of what is compared with the intent.       *)
CreateAllowedOfAny(i, fields, content) ==
  /\ ~Lapsed(i)
  /\ registry[LookupOf[i]] = None
  /\ fields = "approved"
  /\ recovery[OwnerOf[i]] = None
  /\ routes.leaf_count < Capacity

(* Slip: the owner may have a TIN already.                                 *)
CreateAllowedAnother(i, fields, content) ==
  /\ ~Lapsed(i)
  /\ registry[LookupOf[i]] = None
  /\ fields = "approved" /\ content = Approved
  /\ routes.leaf_count < Capacity

CreateAllowed(i, fields, content) ==
  /\ ~Lapsed(i)
  /\ registry[LookupOf[i]] = None
  /\ fields = "approved" /\ content = Approved
  /\ recovery[OwnerOf[i]] = None
  /\ routes.leaf_count < Capacity

apply(i, fields, content) ==
  /\ CreateAllowed(i, fields, content)
  /\ registry' = [registry EXCEPT ![LookupOf[i]] =
                    [intent |-> i, fields |-> fields, content |-> content]]
  /\ recovery' = [recovery EXCEPT ![OwnerOf[i]] = i]
  /\ routes' = append_route(routes, LookupOf[i])
  /\ appended' = Append(appended, LookupOf[i])
  /\ sequence' = sequence + 1
  /\ UNCHANGED now

CreateTinV1(i) == apply(i, "approved", Approved) /\ UNCHANGED staging

FinalizeAllowed(i) ==
  /\ staging[i] # None
  /\ \A k \in Kind : Written(i, k) = ChunksOf[k]
  /\ CreateAllowed(i, staging[i].fields, staging[i].content)

finalize(i) ==
  /\ FinalizeAllowed(i)
  /\ apply(i, staging[i].fields, staging[i].content)
  /\ staging' = [staging EXCEPT ![i] = None]

-----------------------------------------------------------------------------
Tick ==
  /\ now < TimeBound
  /\ now' = now + 1
  /\ UNCHANGED <<staging, registry, recovery, routes, sequence, appended>>

(* What any caller may have the program do.                                *)
RNext ==
  \/ Tick
  \/ \E i \in Intent :
       \/ close_expired(i) \/ finalize(i) \/ CreateTinV1(i)
       \/ \E fields \in Mark : stage(i, fields)
       \/ \E k \in Kind, mark \in Mark :
            \E offset \in 0..(ChunksOf[k] - 1) : append_chunk(i, k, offset, mark)

RSpec == RInit /\ [][RNext]_chain

-----------------------------------------------------------------------------
(* Properties.                                                             *)

RTypeOK ==
  /\ now \in Nat
  /\ staging \in [Intent -> Staging \cup {None}]
  /\ registry \in [Lookup -> Account \cup {None}]
  /\ recovery \in [Owner -> Intent \cup {None}]
  /\ sequence \in Nat
  /\ appended \in Seq(Lookup \cup {None})

(* However many callers staged, repeated, mixed or finalized: what is      *)
(* registered is what the owner of the registered lookup commitment        *)
(* signed, blob for blob.                                                  *)
OwnerApproved ==
  \A l \in Lookup : registry[l] # None =>
    /\ LookupOf[registry[l].intent] = l
    /\ registry[l].fields = "approved" /\ registry[l].content = Approved

(* The accounts of a creation are made together: each TIN has its owner's  *)
(* only recovery account and the reverse, one leaf of the route tree and   *)
(* one number of the global sequence.                                      *)
CreatedTogether ==
  /\ \A l \in Lookup : registry[l] # None => recovery[OwnerOf[registry[l].intent]] = registry[l].intent
  /\ \A o \in Owner : recovery[o] # None =>
       OwnerOf[recovery[o]] = o /\ registry[LookupOf[recovery[o]]] # None
                               /\ registry[LookupOf[recovery[o]]].intent = recovery[o]
  /\ \A l \in Lookup : (registry[l] # None) <=> \E n \in DOMAIN appended : appended[n] = l
  /\ \A m, n \in DOMAIN appended : appended[m] = appended[n] /\ appended[m] # None => m = n
  /\ sequence = Len(appended)

(* The root that settlements prove against, computed one leaf at a time    *)
(* from the frontier, is the root of the tree over all routes appended.    *)
RootCommitsRoutes ==
  routes.root = MerkleRoot(appended) /\ routes.leaf_count = Len(appended)

(* A staging account only grows: chunks sent again, late or by another     *)
(* Cranker never undo what was written, and the account goes only when its *)
(* intent was created or lapsed.                                           *)
StagingGrows ==
  [][\A i \in Intent : staging[i] # None =>
       \/ staging'[i] = None /\ (Lapsed(i) \/ recovery'[OwnerOf[i]] = i)
       \/ /\ staging'[i] # None /\ staging'[i].fields = staging[i].fields
          /\ \A k \in Kind : IsPrefix(staging[i].content[k], staging'[i].content[k])]_chain
=============================================================================
