----------------------------- MODULE LockProofs -----------------------------
(* Two reasons why the writes of the local store are serialized.  Processes  *)
(* that share the file are kept apart by the lock, as long as no lock file   *)
(* is removed from under its holder; a process alone is kept in order by its *)
(* queue, whatever becomes of the lock.                                      *)
EXTENDS LocalLock, TLAPS

USE LockAssumption

Active == Waiting \cup Holding
Writer == Write \cup Process

(* What a mutation has answered, or not yet, agrees with the file.           *)
Recorded ==
  \A w \in Write :
    /\ pc[w] \in {"releasing", "done"} => w \in file
    /\ pc[w] \notin {"releasing", "done", "lost"} => w \notin file

(* What a writer is about to write again is what the file holds.             *)
Current == \A r \in Writer : pc[r] = "writing" => seen[r] = file

OneWriting ==
  \A r, s \in Writer : pc[r] = "writing" /\ pc[s] = "writing" => r = s

FileInv == LockTypeOK /\ Recorded /\ Current

(* Whoever is at work created the lock file that is there.                   *)
LockInv == \A r \in Request : pc[r] \in Holding => lock # None /\ lock.owner = r

(* A process works on one mutation at a time, and on none until it is ready. *)
QueueInv ==
  /\ \A v, w \in Write :
       Home(v) = Home(w) /\ pc[v] \in Active /\ pc[w] \in Active => v = w
  /\ \A w \in Write : pc[w] \in Active => Ready(Home(w))

-----------------------------------------------------------------------------
LEMMA HomeType == \A r \in Request : Home(r) \in Process
  BY DEF Home, Request

LEMMA InitTypes == Init => LockTypeOK
<1> SUFFICES ASSUME Init PROVE LockTypeOK
  OBVIOUS
<1>1. /\ file = {} /\ lock = None /\ tired = {} /\ crashes = 0 /\ robbed = FALSE
      /\ seen = [r \in Request |-> {}]
      /\ pc = [r \in Request |-> IF r \in Process THEN "queued" ELSE "idle"]
  BY DEF Init
<1>2. crashes \in Nat /\ robbed \in BOOLEAN
  BY <1>1
<1>3. pc \in [Request -> Idle \cup Waiting \cup Holding \cup Answered]
  BY <1>1 DEF Idle
<1>4. \A r \in Read : pc[r] # "writing"
  BY <1>1 DEF Request
<1> QED
  BY <1>1, <1>2, <1>3, <1>4 DEF LockTypeOK

(* Every step keeps the types.                                               *)
LEMMA TypesKept == LockTypeOK /\ [Next]_vars => LockTypeOK'
<1> SUFFICES ASSUME LockTypeOK, [Next]_vars PROVE LockTypeOK'
  OBVIOUS
<1> USE DEF LockTypeOK, Idle, Waiting, Holding, Answered
<1>1. ASSUME NEW r \in Request, Arrive(r) PROVE LockTypeOK'
  BY <1>1 DEF Arrive, At
<1>2. ASSUME NEW r \in Request, Start(r) PROVE LockTypeOK'
  BY <1>2 DEF Start, At
<1>3. ASSUME NEW r \in Request, Acquire(r) PROVE LockTypeOK'
  BY <1>3 DEF Acquire, At, Fresh
<1>4. ASSUME NEW r \in Request, FindStale(r) PROVE LockTypeOK'
  BY <1>4 DEF FindStale, At
<1>5. ASSUME NEW r \in Request, ClearStale(r) PROVE LockTypeOK'
  BY <1>5 DEF ClearStale, At, RemoveLock
<1>6. ASSUME NEW r \in Request, Busy(r) PROVE LockTypeOK'
  BY <1>6 DEF Busy, At
<1>7. ASSUME NEW r \in Request, ReadFile(r) PROVE LockTypeOK'
  BY <1>7 DEF ReadFile, At
<1>8. ASSUME NEW r \in Request, WriteFile(r) PROVE LockTypeOK'
  <2>1. pc[r] = "writing" /\ pc' = [pc EXCEPT ![r] = "releasing"] /\ file' = seen[r] \cup {r}
    BY <1>8 DEF WriteFile, At
  <2>2. r \in Writer
    BY <2>1, <1>8 DEF Writer, WriteFile, Request
  <2> QED
    BY <1>8, <2>1, <2>2 DEF WriteFile, Writer
<1>9. ASSUME NEW r \in Request, NothingToCompact(r) PROVE LockTypeOK'
  BY <1>9 DEF NothingToCompact, At
<1>10. ASSUME NEW r \in Request, Abandon(r) PROVE LockTypeOK'
  BY <1>10 DEF Abandon, At
<1>11. ASSUME NEW r \in Request, Release(r) PROVE LockTypeOK'
  <2>1. PICK end \in {"done", "failed"} : pc' = [pc EXCEPT ![r] = end]
    BY <1>11 DEF Release, At
  <2>2. /\ lock' = None /\ robbed' \in BOOLEAN /\ UNCHANGED <<file, tired, crashes>>
        /\ seen' = [seen EXCEPT ![r] = {}]
        /\ pc[r] \in Holding
    BY <1>11 DEF Release, At, RemoveLock
  <2> QED
    BY <2>1, <2>2
<1>12. ASSUME NEW r \in Request, Tire(r) PROVE LockTypeOK'
  BY <1>12 DEF Tire
<1>13. CASE Age
  BY <1>13 DEF Age
<1>14. ASSUME NEW p \in Process, Crash(p) PROVE LockTypeOK'
  <2> DEFINE broken == {r \in Request : Home(r) = p /\ pc[r] \notin Answered \cup {"idle"}}
  <2>1. /\ pc' = [r \in Request |->
                    IF r = p THEN "queued" ELSE IF r \in broken THEN "lost" ELSE pc[r]]
        /\ seen' = [r \in Request |-> IF r \in broken THEN {} ELSE seen[r]]
        /\ tired' = tired \ broken
        /\ crashes' = crashes + 1
        /\ UNCHANGED <<file, lock, robbed>>
    BY <1>14 DEF Crash
  <2>2. \A r \in Request : r = p /\ r \notin broken => pc[r] \in Answered \cup {"idle"}
    BY DEF Home
  <2>3. broken \subseteq Request /\ p \notin Read
    OBVIOUS
  <2> HIDE DEF broken
  <2>4. pc' \in [Request -> Idle \cup Waiting \cup Holding \cup Answered]
    BY <2>1
  <2>5. seen' \in [Request -> SUBSET (Write \cup Process)]
    BY <2>1
  <2>6. \A r \in Request : seen'[r] # {} => pc'[r] \in Holding
    BY <2>1, <2>2
  <2>7. \A r \in tired' : pc'[r] \in Waiting
    BY <2>1, <2>2
  <2>8. \A r \in Read : pc'[r] # "writing"
    BY <2>1, <2>3 DEF Request
  <2> QED
    BY <2>1, <2>3, <2>4, <2>5, <2>6, <2>7, <2>8
<1>15. CASE UNCHANGED vars
  BY <1>15 DEF vars
<1> QED
  BY <1>1, <1>2, <1>3, <1>4, <1>5, <1>6, <1>7, <1>8, <1>9, <1>10, <1>11, <1>12, <1>13, <1>14, <1>15
  DEF Next, Step

-----------------------------------------------------------------------------
(* While no two writers are between reading and writing, the file and the    *)
(* answers agree.                                                            *)
LEMMA InitFile == Init => FileInv
  BY InitTypes DEF Init, FileInv, Recorded, Current, Request, Writer

LEMMA FileKept == FileInv /\ OneWriting /\ [Next]_vars => FileInv'
<1> SUFFICES ASSUME FileInv, OneWriting, [Next]_vars PROVE Recorded' /\ Current'
  BY TypesKept DEF FileInv
<1> USE DEF FileInv, Recorded, Current
<1>0. Write \subseteq Request /\ Writer \subseteq Request /\ LockTypeOK
  BY DEF Request, Writer
<1>t. pc \in [Request -> Idle \cup Waiting \cup Holding \cup Answered] /\ DOMAIN seen = Request
  BY <1>0 DEF LockTypeOK
(* A step that leaves the file alone and does not move a request into or out  *)
(* of its answer.                                                            *)
<1>q. ASSUME NEW r \in Request, NEW here, NEW there, UNCHANGED file, At(r, here, there),
             here \notin {"releasing", "done", "lost"},
             there \notin {"releasing", "done", "lost", "writing"},
             UNCHANGED seen
      PROVE  Recorded' /\ Current'
  BY <1>q, <1>0, <1>t DEF At
<1>1. ASSUME NEW r \in Request, Arrive(r) PROVE Recorded' /\ Current'
  BY <1>1, <1>q DEF Arrive
<1>2. ASSUME NEW r \in Request, Start(r) PROVE Recorded' /\ Current'
  BY <1>2, <1>q DEF Start
<1>3. ASSUME NEW r \in Request, Acquire(r) PROVE Recorded' /\ Current'
  BY <1>3, <1>q DEF Acquire
<1>4. ASSUME NEW r \in Request, FindStale(r) PROVE Recorded' /\ Current'
  BY <1>4, <1>q DEF FindStale
<1>5. ASSUME NEW r \in Request, ClearStale(r) PROVE Recorded' /\ Current'
  BY <1>5, <1>q DEF ClearStale
<1>6. ASSUME NEW r \in Request, Busy(r) PROVE Recorded' /\ Current'
  BY <1>6, <1>q DEF Busy
<1>7. ASSUME NEW r \in Request, ReadFile(r) PROVE Recorded' /\ Current'
  <2>1. /\ pc[r] = "reading" /\ UNCHANGED file
        /\ pc' = [pc EXCEPT ![r] = IF r \in Read THEN "releasing" ELSE "writing"]
        /\ seen' = [seen EXCEPT ![r] = file]
    BY <1>7 DEF ReadFile, At
  <2>2. r \in Write => r \notin Read
    OBVIOUS
  <2> QED
    BY <2>1, <2>2, <1>0, <1>t
<1>8. ASSUME NEW r \in Request, WriteFile(r) PROVE Recorded' /\ Current'
  <2>1. /\ pc[r] = "writing" /\ pc' = [pc EXCEPT ![r] = "releasing"]
        /\ file' = seen[r] \cup {r} /\ UNCHANGED seen
    BY <1>8 DEF WriteFile, At
  <2>2. r \in Writer
    BY <2>1 DEF LockTypeOK, Request, Writer
  <2>3. seen[r] = file
    BY <2>1, <2>2
  <2>4. \A s \in Writer : pc[s] = "writing" => s = r
    BY <2>1, <2>2 DEF OneWriting
  <2> QED
    BY <2>1, <2>2, <2>3, <2>4, <1>0, <1>t
<1>9. ASSUME NEW r \in Request, NothingToCompact(r) PROVE Recorded' /\ Current'
  <2>1. r \notin Write
    BY <1>9 DEF NothingToCompact
  <2> QED
    BY <1>9, <2>1, <1>0, <1>t DEF NothingToCompact, At
<1>10. ASSUME NEW r \in Request, Abandon(r) PROVE Recorded' /\ Current'
  BY <1>10, <1>q DEF Abandon
<1>11. ASSUME NEW r \in Request, Release(r) PROVE Recorded' /\ Current'
  <2>1. \/ pc[r] = "releasing" /\ pc' = [pc EXCEPT ![r] = "done"]
        \/ pc[r] = "abandoning" /\ pc' = [pc EXCEPT ![r] = "failed"]
    BY <1>11 DEF Release, At
  <2>2. UNCHANGED file /\ seen' = [seen EXCEPT ![r] = {}]
    BY <1>11 DEF Release
  <2> QED
    BY <2>1, <2>2, <1>0, <1>t
<1>12. ASSUME NEW r \in Request, Tire(r) PROVE Recorded' /\ Current'
  BY <1>12 DEF Tire
<1>13. CASE Age
  BY <1>13 DEF Age
<1>14. ASSUME NEW p \in Process, Crash(p) PROVE Recorded' /\ Current'
  <2> DEFINE broken == {r \in Request : Home(r) = p /\ pc[r] \notin Answered \cup {"idle"}}
  <2>1. /\ pc' = [r \in Request |->
                    IF r = p THEN "queued" ELSE IF r \in broken THEN "lost" ELSE pc[r]]
        /\ seen' = [r \in Request |-> IF r \in broken THEN {} ELSE seen[r]]
        /\ UNCHANGED file
    BY <1>14 DEF Crash
  <2>2. p \notin Write
    OBVIOUS
  <2>3. \A r \in broken : pc[r] # "done"
    BY DEF Answered
  <2> HIDE DEF broken
  <2>4. Recorded'
    BY <2>1, <2>2, <2>3, <1>0
  <2>5. Current'
    BY <2>1, <1>0
  <2> QED
    BY <2>4, <2>5
<1>15. CASE UNCHANGED vars
  BY <1>15 DEF vars
<1> QED
  BY <1>1, <1>2, <1>3, <1>4, <1>5, <1>6, <1>7, <1>8, <1>9, <1>10, <1>11, <1>12, <1>13, <1>14, <1>15
  DEF Next, Step

LEMMA SerializedFile == FileInv => WritesSerialized
  BY DEF FileInv, Recorded, WritesSerialized

-----------------------------------------------------------------------------
(* The lock keeps writers apart while nobody is robbed of it.                *)
LEMMA InitLock == Init => LockInv
  BY DEF Init, LockInv, Holding

LEMMA OneHolder == LockInv => OneWriting
  BY DEF LockInv, OneWriting, Holding, Writer, Request

(* Once robbed, always robbed.                                               *)
LEMMA RobberyStands == LockTypeOK /\ robbed /\ [Next]_vars => robbed'
<1> SUFFICES ASSUME LockTypeOK, robbed, [Next]_vars PROVE robbed'
  OBVIOUS
<1>1. ASSUME NEW r \in Request, Step(r) PROVE robbed'
  BY <1>1 DEF Step, Start, Acquire, FindStale, ClearStale, Busy, ReadFile, WriteFile,
              NothingToCompact, Abandon, Release, RemoveLock
<1> QED
  BY <1>1 DEF Next, Arrive, Tire, Age, Crash, vars

LEMMA LockKept ==
  ASSUME LockTypeOK, LockInv, [Next]_vars, ~robbed'
  PROVE  LockInv'
<1> USE DEF Holding, LockInv
<1>t. pc \in [Request -> Idle \cup Waiting \cup Holding \cup Answered]
  BY DEF LockTypeOK
<1>f. \A r \in Request : Fresh(r) # None /\ Fresh(r).owner = r
  <2>1. ASSUME NEW r \in Request PROVE Fresh(r) \in [owner : Request, stale : BOOLEAN]
    BY DEF Fresh
  <2>2. None \notin [owner : Request, stale : BOOLEAN]
    BY LockAssumption
  <2> QED
    BY <2>1, <2>2 DEF Fresh
(* Steps that do not touch the lock, and bring nobody to work.               *)
<1>q. ASSUME NEW r \in Request, NEW here, NEW there, At(r, here, there), UNCHANGED lock,
             there \in Holding => here \in Holding
      PROVE  LockInv'
  <2>1. \A s \in Request : pc'[s] \in Holding => pc[s] \in Holding
    BY <1>q, <1>t DEF At
  <2> QED
    BY <2>1, <1>q
(* Removing the lock file is harmless where no other request is at work.     *)
<1>r. ASSUME NEW r \in Request, RemoveLock(r) PROVE \A s \in Request \ {r} : pc[s] \notin Holding
  BY <1>r DEF RemoveLock
<1>1. ASSUME NEW r \in Request, Arrive(r) PROVE LockInv'
  BY <1>1, <1>q DEF Arrive
<1>2. ASSUME NEW r \in Request, Start(r) PROVE LockInv'
  BY <1>2, <1>q DEF Start
<1>3. ASSUME NEW r \in Request, Acquire(r) PROVE LockInv'
  <2>1. /\ lock = None /\ lock' = Fresh(r)
        /\ pc' = [pc EXCEPT ![r] = "reading"]
    BY <1>3 DEF Acquire, At
  <2>2. \A s \in Request : pc'[s] \in Holding => s = r
    BY <2>1, <1>t
  <2> QED
    BY <2>1, <2>2, <1>f
<1>4. ASSUME NEW r \in Request, FindStale(r) PROVE LockInv'
  BY <1>4, <1>q DEF FindStale
<1>5. ASSUME NEW r \in Request, ClearStale(r) PROVE LockInv'
  <2>1. pc' = [pc EXCEPT ![r] = "opening"]
    BY <1>5 DEF ClearStale, At
  <2>2. \A s \in Request : pc'[s] \notin Holding
    BY <1>5, <1>r, <2>1, <1>t DEF ClearStale
  <2> QED
    BY <2>2
<1>6. ASSUME NEW r \in Request, Busy(r) PROVE LockInv'
  BY <1>6, <1>q DEF Busy
<1>7. ASSUME NEW r \in Request, ReadFile(r) PROVE LockInv'
  BY <1>7, <1>q DEF ReadFile
<1>8. ASSUME NEW r \in Request, WriteFile(r) PROVE LockInv'
  BY <1>8, <1>q DEF WriteFile
<1>9. ASSUME NEW r \in Request, NothingToCompact(r) PROVE LockInv'
  BY <1>9, <1>q DEF NothingToCompact
<1>10. ASSUME NEW r \in Request, Abandon(r) PROVE LockInv'
  BY <1>10, <1>q DEF Abandon
<1>11. ASSUME NEW r \in Request, Release(r) PROVE LockInv'
  <2>1. PICK end \in {"done", "failed"} : pc' = [pc EXCEPT ![r] = end]
    BY <1>11 DEF Release, At
  <2>2. \A s \in Request : pc'[s] \notin Holding
    BY <1>11, <1>r, <2>1, <1>t DEF Release
  <2> QED
    BY <2>2
<1>12. ASSUME NEW r \in Request, Tire(r) PROVE LockInv'
  BY <1>12 DEF Tire
<1>13. CASE Age
  <2>1. lock # None /\ lock \in [owner : Request, stale : BOOLEAN]
    BY <1>13 DEF Age, LockTypeOK
  <2>2. lock' = [lock EXCEPT !.stale = TRUE] /\ UNCHANGED pc
    BY <1>13 DEF Age
  <2>3. lock' \in [owner : Request, stale : BOOLEAN] /\ lock'.owner = lock.owner
    BY <2>1, <2>2
  <2>4. lock' # None
    BY <2>3, LockAssumption
  <2> QED
    BY <2>2, <2>3, <2>4
<1>14. ASSUME NEW p \in Process, Crash(p) PROVE LockInv'
  <2>1. UNCHANGED lock /\ \A s \in Request : pc'[s] \in {"queued", "lost", pc[s]}
    BY <1>14 DEF Crash
  <2> QED
    BY <2>1
<1>15. CASE UNCHANGED vars
  BY <1>15 DEF vars
<1> QED
  BY <1>1, <1>2, <1>3, <1>4, <1>5, <1>6, <1>7, <1>8, <1>9, <1>10, <1>11, <1>12, <1>13, <1>14, <1>15
  DEF Next, Step

(* Any number of processes may share the file, crash, stall and take over    *)
(* each other's lock files: as long as none is robbed of its lock at work,   *)
(* what is acknowledged stays and what is refused leaves nothing.            *)
THEOREM SharedIsSerialized == Spec => []LockSerializes
<1> DEFINE Inv == LockTypeOK /\ (~robbed => FileInv /\ LockInv)
<1>1. Init => Inv
  BY InitFile, InitLock DEF FileInv
<1>2. Inv /\ [Next]_vars => Inv'
  <2> SUFFICES ASSUME Inv, [Next]_vars PROVE Inv'
    OBVIOUS
  <2>1. LockTypeOK'
    BY TypesKept
  <2>2. ASSUME ~robbed' PROVE FileInv' /\ LockInv'
    <3>1. ~robbed
      BY <2>2, RobberyStands
    <3>2. FileInv /\ LockInv /\ OneWriting
      BY <3>1, OneHolder
    <3> QED
      BY <2>2, <3>2, FileKept, LockKept
  <2> QED
    BY <2>1, <2>2
<1>3. Inv => LockSerializes
  BY SerializedFile DEF LockSerializes
<1> QED
  BY <1>1, <1>2, <1>3, PTL DEF Spec

-----------------------------------------------------------------------------
(* The queue of a process keeps its writers apart, whatever the lock does.   *)
LEMMA InitQueue == Init => QueueInv
<1> SUFFICES ASSUME Init PROVE QueueInv
  OBVIOUS
<1>1. \A w \in Write : pc[w] = "idle"
  BY DEF Init, Request
<1>2. "idle" \notin Active
  BY DEF Active, Waiting, Holding
<1> QED
  BY <1>1, <1>2 DEF QueueInv

LEMMA OneAtATime ==
  ASSUME NEW q, Process = {q}, LockTypeOK, QueueInv
  PROVE  OneWriting
<1> SUFFICES ASSUME NEW r \in Writer, NEW s \in Writer,
                    pc[r] = "writing", pc[s] = "writing"
             PROVE  r = s
  BY DEF OneWriting
<1>1. \A w \in Write : Home(w) = q
  BY HomeType DEF Request
<1>2. pc[r] \in Active /\ pc[s] \in Active
  BY DEF Active, Holding
<1>3. CASE r \in Write /\ s \in Write
  BY <1>1, <1>2, <1>3 DEF QueueInv
<1>4. \A w \in Write : pc[w] \in Active => pc[q] # "writing"
  BY <1>1 DEF QueueInv, Ready
<1>5. r \in Write \cup {q} /\ s \in Write \cup {q}
  BY DEF Writer
<1> QED
  BY <1>2, <1>3, <1>4, <1>5

LEMMA QueueKept == LockTypeOK /\ QueueInv /\ [Next]_vars => QueueInv'
<1> SUFFICES ASSUME LockTypeOK, QueueInv, [Next]_vars PROVE QueueInv'
  OBVIOUS
<1> USE DEF QueueInv, Ready
<1>0. Write \subseteq Request /\ Process \subseteq Request
  BY DEF Request
<1>t. pc \in [Request -> Idle \cup Waiting \cup Holding \cup Answered]
  BY DEF LockTypeOK
<1>h. \A w \in Write : Home(w) \in Process
  BY HomeType, <1>0
(* Steps that start nothing, and end no start-up.                            *)
<1>q. ASSUME NEW r \in Request, NEW here, NEW there, At(r, here, there),
             there \in Active => here \in Active, here \notin {"done", "failed"}
      PROVE  QueueInv'
  <2>1. pc' = [pc EXCEPT ![r] = there] /\ pc[r] = here
    BY <1>q DEF At
  <2>2. \A w \in Write : pc'[w] \in Active => pc[w] \in Active
    BY <2>1, <1>q, <1>t, <1>0
  <2>3. \A p \in Process : pc[p] \in {"done", "failed"} => pc'[p] = pc[p]
    BY <2>1, <1>q, <1>t, <1>0
  <2>4. \A w \in Write : Home(w)' = Home(w)
    BY DEF Home
  <2> QED
    BY <2>2, <2>3, <2>4, <1>h
<1>a. /\ \A x \in {"opening", "clearing", "reading", "writing", "releasing", "abandoning"} :
           x \in Active /\ x \notin {"done", "failed"}
      /\ \A x \in {"idle", "queued", "done", "failed", "lost"} : x \notin Active
  BY DEF Active, Waiting, Holding
<1>1. ASSUME NEW r \in Request, Arrive(r) PROVE QueueInv'
  BY <1>1, <1>q, <1>a DEF Arrive
<1>2. ASSUME NEW r \in Request, Start(r) PROVE QueueInv'
  <2>1. pc[r] = "queued" /\ pc' = [pc EXCEPT ![r] = "opening"]
    BY <1>2 DEF Start, At
  <2>2. r \in Process \/ pc[Home(r)] \in {"done", "failed"}
    BY <1>2 DEF Start
  <2>3. r \in Write => \A v \in Write \ {r} : Home(v) = Home(r) => pc[v] \notin Active
    BY <1>2 DEF Start, QueueFree, Active
  <2>4. \A w \in Write \ {r} : pc'[w] = pc[w]
    BY <2>1, <1>t, <1>0
  <2>5. \A p \in Process : pc[p] \in {"done", "failed"} => pc'[p] = pc[p]
    BY <2>1, <1>t, <1>0
  <2>6. \A w \in Write : Home(w)' = Home(w)
    BY DEF Home
  <2>7. r \in Write => r \notin Process
    OBVIOUS
  <2> QED
    BY <2>2, <2>3, <2>4, <2>5, <2>6, <2>7, <1>h
<1>3. ASSUME NEW r \in Request, Acquire(r) PROVE QueueInv'
  BY <1>3, <1>q, <1>a DEF Acquire
<1>4. ASSUME NEW r \in Request, FindStale(r) PROVE QueueInv'
  BY <1>4, <1>q, <1>a DEF FindStale
<1>5. ASSUME NEW r \in Request, ClearStale(r) PROVE QueueInv'
  BY <1>5, <1>q, <1>a DEF ClearStale
<1>6. ASSUME NEW r \in Request, Busy(r) PROVE QueueInv'
  BY <1>6, <1>q, <1>a DEF Busy
<1>7. ASSUME NEW r \in Request, ReadFile(r) PROVE QueueInv'
  BY <1>7, <1>q, <1>a DEF ReadFile
<1>8. ASSUME NEW r \in Request, WriteFile(r) PROVE QueueInv'
  BY <1>8, <1>q, <1>a DEF WriteFile
<1>9. ASSUME NEW r \in Request, NothingToCompact(r) PROVE QueueInv'
  BY <1>9, <1>q, <1>a DEF NothingToCompact
<1>10. ASSUME NEW r \in Request, Abandon(r) PROVE QueueInv'
  BY <1>10, <1>q, <1>a DEF Abandon
<1>11. ASSUME NEW r \in Request, Release(r) PROVE QueueInv'
  BY <1>11, <1>q, <1>a DEF Release
<1>12. ASSUME NEW r \in Request, Tire(r) PROVE QueueInv'
  BY <1>12 DEF Tire, Home
<1>13. CASE Age
  BY <1>13 DEF Age, Home
<1>14. ASSUME NEW p \in Process, Crash(p) PROVE QueueInv'
  <2> DEFINE broken == {r \in Request : Home(r) = p /\ pc[r] \notin Answered \cup {"idle"}}
  <2>1. pc' = [r \in Request |->
                    IF r = p THEN "queued" ELSE IF r \in broken THEN "lost" ELSE pc[r]]
    BY <1>14 DEF Crash
  <2>2. \A w \in Write : Home(w) = p /\ pc[w] \in Active => w \in broken
    BY <1>0 DEF Active, Waiting, Holding, Answered
  <2>3. \A r \in broken : Home(r) = p
    OBVIOUS
  <2>4. \A r \in Process : Home(r) = r
    BY DEF Home
  <2> HIDE DEF broken
  <2>5. \A w \in Write : pc'[w] \in Active => pc[w] \in Active /\ Home(w) # p /\ pc'[w] = pc[w]
    BY <2>1, <2>2, <1>0, <1>a
  <2>6. \A s \in Process \ {p} : pc'[s] = pc[s]
    BY <2>1, <2>3, <2>4, <1>0
  <2>7. \A w \in Write : Home(w)' = Home(w)
    BY DEF Home
  <2> QED
    BY <2>5, <2>6, <2>7, <1>h
<1>15. CASE UNCHANGED vars
  BY <1>15 DEF vars, Home
<1> QED
  BY <1>1, <1>2, <1>3, <1>4, <1>5, <1>6, <1>7, <1>8, <1>9, <1>10, <1>11, <1>12, <1>13, <1>14, <1>15
  DEF Next, Step

(* One process may crash, start again, stall, and take over lock files, its  *)
(* own reads' among them, as often as it will: what it acknowledged stays.   *)
THEOREM AloneIsSerialized ==
  ASSUME NEW q, Process = {q}
  PROVE  Spec => []WritesSerialized
<1>1. Init => FileInv /\ QueueInv
  BY InitFile, InitQueue
<1>2. FileInv /\ QueueInv /\ [Next]_vars => FileInv' /\ QueueInv'
  BY FileKept, QueueKept, OneAtATime DEF FileInv
<1>3. FileInv => WritesSerialized
  BY SerializedFile
<1> QED
  BY <1>1, <1>2, <1>3, PTL DEF Spec

-----------------------------------------------------------------------------
(* Requests, locks and files keep their types, whatever the processes do.    *)
THEOREM LockTypeCorrect == Spec => []LockTypeOK
<1> QED
  BY InitTypes, TypesKept, PTL DEF Spec
=============================================================================
