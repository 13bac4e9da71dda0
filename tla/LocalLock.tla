------------------------------ MODULE LocalLock ------------------------------
(* The file store of a local Receiver (tsn-receiver/lib/local-firestore.ts): *)
(* one JSON file, rewritten as a whole by every mutation, and a lock file    *)
(* next to it that keeps the processes that share the store apart.  The lock *)
(* is created exclusively, removed by path, and taken over by path when it   *)
(* is thirty seconds old.  A process also queues its own mutations; its reads *)
(* only take the lock.  When a process starts it compacts old records, and   *)
(* everything else it does waits for that.                                   *)
(*                                                                           *)
(* The file is the set of mutations whose effect it holds; a compaction is   *)
(* one of them, and finds nothing left to do when another was written.       *)
EXTENDS Naturals

CONSTANTS
  Process,    \* operating system processes, each standing for its compaction
  Write,      \* mutations: set, create, delete, transactions and batches
  Read,       \* reads and queries
  HomeOf,     \* the process that serves a mutation or a read
  CrashBound, \* bound: how often a process stops and starts again
  MayStall,   \* whether a holder may keep the lock for thirty seconds
  None

Request == Process \cup Write \cup Read

ASSUME LockAssumption ==
  /\ Process \cap Write = {} /\ Process \cap Read = {} /\ Write \cap Read = {}
  /\ HomeOf \in [Write \cup Read -> Process]
  /\ CrashBound \in Nat /\ MayStall \in BOOLEAN
  /\ None \notin [owner : Request, stale : BOOLEAN]

Home(r) == IF r \in Process THEN r ELSE HomeOf[r]

VARIABLES
  file,    \* the mutations the file holds
  lock,    \* the lock file: who created it (history), and whether it is old
  pc,      \* where each request is
  seen,    \* the contents a request read
  tired,   \* the requests that have tried for ten seconds
  crashes, \* how often a process has stopped so far
  robbed   \* history: whether a lock file was removed from under its holder

vars == <<file, lock, pc, seen, tired, crashes, robbed>>

Idle == {"idle", "queued"}
Holding == {"reading", "writing", "releasing", "abandoning"}
Waiting == {"opening", "clearing"}
Answered == {"done", "failed", "lost"}

Init ==
  /\ file = {}
  /\ lock = None
  /\ pc = [r \in Request |-> IF r \in Process THEN "queued" ELSE "idle"]
  /\ seen = [r \in Request |-> {}]
  /\ tired = {}
  /\ crashes = 0
  /\ robbed = FALSE

At(r, here, there) == pc[r] = here /\ pc' = [pc EXCEPT ![r] = there]

-----------------------------------------------------------------------------
(* Arrival, and the promise chain of the process: `ready` first, then one    *)
(* mutation at a time, whether the one before succeeded or not.              *)

Arrive(r) ==
  /\ r \in Write \cup Read
  /\ At(r, "idle", "queued")
  /\ UNCHANGED <<file, lock, seen, tired, crashes, robbed>>

Ready(p) == pc[p] \in {"done", "failed"}

(* Slip: a mutation that threw breaks the promise chain.                   *)
QueueStuck(w) ==
  \A v \in Write \ {w} : Home(v) = Home(w) => pc[v] \notin Waiting \cup Holding \cup {"failed"}

QueueFree(w) ==
  \A v \in Write \ {w} : Home(v) = Home(w) => pc[v] \notin Waiting \cup Holding

Start(r) ==
  /\ r \in Process \/ Ready(Home(r))
  /\ r \in Write => QueueFree(r)
  /\ At(r, "queued", "opening")
  /\ UNCHANGED <<file, lock, seen, tired, crashes, robbed>>

-----------------------------------------------------------------------------
(* The lock file.                                                            *)

Fresh(r) == [owner |-> r, stale |-> FALSE]

(* Slip: the lock file is opened for writing, not created exclusively.     *)
AcquireShared(r) ==
  /\ At(r, "opening", "reading")
  /\ lock' = Fresh(r)
  /\ tired' = tired \ {r}
  /\ UNCHANGED <<file, seen, crashes, robbed>>

Acquire(r) ==
  /\ lock = None
  /\ At(r, "opening", "reading")
  /\ lock' = Fresh(r)
  /\ tired' = tired \ {r}
  /\ UNCHANGED <<file, seen, crashes, robbed>>

(* The file at the lock's path is removed, whoever created it.               *)
RemoveLock(r) ==
  /\ lock' = None
  /\ robbed' = (robbed \/ (lock # None /\ lock.owner # r /\ pc[lock.owner] \in Holding))

(* What stat said is acted upon by a later unlink of the same path.          *)
FindStale(r) ==
  /\ lock # None
  /\ lock.stale
  /\ At(r, "opening", "clearing")
  /\ UNCHANGED <<file, lock, seen, tired, crashes, robbed>>

ClearStale(r) ==
  /\ At(r, "clearing", "opening")
  /\ RemoveLock(r)
  /\ UNCHANGED <<file, seen, tired, crashes>>

(* The lock file may be gone again by the time its age is asked for.         *)
Busy(r) ==
  /\ lock # None
  /\ r \in tired
  /\ At(r, "opening", "failed")
  /\ tired' = tired \ {r}
  /\ UNCHANGED <<file, lock, seen, crashes, robbed>>

(* Whoever leaves removes the lock file that is there, its own or not.       *)
Release(r) ==
  /\ At(r, "releasing", "done") \/ At(r, "abandoning", "failed")
  /\ RemoveLock(r)
  /\ seen' = [seen EXCEPT ![r] = {}]
  /\ UNCHANGED <<file, tired, crashes>>

-----------------------------------------------------------------------------
(* Under the lock: read the file, and for a mutation write all of it again.  *)

ReadFile(r) ==
  /\ At(r, "reading", IF r \in Read THEN "releasing" ELSE "writing")
  /\ seen' = [seen EXCEPT ![r] = file]
  /\ UNCHANGED <<file, lock, tired, crashes, robbed>>

(* The new contents replace the file in one rename.                          *)
WriteFile(r) ==
  /\ r \in Process => seen[r] \cap Process = {}
  /\ At(r, "writing", "releasing")
  /\ file' = seen[r] \cup {r}
  /\ UNCHANGED <<lock, seen, tired, crashes, robbed>>

(* A compaction writes only if it finds old records.                         *)
NothingToCompact(r) ==
  /\ r \in Process
  /\ At(r, "writing", "releasing")
  /\ UNCHANGED <<file, lock, seen, tired, crashes, robbed>>

(* The operation throws, or the rename fails eight times.                    *)
Abandon(r) ==
  /\ At(r, "writing", "abandoning")
  /\ UNCHANGED <<file, lock, seen, tired, crashes, robbed>>

-----------------------------------------------------------------------------
(* Time and crashes.                                                         *)

Tire(r) ==
  /\ pc[r] = "opening"
  /\ r \notin tired
  /\ tired' = tired \cup {r}
  /\ UNCHANGED <<file, lock, pc, seen, crashes, robbed>>

Age ==
  /\ lock # None
  /\ ~lock.stale
  /\ MayStall \/ pc[lock.owner] \notin Holding
  /\ lock' = [lock EXCEPT !.stale = TRUE]
  /\ UNCHANGED <<file, pc, seen, tired, crashes, robbed>>

(* What the process was doing is gone, its lock file is not.                 *)
Crash(p) ==
  /\ crashes < CrashBound
  /\ crashes' = crashes + 1
  /\ \E r \in Request : Home(r) = p /\ pc[r] \in Waiting \cup Holding
  /\ LET broken == {r \in Request : Home(r) = p /\ pc[r] \notin Answered \cup {"idle"}}
     IN  /\ pc' = [r \in Request |->
                     IF r = p THEN "queued" ELSE IF r \in broken THEN "lost" ELSE pc[r]]
         /\ seen' = [r \in Request |-> IF r \in broken THEN {} ELSE seen[r]]
         /\ tired' = tired \ broken
  /\ UNCHANGED <<file, lock, robbed>>

Step(r) ==
  \/ Start(r) \/ Acquire(r) \/ FindStale(r) \/ ClearStale(r) \/ Busy(r)
  \/ ReadFile(r) \/ WriteFile(r) \/ NothingToCompact(r) \/ Abandon(r) \/ Release(r)

Next ==
  \/ \E r \in Request : Arrive(r) \/ Step(r) \/ Tire(r)
  \/ Age
  \/ \E p \in Process : Crash(p)

Spec == Init /\ [][Next]_vars

(* The event loop runs what is ready, and time passes.                       *)
Fairness == \A r \in Request : WF_vars(Step(r)) /\ WF_vars(Tire(r))

FairSpec == Spec /\ Fairness

-----------------------------------------------------------------------------
(* Properties.                                                               *)

(* Types; only a holder remembers what it read, only a waiter is tired, and  *)
(* a read does not write.                                                    *)
LockTypeOK ==
  /\ file \in SUBSET (Write \cup Process)
  /\ lock \in [owner : Request, stale : BOOLEAN] \cup {None}
  /\ pc \in [Request -> Idle \cup Waiting \cup Holding \cup Answered]
  /\ seen \in [Request -> SUBSET (Write \cup Process)]
  /\ tired \in SUBSET Request
  /\ crashes \in Nat /\ robbed \in BOOLEAN
  /\ \A r \in Request : seen[r] # {} => pc[r] \in Holding
  /\ \A r \in tired : pc[r] \in Waiting
  /\ \A r \in Read : pc[r] # "writing"

(* "Each write must be serialized": a mutation that was acknowledged is in   *)
(* the file for good, however many processes rewrite it, and one that was    *)
(* refused is not in it.                                                     *)
WritesSerialized ==
  \A w \in Write :
    /\ pc[w] = "done" => w \in file
    /\ pc[w] = "failed" => w \notin file

(* The lock serializes the writes of all processes, through crashes, stalls  *)
(* and take-overs of what they leave behind, as long as no lock file is      *)
(* removed while the request that created it is still at work.               *)
LockSerializes == ~robbed => WritesSerialized

(* A process answers every request, unless it stops: no failed mutation and  *)
(* no lock left behind keeps the others waiting for ever.                    *)
EveryRequestAnswered ==
  \A r \in Write \cup Read : pc[r] = "queued" ~> pc[r] \in Answered

=============================================================================
