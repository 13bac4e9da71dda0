--------------------------- MODULE WorkLifecycle ---------------------------
(***************************************************************************)
(* What the Receiver promises about the life of each piece of work,        *)
(* without its queries, versions and retries.  Work is judged once by a    *)
(* verifier and executed by an executor, each holding it alone; work that  *)
(* needs other work first is not touched before that is confirmed; and a   *)
(* finished piece of work stays as it is.                                  *)
(***************************************************************************)
CONSTANTS Work, Verifier, Executor, None,
          Needs   \* what must be confirmed before a piece of work is touched

VARIABLES stage, holder

lifecycle == <<stage, holder>>

Init ==
  /\ stage \in [Work -> {"none", "queued"}]
  /\ holder = [w \in Work |-> None]

(* A payment and its settlement are admitted together.                     *)
Admit(S) ==
  /\ S # {}
  /\ \A w \in S : stage[w] = "none"
  /\ stage' = [w \in Work |-> IF w \in S THEN "queued" ELSE stage[w]]
  /\ UNCHANGED holder

Take(w, o) ==
  /\ \A n \in Needs[w] : stage[n] = "confirmed"
  /\ \/ o \in Verifier /\ stage[w] = "queued" /\ stage' = [stage EXCEPT ![w] = "checking"]
     \/ o \in Executor /\ stage[w] = "accepted" /\ stage' = [stage EXCEPT ![w] = "executing"]
  /\ holder' = [holder EXCEPT ![w] = o]

(* The holder lost its claim on the work before it was done.               *)
GiveBack(w) ==
  /\ \/ stage[w] = "checking" /\ stage' = [stage EXCEPT ![w] = "queued"]
     \/ stage[w] = "executing" /\ stage' = [stage EXCEPT ![w] = "accepted"]
  /\ holder' = [holder EXCEPT ![w] = None]

Judge(w, verdict) ==
  /\ stage[w] = "checking"
  /\ verdict \in {"accepted", "rejected"}
  /\ stage' = [stage EXCEPT ![w] = verdict]
  /\ holder' = [holder EXCEPT ![w] = None]

Finish(w, outcome) ==
  /\ stage[w] = "executing"
  /\ outcome \in {"submitted", "confirmed", "failed"}
  /\ stage' = [stage EXCEPT ![w] = outcome]
  /\ holder' = [holder EXCEPT ![w] = None]

Next ==
  \/ \E S \in SUBSET Work : Admit(S)
  \/ \E w \in Work, o \in Verifier \cup Executor : Take(w, o)
  \/ \E w \in Work : GiveBack(w)
  \/ \E w \in Work, verdict \in {"accepted", "rejected"} : Judge(w, verdict)
  \/ \E w \in Work, outcome \in {"submitted", "confirmed", "failed"} : Finish(w, outcome)

Spec == Init /\ [][Next]_lifecycle
=============================================================================
