------------------------------ MODULE TcapCustody ------------------------------
(***************************************************************************)
(* What the custody of an asset promises, whatever the instructions are:   *)
(* what is owed is covered by what is held, except for what governance     *)
(* itself has promised, and nothing leaves unless it was owed.             *)
(***************************************************************************)
EXTENDS Integers

VARIABLES held, owed, promised

custody == <<held, owed, promised>>

Covered == owed <= held + promised

Init == held \in Nat /\ owed \in 0..held /\ promised = 0

(* Tokens received against a promise to return them, or as a gift.         *)
Take == held' > held /\ owed' - owed = held' - held /\ UNCHANGED promised
Donate == held' > held /\ UNCHANGED <<owed, promised>>
Promise == owed' > owed /\ promised' - promised = owed' - owed /\ UNCHANGED held
PayOut == held' < held /\ owed - owed' = held - held' /\ UNCHANGED promised

Next == Take \/ Donate \/ Promise \/ PayOut

Spec == Init /\ [][Next]_custody
=============================================================================
