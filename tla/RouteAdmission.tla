---------------------------- MODULE RouteAdmission ----------------------------
(***************************************************************************)
(* DestinationRegistry.sol (tsn-crosschain/contracts): a destination route *)
(* is proposed once, with the attestor's signature, voted on by anybody    *)
(* within a window, and activated by anybody when enough votes were cast   *)
(* and a further delay has passed.  The guardian deactivates it.  Each     *)
(* transaction is one action; now is the timestamp of the current block.   *)
(***************************************************************************)
EXTENDS Naturals, FiniteSets

CONSTANTS
  Destination,      \* ids of destination routes
  Voter,            \* accounts
  Terms,            \* chain, network, executor, stablecoin and evidence
  Proposals,        \* the proposals the attestor signs
  Quorum, VotingPeriod, ActivationDelay,
  TimeBound,        \* bound: the latest block
  NoTerms           \* the terms of a route nobody proposed

ASSUME AdmissionAssumption ==
  /\ NoTerms \notin Terms
  /\ Proposals \subseteq [route : Destination, terms : Terms, deadline : Nat]
  /\ Quorum \in Nat \ {0} /\ VotingPeriod \in Nat \ {0}
  /\ ActivationDelay \in Nat /\ TimeBound \in Nat
  /\ IsFiniteSet(Voter)

VARIABLES
  now,
  destinations, \* the registry's routes: route -> its record
  hasVoted,     \* route -> accounts that voted
  votedAt       \* history: route -> account -> when it voted last

admissionVars == <<now, destinations, hasVoted, votedAt>>

DestinationRecord ==
  [terms : Terms \cup {NoTerms}, proposedAt : Nat, votingEndsAt : Nat,
   activationAt : Nat, voteCount : Nat, active : BOOLEAN]

Proposed(r) == destinations[r].proposedAt # 0

NewProposal(terms) ==
  [terms |-> terms, proposedAt |-> now, votingEndsAt |-> now + VotingPeriod,
   activationAt |-> now + VotingPeriod + ActivationDelay, voteCount |-> 0, active |-> FALSE]

AdmissionInit ==
  /\ now = 1
  /\ destinations = [r \in Destination |->
       [terms |-> NoTerms, proposedAt |-> 0, votingEndsAt |-> 0, activationAt |-> 0,
        voteCount |-> 0, active |-> FALSE]]
  /\ hasVoted = [r \in Destination |-> {}]
  /\ votedAt = [r \in Destination |-> [v \in Voter |-> 0]]

Open(r) == ~Proposed(r)

ProposeRoute(p) ==
  /\ p.deadline >= now
  /\ Open(p.route)
  /\ destinations' = [destinations EXCEPT ![p.route] = NewProposal(p.terms)]
  /\ UNCHANGED <<now, hasVoted, votedAt>>

(* Slip: an account may vote again.                                        *)
VoteAgain(r, v) ==
  /\ Proposed(r)
  /\ now <= destinations[r].votingEndsAt
  /\ hasVoted' = [hasVoted EXCEPT ![r] = @ \cup {v}]
  /\ destinations' = [destinations EXCEPT ![r].voteCount = @ + 1]
  /\ votedAt' = [votedAt EXCEPT ![r][v] = now]
  /\ UNCHANGED now

VoteForRoute(r, v) ==
  /\ Proposed(r)
  /\ now <= destinations[r].votingEndsAt
  /\ v \notin hasVoted[r]
  /\ hasVoted' = [hasVoted EXCEPT ![r] = @ \cup {v}]
  /\ destinations' = [destinations EXCEPT ![r].voteCount = @ + 1]
  /\ votedAt' = [votedAt EXCEPT ![r][v] = now]
  /\ UNCHANGED now

ActivateRoute(r) ==
  /\ Proposed(r)
  /\ ~destinations[r].active
  /\ destinations[r].voteCount >= Quorum
  /\ now >= destinations[r].activationAt
  /\ destinations' = [destinations EXCEPT ![r].active = TRUE]
  /\ UNCHANGED <<now, hasVoted, votedAt>>

DeactivateRoute(r) ==
  /\ Proposed(r)
  /\ destinations' = [destinations EXCEPT ![r].active = FALSE]
  /\ UNCHANGED <<now, hasVoted, votedAt>>

Tick ==
  /\ now < TimeBound
  /\ now' = now + 1
  /\ UNCHANGED <<destinations, hasVoted, votedAt>>

AdmissionNext ==
  \/ \E p \in Proposals : ProposeRoute(p)
  \/ \E r \in Destination :
       \/ \E v \in Voter : VoteForRoute(r, v)
       \/ ActivateRoute(r)
       \/ DeactivateRoute(r)
  \/ Tick

AdmissionSpec == AdmissionInit /\ [][AdmissionNext]_admissionVars

-----------------------------------------------------------------------------
(* Properties.                                                             *)

(* The variables hold what the contract can store, and a proposal's three  *)
(* times are in their order and distance.                                  *)
AdmissionTypeOK ==
  /\ now \in Nat \ {0}
  /\ destinations \in [Destination -> DestinationRecord]
  /\ hasVoted \in [Destination -> SUBSET Voter]
  /\ votedAt \in [Destination -> [Voter -> Nat]]
  /\ \A r \in Destination : Proposed(r) =>
       /\ destinations[r].proposedAt <= now
       /\ destinations[r].votingEndsAt = destinations[r].proposedAt + VotingPeriod
       /\ destinations[r].activationAt = destinations[r].votingEndsAt + ActivationDelay

(* A route is active only if a quorum of different accounts voted for it   *)
(* while voting was open, and the delay passed after voting closed.        *)
AdmittedByVote ==
  \A r \in Destination : destinations[r].active =>
    /\ Cardinality({v \in Voter :
         votedAt[r][v] \in destinations[r].proposedAt .. destinations[r].votingEndsAt}) >= Quorum
    /\ now >= destinations[r].proposedAt + VotingPeriod + ActivationDelay

(* What was proposed stands: its terms never change, and neither does its  *)
(* tally once voting has closed, whatever the guardian does.               *)
ProposalStands ==
  [][\A r \in Destination : Proposed(r) =>
       /\ destinations'[r].terms = destinations[r].terms
       /\ now > destinations[r].votingEndsAt
            => destinations'[r].voteCount = destinations[r].voteCount]_admissionVars
=============================================================================
