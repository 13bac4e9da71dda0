---------------------------- MODULE TcapGovernance ----------------------------
(***************************************************************************)
(* Governance of one asset of the TCAP program (asset_governance.rs): its  *)
(* registration or its migration from the first version, approval,         *)
(* operational status, reserve, vault and deposit policy.  The accounts    *)
(* are those of one asset, as the program's seeds and addresses require.   *)
(*                                                                         *)
(* An instruction is one action; one that fails, and one that finds        *)
(* nothing to change, is not a step.  Who signs is left out: governance    *)
(* may take any of its actions whenever their guards allow.  So are the    *)
(* settlement flags of the policy, which no instruction can set, and the   *)
(* pause of the whole protocol, which none can reach.                      *)
(***************************************************************************)
EXTENDS Integers

CONSTANTS
  None,
  SupplyBound   \* bound: tokens of the asset in the vault

VARIABLES
  policy,      \* TcapAssetGovernancePolicyV2
  entry,       \* TcapAssetEntryV1
  reserve,     \* TcapReserveStateV1
  vault,       \* the balance of the asset's vault
  mintMatches  \* the mint is still as its extension policy recorded it

governed == <<policy, entry, reserve, vault, mintMatches>>

Policy ==
  [approval_status : {"Pending", "Approved", "Rejected", "Revoked"},
   operational_status : {"Inactive", "Active", "Paused", "Deprecated"},
   deposits_enabled : BOOLEAN, reserve_initialized : BOOLEAN,
   vault_initialized : BOOLEAN, deprecated_irreversible : BOOLEAN]
Entry ==
  [status : {"Proposed", "Active", "DepositsPaused", "WithdrawalsOnly", "Deprecated"},
   risk_state : {"PendingReview", "Approved", "Restricted", "Blocked"},
   deposits_enabled : BOOLEAN, paused : BOOLEAN, deprecated : BOOLEAN]
Reserve ==
  [actual_assets : Nat, pending_liabilities : Nat, settled : Nat, transfer_pending : Nat,
   funding_enabled : BOOLEAN, paused : BOOLEAN]

ASSUME GovernanceAssumption ==
  /\ SupplyBound \in Nat
  /\ None \notin Policy /\ None \notin Entry /\ None \notin Reserve /\ None \notin Nat

total_liabilities == reserve.pending_liabilities + reserve.settled + reserve.transfer_pending

accepted_for_deposits ==
  /\ policy.approval_status = "Approved"
  /\ policy.operational_status = "Active"
  /\ policy.deposits_enabled
  /\ policy.reserve_initialized
  /\ policy.vault_initialized
  /\ ~policy.deprecated_irreversible

NewPolicy ==
  [approval_status |-> "Pending", operational_status |-> "Inactive", deposits_enabled |-> FALSE,
   reserve_initialized |-> FALSE, vault_initialized |-> FALSE, deprecated_irreversible |-> FALSE]

(* What the instructions of the first version, no longer exposed, may have *)
(* left behind.                                                            *)
LegacyEntry ==
  {e \in Entry :
     /\ e.paused = (e.status # "Active")
     /\ e.deprecated = (e.status = "Deprecated")
     /\ e.deposits_enabled => e.status = "Active" /\ e.risk_state = "Approved"}
LegacyReserve ==
  {r \in [actual_assets : 0..SupplyBound, pending_liabilities : 0..SupplyBound,
          settled : 0..SupplyBound, transfer_pending : 0..SupplyBound,
          funding_enabled : BOOLEAN, paused : BOOLEAN] :
     /\ r.pending_liabilities + r.settled + r.transfer_pending <= r.actual_assets
     /\ r.paused = ~r.funding_enabled}

GInit ==
  /\ policy = None
  /\ mintMatches = TRUE
  /\ \/ entry = None /\ reserve = None /\ vault = None
     \/ /\ entry \in LegacyEntry
        /\ \/ reserve = None /\ vault = None /\ ~entry.deposits_enabled
           \/ /\ reserve \in LegacyReserve
              /\ \/ vault = None /\ ~reserve.funding_enabled /\ reserve.actual_assets = 0
                 \/ vault \in reserve.actual_assets..SupplyBound
              /\ entry.deposits_enabled => reserve.funding_enabled

-----------------------------------------------------------------------------
(* The policy of the asset.                                                *)

RegisterGovernedAsset ==
  /\ entry = None /\ policy = None
  /\ entry' = [status |-> "Proposed", risk_state |-> "PendingReview",
               deposits_enabled |-> FALSE, paused |-> TRUE, deprecated |-> FALSE]
  /\ policy' = NewPolicy
  /\ UNCHANGED <<reserve, vault, mintMatches>>

(* Slip: the entry keeps the deposits that the first version enabled.      *)
MigrateKeepingDeposits ==
  /\ entry # None /\ policy = None
  /\ entry' = [entry EXCEPT !.paused = TRUE, !.status = "Proposed",
                            !.risk_state = "PendingReview"]
  /\ policy' = NewPolicy
  /\ UNCHANGED <<reserve, vault, mintMatches>>

(* The reserve keeps the flags the first version gave it.                  *)
MigrateLegacyAssetPolicy ==
  /\ entry # None /\ policy = None
  /\ entry' = [entry EXCEPT !.deposits_enabled = FALSE, !.paused = TRUE,
                            !.status = "Proposed", !.risk_state = "PendingReview"]
  /\ policy' = NewPolicy
  /\ UNCHANGED <<reserve, vault, mintMatches>>

(* Slip: a revoked asset may be reviewed anew, like a rejected one.        *)
ApprovalTransitionAnew ==
  {<<"Pending", "Approved">>, <<"Pending", "Rejected">>, <<"Rejected", "Pending">>,
   <<"Revoked", "Pending">>}

ApprovalTransition ==
  {<<"Pending", "Approved">>, <<"Pending", "Rejected">>, <<"Rejected", "Pending">>}
RiskOf ==
  [Approved |-> "Approved", Pending |-> "PendingReview", Rejected |-> "Blocked"]

SetAssetApproval(status) ==
  /\ policy # None
  /\ ~policy.deprecated_irreversible
  /\ policy.operational_status = "Inactive"
  /\ <<policy.approval_status, status>> \in ApprovalTransition
  /\ policy' = [policy EXCEPT !.approval_status = status]
  /\ entry' = [entry EXCEPT !.risk_state = RiskOf[status]]
  /\ UNCHANGED <<reserve, vault, mintMatches>>

InitializeGovernedReserve ==
  /\ policy # None /\ policy.approval_status = "Approved"
  /\ reserve = None
  /\ reserve' = [actual_assets |-> 0, pending_liabilities |-> 0, settled |-> 0,
                 transfer_pending |-> 0, funding_enabled |-> FALSE, paused |-> TRUE]
  /\ policy' = [policy EXCEPT !.reserve_initialized = TRUE]
  /\ UNCHANGED <<entry, vault, mintMatches>>

InitializeGovernedVault ==
  /\ policy # None /\ policy.reserve_initialized
  /\ reserve # None /\ vault = None
  /\ mintMatches
  /\ vault' = 0
  /\ policy' = [policy EXCEPT !.vault_initialized = TRUE]
  /\ UNCHANGED <<entry, reserve, mintMatches>>

-----------------------------------------------------------------------------
(* Its operation.  The accounts include the reserve and the vault.         *)

Manageable == policy # None /\ reserve # None /\ vault # None

ActivationChecks ==
  /\ mintMatches
  /\ reserve.actual_assets = vault
  /\ policy.approval_status = "Approved"
  /\ policy.reserve_initialized
  /\ policy.vault_initialized

Activate ==
  /\ Manageable
  /\ ~policy.deprecated_irreversible
  /\ ActivationChecks
  /\ policy.operational_status # "Active"
  /\ policy' = [policy EXCEPT !.operational_status = "Active"]
  /\ entry' = [entry EXCEPT !.status = "Active", !.paused = FALSE, !.deprecated = FALSE]
  /\ reserve' = [reserve EXCEPT !.paused = FALSE]
  /\ UNCHANGED <<vault, mintMatches>>

ForceDisable(p, e) ==
  /\ policy' = [p EXCEPT !.deposits_enabled = FALSE]
  /\ entry' = [e EXCEPT !.deposits_enabled = FALSE, !.paused = TRUE]
  /\ reserve' = [reserve EXCEPT !.funding_enabled = FALSE, !.paused = TRUE]
  /\ UNCHANGED <<vault, mintMatches>>

EntryStatusOf == [Inactive |-> "Proposed", Paused |-> "DepositsPaused"]

Halt(status) ==
  /\ Manageable
  /\ ~policy.deprecated_irreversible
  /\ policy.operational_status # status
  /\ ForceDisable([policy EXCEPT !.operational_status = status],
                  [entry EXCEPT !.status = EntryStatusOf[status]])

Deprecate ==
  /\ Manageable
  /\ policy.operational_status # "Deprecated"
  /\ ForceDisable(
       [policy EXCEPT !.operational_status = "Deprecated", !.deprecated_irreversible = TRUE],
       [entry EXCEPT !.status = "Deprecated", !.risk_state = "Blocked", !.deprecated = TRUE])

(* An emergency: it looks at neither the mint nor the balance.             *)
RevokeAssetApproval ==
  /\ Manageable
  /\ ~policy.deprecated_irreversible
  /\ policy.approval_status = "Approved"
  /\ ForceDisable(
       [policy EXCEPT !.approval_status = "Revoked", !.operational_status = "Paused"],
       [entry EXCEPT !.status = "DepositsPaused", !.risk_state = "Blocked"])

SetGovernedDepositPolicy(enabled) ==
  /\ Manageable
  /\ enabled => policy.operational_status = "Active" /\ ActivationChecks
  /\ policy.deposits_enabled # enabled
  /\ policy' = [policy EXCEPT !.deposits_enabled = enabled]
  /\ entry' = [entry EXCEPT !.deposits_enabled = enabled]
  /\ reserve' = [reserve EXCEPT !.funding_enabled = enabled]
  /\ UNCHANGED <<vault, mintMatches>>

(* Takes the live balance into the record; never hides a loss.             *)
SyncGovernedAssetInfrastructure ==
  /\ Manageable
  /\ mintMatches
  /\ vault >= reserve.actual_assets
  /\ vault >= total_liabilities
  /\ reserve' = [reserve EXCEPT !.actual_assets = vault]
  /\ policy' = [policy EXCEPT !.reserve_initialized = TRUE, !.vault_initialized = TRUE]
  /\ UNCHANGED <<entry, vault, mintMatches>>

(* The issuer changes the mint, or changes it back.                        *)
MintDrifts ==
  /\ policy # None
  /\ mintMatches' = ~mintMatches
  /\ UNCHANGED <<policy, entry, reserve, vault>>

GNext ==
  \/ RegisterGovernedAsset \/ MigrateLegacyAssetPolicy
  \/ \E status \in DOMAIN RiskOf : SetAssetApproval(status)
  \/ InitializeGovernedReserve \/ InitializeGovernedVault
  \/ Activate \/ Deprecate \/ RevokeAssetApproval
  \/ \E status \in DOMAIN EntryStatusOf : Halt(status)
  \/ \E enabled \in BOOLEAN : SetGovernedDepositPolicy(enabled)
  \/ SyncGovernedAssetInfrastructure
  \/ MintDrifts

(* Each account of the asset is absent or a record of its type.            *)
GTypeOK ==
  /\ policy \in Policy \cup {None}
  /\ entry \in Entry \cup {None}
  /\ reserve \in Reserve \cup {None}
  /\ vault \in Nat \cup {None}
  /\ mintMatches \in BOOLEAN
=============================================================================
