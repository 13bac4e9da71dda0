------------------------------ MODULE TcapProofs ------------------------------
(***************************************************************************)
(* Proofs about TcapReserve, for any supply, depositors, TIPs, nonces and  *)
(* whatever the first version left in the accounts.                        *)
(***************************************************************************)
EXTENDS TcapReserve, SumLemmas, TLAPS

-----------------------------------------------------------------------------
(* The inductive invariant.                                                *)

(* The flags of the entry that deposits read follow the policy, and the    *)
(* policy is only operated under an approval.                              *)
EntryFollowsPolicy ==
  policy # None =>
    /\ entry # None
    /\ entry.deposits_enabled = policy.deposits_enabled
    /\ entry.status = "Active" => policy.operational_status = "Active"
    /\ policy.operational_status = "Active" =>
         /\ policy.approval_status = "Approved"
         /\ policy.reserve_initialized /\ policy.vault_initialized
         /\ ~policy.deprecated_irreversible

VaultAfterReserve ==
  /\ vault # None => reserve # None
  /\ reserve # None /\ vault = None => reserve.actual_assets = 0

(* A number that a TIP has not reached was not used.                       *)
UsedIsReached ==
  \A t \in Tip : \A s \in 1..SequenceBound :
    /\ changes[t][s] \in {0, 1}
    /\ changes[t][s] = 1 => tip[t] # None /\ s <= tip[t].sequence

TInv ==
  /\ TcapTypeOK
  /\ EntryFollowsPolicy
  /\ VaultAfterReserve
  /\ VaultCoversRecord
  /\ ClaimsChained
  /\ UsedIsReached

-----------------------------------------------------------------------------
(* Types.                                                                  *)

LEMMA GInitType == GInit => GTypeOK
BY GovernanceAssumption
   DEF GInit, GTypeOK, LegacyEntry, LegacyReserve, Policy, Entry, Reserve

LEMMA GovernanceTypes ==
  ASSUME GTypeOK, EntryFollowsPolicy, GNext
  PROVE  GTypeOK'
<1> USE GovernanceAssumption DEF GTypeOK, Policy, Entry, Reserve, EntryFollowsPolicy
<1>1. CASE RegisterGovernedAsset
  BY <1>1 DEF RegisterGovernedAsset, NewPolicy
<1>2. CASE MigrateLegacyAssetPolicy
  BY <1>2 DEF MigrateLegacyAssetPolicy, NewPolicy
<1>3. ASSUME NEW status \in DOMAIN RiskOf, SetAssetApproval(status)
      PROVE  GTypeOK'
  BY <1>3 DEF SetAssetApproval, RiskOf, ApprovalTransition
<1>4. CASE InitializeGovernedReserve
  BY <1>4 DEF InitializeGovernedReserve
<1>5. CASE InitializeGovernedVault
  BY <1>5 DEF InitializeGovernedVault
<1>6. CASE Activate
  BY <1>6 DEF Activate, Manageable
<1>7. CASE Deprecate
  BY <1>7 DEF Deprecate, Manageable, ForceDisable
<1>8. CASE RevokeAssetApproval
  BY <1>8 DEF RevokeAssetApproval, Manageable, ForceDisable
<1>9. ASSUME NEW status \in DOMAIN EntryStatusOf, Halt(status)
      PROVE  GTypeOK'
  <2>1. policy \in Policy /\ entry \in Entry /\ reserve \in Reserve
    BY <1>9 DEF Halt, Manageable
  <2>2. status \in {"Inactive", "Paused"} /\ EntryStatusOf[status] \in {"Proposed", "DepositsPaused"}
    BY <1>9 DEF EntryStatusOf
  <2>3. policy' \in Policy /\ entry' \in Entry /\ reserve' \in Reserve
    BY <1>9, <2>1, <2>2 DEF Halt, ForceDisable
  <2> QED
    BY <1>9, <2>3 DEF Halt, ForceDisable
<1>10. ASSUME NEW enabled \in BOOLEAN, SetGovernedDepositPolicy(enabled)
       PROVE  GTypeOK'
  BY <1>10 DEF SetGovernedDepositPolicy, Manageable
<1>11. CASE SyncGovernedAssetInfrastructure
  BY <1>11 DEF SyncGovernedAssetInfrastructure, Manageable
<1>12. CASE MintDrifts
  BY <1>12 DEF MintDrifts
<1> QED
  BY <1>1, <1>2, <1>3, <1>4, <1>5, <1>6, <1>7, <1>8, <1>9, <1>10, <1>11, <1>12 DEF GNext

LEMMA InitType == Init => TcapTypeOK
BY GInitType, GovernanceAssumption, ReserveAssumption
   DEF Init, TcapTypeOK

(* Two amounts of a record change and it stays a record.                   *)
LEMMA RecordTypes ==
  ASSUME NEW r \in Reserve, NEW x \in Nat, NEW y \in Nat
  PROVE  /\ [r EXCEPT !.actual_assets = x, !.pending_liabilities = y] \in Reserve
         /\ [r EXCEPT !.pending_liabilities = x, !.settled = y] \in Reserve
         /\ [r EXCEPT !.transfer_pending = x, !.settled = y] \in Reserve
         /\ [r EXCEPT !.settled = x] \in Reserve
         /\ [r EXCEPT !.actual_assets = x] \in Reserve
BY DEF Reserve

(* The accounts of the asset as the other instructions leave them.         *)
LEMMA ReserveTypes ==
  ASSUME TcapTypeOK, Next, ~Govern
  PROVE  GTypeOK'
<1> USE GovernanceAssumption DEF TcapTypeOK, GTypeOK
<1>1. ASSUME NEW a \in Amount, TakeDeposit(a)
      PROVE  GTypeOK'
  <2>1. reserve \in Reserve /\ vault \in Nat /\ a \in Nat
    BY <1>1 DEF TakeDeposit, AcceptsDeposits, Amount
  <2>2. vault + a \in Nat /\ reserve.pending_liabilities + a \in Nat
    BY <2>1 DEF Reserve
  <2>3. reserve' \in Reserve
    BY <1>1, <2>1, <2>2, RecordTypes DEF TakeDeposit
  <2> QED
    BY <1>1, <2>2, <2>3 DEF TakeDeposit
<1>2. ASSUME NEW a \in Amount, Donate(a)
      PROVE  GTypeOK'
  BY <1>2 DEF Donate, Amount
<1>3. ASSUME NEW t \in LegacyTip, NEW a \in Amount, InitializeTcapTipLiability(t, a)
      PROVE  GTypeOK'
  <2>1. reserve \in Reserve /\ a \in Nat
    BY <1>3 DEF InitializeTcapTipLiability, Amount
  <2>2. reserve.settled + a \in Nat
    BY <2>1 DEF Reserve
  <2>3. reserve' \in Reserve
    BY <1>3, <2>1, <2>2, RecordTypes DEF InitializeTcapTipLiability
  <2> QED
    BY <1>3, <2>3 DEF InitializeTcapTipLiability
<1>4. ASSUME NEW a \in Amount, reserve # None, reserve.pending_liabilities >= a,
             reserve' = [reserve EXCEPT !.pending_liabilities = @ - a, !.settled = @ + a],
             UNCHANGED <<policy, entry, vault, mintMatches>>
      PROVE  GTypeOK'
  <2>1. reserve \in Reserve /\ a \in Nat
    BY <1>4 DEF Amount
  <2>2. reserve.pending_liabilities - a \in Nat /\ reserve.settled + a \in Nat
    BY <1>4, <2>1 DEF Reserve
  <2>3. reserve' \in Reserve
    BY <1>4, <2>1, <2>2, RecordTypes
  <2> QED
    BY <1>4, <2>3
<1>5. ASSUME NEW t \in Tip, NEW s \in 1..SequenceBound, NEW a \in Amount,
             CreditOneTimeTipTransfer(t, s, a)
      PROVE  GTypeOK'
  <2>1. reserve \in Reserve /\ a \in Nat /\ reserve.transfer_pending >= a
    BY <1>5 DEF Amount, CreditOneTimeTipTransfer
  <2>2. reserve.transfer_pending - a \in Nat /\ reserve.settled + a \in Nat
    BY <2>1 DEF Reserve
  <2>3. reserve' \in Reserve
    BY <1>5, <2>1, <2>2, RecordTypes DEF CreditOneTimeTipTransfer
  <2> QED
    BY <1>5, <2>3 DEF CreditOneTimeTipTransfer
<1>6. ASSUME NEW t \in Tip, NEW s \in 1..SequenceBound, NEW n \in Nonce, NEW a \in Amount,
             DebitExit(t, s, n, a)
      PROVE  GTypeOK'
  <2>1. reserve \in Reserve /\ a \in Nat /\ reserve.settled >= a
    BY <1>6 DEF DebitExit, Amount
  <2>2. reserve.settled - a \in Nat
    BY <2>1 DEF Reserve
  <2>3. reserve' \in Reserve
    BY <1>6, <2>1, <2>2, RecordTypes DEF DebitExit
  <2> QED
    BY <1>6, <2>3 DEF DebitExit
<1>7. ASSUME NEW n \in Nonce, PayoutExit(n)
      PROVE  GTypeOK'
  <2>1. permit[n].amount \in Nat
    BY <1>7 DEF PayoutExit, Permit
  <2>2. reserve \in Reserve /\ vault - permit[n].amount \in Nat
    BY <1>7, <2>1 DEF PayoutExit
  <2> QED
    BY <1>7, <2>2 DEF PayoutExit, Reserve
<1>8. CASE UNCHANGED governed
  BY <1>8 DEF governed
<1> QED
  BY <1>1, <1>2, <1>3, <1>4, <1>5, <1>6, <1>7, <1>8
     DEF Next, DepositAsset, DepositWithFundingCommitment, InitializeOneTimeTip,
         InitializeOneTimeTipLiability, ConsumeOneTimeTip, ActivateCommitmentRoot,
         CreditOneTimeTip, CreditGpruMemo

(* The accounts of claims.                                                 *)
ClaimTypes ==
  /\ nextNonce \in [Depositor -> Nat]
  /\ claim \in [Identifier -> Claim \cup {None}]
  /\ chain \in Seq(Identifier)

(* Only a funding changes them.                                            *)
LEMMA ClaimSteps ==
  ASSUME [Next]_vars
  PROVE  \/ UNCHANGED claims
         \/ \E a \in Amount, d \in Depositor, i \in Identifier, nonce \in 0..Len(chain) :
              DepositWithFundingCommitment(d, i, nonce, a)
<1>1. CASE Govern \/ ActivateCommitmentRoot \/ UNCHANGED vars
  BY <1>1 DEF Govern, ActivateCommitmentRoot, vars
<1>2. ASSUME NEW t \in Tip, InitializeOneTimeTip(t) \/ InitializeOneTimeTipLiability(t)
      PROVE  UNCHANGED claims
  BY <1>2 DEF InitializeOneTimeTip, InitializeOneTimeTipLiability
<1>3. ASSUME NEW a \in Amount, DepositAsset(a) \/ Donate(a)
      PROVE  UNCHANGED claims
  BY <1>3 DEF DepositAsset, Donate
<1>4. ASSUME NEW t, NEW s, NEW a,
             \/ InitializeTcapTipLiability(t, a) \/ CreditOneTimeTip(t, s, a)
             \/ CreditOneTimeTipTransfer(t, s, a) \/ CreditGpruMemo(s, a)
      PROVE  UNCHANGED claims
  BY <1>4 DEF InitializeTcapTipLiability, CreditOneTimeTip, CreditOneTimeTipTransfer, CreditGpruMemo
<1>5. ASSUME NEW t, NEW s, NEW next, NEW n, NEW a,
             ConsumeOneTimeTip(t, s, next) \/ DebitExit(t, s, n, a) \/ PayoutExit(n)
      PROVE  UNCHANGED claims
  BY <1>5 DEF ConsumeOneTimeTip, DebitExit, PayoutExit
<1> QED
  BY <1>1, <1>2, <1>3, <1>4, <1>5 DEF Next

LEMMA FundingTypes ==
  ASSUME ClaimTypes, NEW d \in Depositor, NEW i \in Identifier, NEW nonce \in 0..Len(chain),
         NEW a \in Amount, DepositWithFundingCommitment(d, i, nonce, a)
  PROVE  ClaimTypes'
<1>1. Len(chain) \in Nat /\ nonce \in Nat /\ a \in Nat
  BY DEF Amount, ClaimTypes
<1>2. [depositor |-> d, amount |-> a, nonce |-> nonce, sequence |-> Len(chain) + 1] \in Claim
  BY <1>1 DEF Claim
<1> QED
  BY <1>1, <1>2 DEF DepositWithFundingCommitment, validate_and_advance_funding_nonce, ClaimTypes

LEMMA ClaimStepTypes ==
  ASSUME ClaimTypes, [Next]_vars
  PROVE  ClaimTypes'
<1>1. CASE UNCHANGED claims
  BY <1>1 DEF claims, ClaimTypes
<1> QED
  BY <1>1, ClaimSteps, FundingTypes

(* The accounts of TIPs and permits.                                       *)
TipTypes ==
  /\ tip \in [Tip -> TipAccount \cup {None}]
  /\ liability \in [Tip \cup LegacyTip -> Liability \cup {None}]
  /\ permit \in [Nonce -> Permit \cup {None}]
  /\ root \in Nat \cup {None}
  /\ exiting \in Int /\ seeded \in Nat
  /\ changes \in [Tip -> [1..SequenceBound -> Nat]]

LEMMA AdvanceTypes ==
  ASSUME TipTypes, NEW t \in Tip, NEW s \in 1..SequenceBound, NEW consumed \in BOOLEAN,
         Advance(t, s, consumed)
  PROVE  /\ tip' \in [Tip -> TipAccount \cup {None}]
         /\ changes' \in [Tip -> [1..SequenceBound -> Nat]]
<1>1. s \in Nat
  BY ReserveAssumption
<1>2. [sequence |-> s, consumed |-> consumed] \in TipAccount
  BY <1>1 DEF TipAccount
<1>3. changes[t] \in [1..SequenceBound -> Nat]
  BY DEF TipTypes
<1>4. [changes[t] EXCEPT ![s] = @ + 1] \in [1..SequenceBound -> Nat]
  <2>1. changes[t][s] \in Nat
    BY <1>3, Zenon
  <2> QED
    BY <1>3, <2>1
<1>5. changes' = [changes EXCEPT ![t] = [changes[t] EXCEPT ![s] = @ + 1]]
  BY DEF Advance, TipTypes
<1> QED
  BY <1>2, <1>4, <1>5 DEF Advance, TipTypes

LEMMA LiabilityTypes ==
  ASSUME NEW l \in Liability, NEW x \in Nat, NEW y \in Nat
  PROVE  /\ [l EXCEPT !.available = x] \in Liability
         /\ [l EXCEPT !.available = x, !.spent = y] \in Liability
BY DEF Liability

LEMMA TipStepTypes ==
  ASSUME TcapTypeOK, [Next]_vars
  PROVE  TipTypes'
<1> USE ReserveAssumption DEF TipTypes
<1>0. TipTypes /\ GTypeOK
  BY DEF TcapTypeOK
<1>1. CASE UNCHANGED tips
  BY <1>0, <1>1 DEF tips
<1>2. CASE ActivateCommitmentRoot
  BY <1>0, <1>2 DEF ActivateCommitmentRoot
<1>3. ASSUME NEW n \in Nonce, PayoutExit(n)
      PROVE  TipTypes'
  <2>1. permit[n] \in Permit
    BY <1>0, <1>3 DEF PayoutExit
  <2>2. permit[n].amount \in Nat /\ [permit[n] EXCEPT !.consumed = TRUE] \in Permit
    BY <2>1 DEF Permit
  <2> QED
    BY <1>0, <1>3, <2>2 DEF PayoutExit
<1>4. ASSUME NEW t \in Tip, InitializeOneTimeTip(t)
      PROVE  TipTypes'
  BY <1>0, <1>4 DEF InitializeOneTimeTip, TipAccount
<1>5. ASSUME NEW t \in Tip, InitializeOneTimeTipLiability(t)
      PROVE  TipTypes'
  BY <1>0, <1>5 DEF InitializeOneTimeTipLiability, Liability
<1>6. ASSUME NEW t \in LegacyTip, NEW a \in Amount, InitializeTcapTipLiability(t, a)
      PROVE  TipTypes'
  <2>1. a \in Nat /\ [available |-> a, spent |-> 0] \in Liability
    BY DEF Amount, Liability
  <2> QED
    BY <1>0, <1>6, <2>1 DEF InitializeTcapTipLiability
<1>7. ASSUME NEW t \in Tip, NEW s \in 1..SequenceBound, NEW a \in Amount,
             Advance(t, s, FALSE), liability[t] # None,
             liability' = [liability EXCEPT ![t].available = @ + a],
             UNCHANGED <<permit, root, exiting, seeded>>
      PROVE  TipTypes'
  <2>1. liability[t] \in Liability /\ a \in Nat
    BY <1>0, <1>7 DEF Amount
  <2>2. liability[t].available + a \in Nat
    BY <2>1 DEF Liability
  <2>3. [liability[t] EXCEPT !.available = @ + a] \in Liability
    BY <2>1, <2>2, LiabilityTypes
  <2>4. liability' \in [Tip \cup LegacyTip -> Liability \cup {None}]
    BY <1>0, <1>7, <2>3
  <2> QED
    BY <1>0, <1>7, <2>4, AdvanceTypes
<1>8. ASSUME NEW t \in Tip, NEW s \in 1..SequenceBound, NEW next \in Tip,
             ConsumeOneTimeTip(t, s, next)
      PROVE  TipTypes'
  <2>1. /\ [sequence |-> s, consumed |-> TRUE] \in TipAccount
        /\ [sequence |-> s, consumed |-> FALSE] \in TipAccount
    BY DEF TipAccount
  <2>2. changes[t] \in [1..SequenceBound -> Nat] /\ changes[t][s] + 1 \in Nat
    BY <1>0
  <2> QED
    BY <1>0, <1>8, <2>1, <2>2 DEF ConsumeOneTimeTip
<1>9. ASSUME NEW s \in 1..SequenceBound, NEW a \in Amount, CreditGpruMemo(s, a)
      PROVE  TipTypes'
  BY <1>0, <1>9 DEF CreditGpruMemo
<1>10. ASSUME NEW t \in Tip, NEW s \in 1..SequenceBound, NEW n \in Nonce, NEW a \in Amount,
              DebitExit(t, s, n, a)
       PROVE  TipTypes'
  <2>1. /\ liability[t] \in Liability /\ a \in Nat /\ liability[t].available >= a
        /\ tip[t] \in TipAccount
    BY <1>0, <1>10 DEF DebitExit, Amount
  <2>2. liability[t].available - a \in Nat /\ liability[t].spent + a \in Nat
    BY <2>1 DEF Liability
  <2>3. [liability[t] EXCEPT !.available = @ - a, !.spent = @ + a] \in Liability
    BY <2>1, <2>2, LiabilityTypes
  <2>4. liability' = [liability EXCEPT ![t] = [liability[t] EXCEPT !.available = @ - a, !.spent = @ + a]]
    BY <1>0, <1>10 DEF DebitExit
  <2>5. liability' \in [Tip \cup LegacyTip -> Liability \cup {None}]
    BY <1>0, <2>3, <2>4
  <2>6. tip[t].consumed \in BOOLEAN
    BY <2>1 DEF TipAccount
  <2>7. [tip |-> t, amount |-> a, sequence |-> s, consumed |-> FALSE] \in Permit
    BY <2>1 DEF Permit
  <2>8. /\ tip' \in [Tip -> TipAccount \cup {None}]
        /\ changes' \in [Tip -> [1..SequenceBound -> Nat]]
    BY <1>0, <1>10, <2>6, AdvanceTypes DEF DebitExit
  <2>9. permit' \in [Nonce -> Permit \cup {None}] /\ exiting' \in Int
    BY <1>0, <1>10, <2>1, <2>7 DEF DebitExit
  <2> QED
    BY <1>0, <1>10, <2>5, <2>8, <2>9 DEF DebitExit
<1> QED
  BY <1>1, <1>2, <1>3, <1>4, <1>5, <1>6, <1>7, <1>8, <1>9, <1>10
     DEF Next, Govern, DepositAsset, DepositWithFundingCommitment, Donate, CreditOneTimeTip,
         CreditOneTimeTipTransfer, vars

LEMMA TypeStep ==
  ASSUME TcapTypeOK, EntryFollowsPolicy, [Next]_vars
  PROVE  TcapTypeOK'
<1>1. GTypeOK'
  <2>1. CASE Govern
    BY <2>1, GovernanceTypes DEF Govern, TcapTypeOK
  <2>2. CASE Next /\ ~Govern
    BY <2>2, ReserveTypes
  <2>3. CASE UNCHANGED vars
    BY <2>3 DEF vars, governed, TcapTypeOK, GTypeOK
  <2> QED
    BY <2>1, <2>2, <2>3
<1> QED
  BY <1>1, ClaimStepTypes, TipStepTypes DEF TcapTypeOK, ClaimTypes, TipTypes

-----------------------------------------------------------------------------
(* Governance: what deposits read follows the policy.                      *)

LEMMA EntryStep ==
  ASSUME GTypeOK, EntryFollowsPolicy, GNext
  PROVE  EntryFollowsPolicy'
<1> USE GovernanceAssumption DEF GTypeOK, Policy, Entry, EntryFollowsPolicy
<1>1. CASE RegisterGovernedAsset
  <2>1. entry' \in Entry /\ entry'.deposits_enabled = FALSE /\ entry'.status = "Proposed"
    BY <1>1 DEF RegisterGovernedAsset
  <2>2. policy'.deposits_enabled = FALSE /\ policy'.operational_status = "Inactive"
    BY <1>1 DEF RegisterGovernedAsset, NewPolicy
  <2> QED
    BY <2>1, <2>2
<1>2. CASE MigrateLegacyAssetPolicy
  BY <1>2 DEF MigrateLegacyAssetPolicy, NewPolicy
<1>3. ASSUME NEW status \in DOMAIN RiskOf, SetAssetApproval(status)
      PROVE  EntryFollowsPolicy'
  <2>1. policy \in Policy /\ entry \in Entry
    BY <1>3 DEF SetAssetApproval
  <2>2. /\ policy'.deposits_enabled = policy.deposits_enabled
        /\ policy'.operational_status = "Inactive"
        /\ entry'.deposits_enabled = entry.deposits_enabled
        /\ entry'.status = entry.status
    BY <1>3, <2>1 DEF SetAssetApproval
  <2>3. entry' # None /\ policy # None
    BY <1>3, <2>1 DEF SetAssetApproval, RiskOf, ApprovalTransition
  <2> QED
    BY <1>3, <2>2, <2>3 DEF SetAssetApproval
<1>4. CASE InitializeGovernedReserve
  BY <1>4 DEF InitializeGovernedReserve
<1>5. CASE InitializeGovernedVault
  BY <1>5 DEF InitializeGovernedVault
<1>6. CASE Activate
  BY <1>6 DEF Activate, Manageable, ActivationChecks
<1>7. CASE Deprecate
  BY <1>7 DEF Deprecate, Manageable, ForceDisable
<1>8. CASE RevokeAssetApproval
  BY <1>8 DEF RevokeAssetApproval, Manageable, ForceDisable
<1>9. ASSUME NEW status \in DOMAIN EntryStatusOf, Halt(status)
      PROVE  EntryFollowsPolicy'
  <2>1. policy \in Policy /\ entry \in Entry
    BY <1>9 DEF Halt, Manageable
  <2>2. status \in {"Inactive", "Paused"} /\ EntryStatusOf[status] \in {"Proposed", "DepositsPaused"}
    BY <1>9 DEF EntryStatusOf
  <2>3. /\ policy'.deposits_enabled = FALSE /\ policy'.operational_status = status
        /\ entry'.deposits_enabled = FALSE /\ entry'.status = EntryStatusOf[status]
    BY <1>9, <2>1 DEF Halt, ForceDisable
  <2>4. entry' # None
    <3>1. entry' \in Entry
      BY <1>9, <2>1, <2>2 DEF Halt, ForceDisable
    <3> QED
      BY <3>1
  <2> QED
    BY <2>2, <2>3, <2>4
<1>10. ASSUME NEW enabled \in BOOLEAN, SetGovernedDepositPolicy(enabled)
       PROVE  EntryFollowsPolicy'
  <2>1. policy \in Policy /\ entry \in Entry
    BY <1>10 DEF SetGovernedDepositPolicy, Manageable
  <2>2. /\ policy'.deposits_enabled = enabled /\ entry'.deposits_enabled = enabled
        /\ policy'.operational_status = policy.operational_status
        /\ policy'.approval_status = policy.approval_status
        /\ policy'.reserve_initialized = policy.reserve_initialized
        /\ policy'.vault_initialized = policy.vault_initialized
        /\ policy'.deprecated_irreversible = policy.deprecated_irreversible
        /\ entry'.status = entry.status
    BY <1>10, <2>1 DEF SetGovernedDepositPolicy
  <2>3. entry' # None
    BY <1>10, <2>1 DEF SetGovernedDepositPolicy
  <2>4. policy # None /\ policy' # None
    BY <1>10, <2>1 DEF SetGovernedDepositPolicy, Manageable
  <2> QED
    BY <2>2, <2>3, <2>4
<1>11. CASE SyncGovernedAssetInfrastructure
  BY <1>11 DEF SyncGovernedAssetInfrastructure, Manageable
<1>12. CASE MintDrifts
  BY <1>12 DEF MintDrifts
<1> QED
  BY <1>1, <1>2, <1>3, <1>4, <1>5, <1>6, <1>7, <1>8, <1>9, <1>10, <1>11, <1>12 DEF GNext

LEMMA FollowIsAccepted ==
  ASSUME EntryFollowsPolicy
  PROVE  DepositsFollowPolicy
BY DEF EntryFollowsPolicy, DepositsFollowPolicy, AcceptsDeposits, Tradable, accepted_for_deposits

(* What governance does leaves the money where it is.                      *)
Liabilities(r) == r.pending_liabilities + r.settled + r.transfer_pending

LEMMA GovernanceMoney ==
  ASSUME GTypeOK, VaultAfterReserve, VaultCoversRecord, GNext
  PROVE  /\ VaultAfterReserve'
         /\ VaultCoversRecord'
         /\ Held' = Held
         /\ (IF reserve' = None THEN 0 ELSE Liabilities(reserve'))
              = IF reserve = None THEN 0 ELSE Liabilities(reserve)
         /\ TakenIn' = TakenIn
<1> USE GovernanceAssumption
    DEF GTypeOK, Reserve, VaultAfterReserve, VaultCoversRecord, Held, Liabilities, TakenIn
<1>1. CASE UNCHANGED <<reserve, vault>>
  BY <1>1
<1>2. ASSUME NEW f \in BOOLEAN, NEW p \in BOOLEAN, reserve # None, UNCHANGED vault,
             reserve' = [reserve EXCEPT !.funding_enabled = f, !.paused = p]
      PROVE  /\ VaultAfterReserve'
             /\ VaultCoversRecord'
             /\ Held' = Held
             /\ reserve' # None /\ Liabilities(reserve') = Liabilities(reserve)
             /\ TakenIn' = TakenIn
  BY <1>2
<1>3. CASE InitializeGovernedReserve
  BY <1>3 DEF InitializeGovernedReserve
<1>4. CASE InitializeGovernedVault
  BY <1>4 DEF InitializeGovernedVault
<1>5. CASE Activate
  BY <1>5 DEF Activate, Manageable
<1>6. CASE \E p, e : ForceDisable(p, e) /\ Manageable
  BY <1>2, <1>6 DEF ForceDisable, Manageable
<1>7. ASSUME NEW enabled \in BOOLEAN, SetGovernedDepositPolicy(enabled)
      PROVE  /\ VaultAfterReserve'
             /\ VaultCoversRecord'
             /\ Held' = Held
             /\ reserve # None /\ reserve' # None /\ Liabilities(reserve') = Liabilities(reserve)
             /\ TakenIn' = TakenIn
  BY <1>7 DEF SetGovernedDepositPolicy, Manageable
<1>8. CASE SyncGovernedAssetInfrastructure
  BY <1>8 DEF SyncGovernedAssetInfrastructure, Manageable
<1> QED
  BY <1>1, <1>3, <1>4, <1>5, <1>6, <1>7, <1>8
     DEF GNext, RegisterGovernedAsset, MigrateLegacyAssetPolicy, SetAssetApproval, Deprecate,
         RevokeAssetApproval, Halt, MintDrifts

LEMMA InitMoney ==
  ASSUME Init
  PROVE  VaultAfterReserve /\ VaultCoversRecord /\ Custody!Init
<1>1. exiting = 0 /\ seeded = 0 /\ GInit
  BY DEF Init
<1>2. CASE reserve = None /\ vault = None
  BY <1>1, <1>2 DEF VaultAfterReserve, VaultCoversRecord, Custody!Init, Held, Owed
<1>3. CASE /\ reserve \in LegacyReserve
           /\ \/ vault = None /\ reserve.actual_assets = 0
              \/ vault \in reserve.actual_assets..SupplyBound
  <2>1. /\ reserve # None
        /\ reserve.actual_assets \in Nat
        /\ total_liabilities \in Nat /\ total_liabilities <= reserve.actual_assets
    BY <1>3, GovernanceAssumption DEF LegacyReserve, Reserve, total_liabilities
  <2>2. CASE vault = None /\ reserve.actual_assets = 0
    BY <1>1, <2>1, <2>2 DEF VaultAfterReserve, VaultCoversRecord, Custody!Init, Held, Owed
  <2>3. CASE vault \in reserve.actual_assets..SupplyBound
    BY <1>1, <2>1, <2>3, GovernanceAssumption
       DEF VaultAfterReserve, VaultCoversRecord, Custody!Init, Held, Owed
  <2> QED
    BY <1>3, <2>2, <2>3
<1> QED
  BY <1>1, <1>2, <1>3 DEF GInit

(* Every step of the program is one of custody, or leaves it as it is.     *)
LEMMA MoneyStep ==
  ASSUME TcapTypeOK, VaultAfterReserve, VaultCoversRecord, [Next]_vars
  PROVE  /\ VaultAfterReserve' /\ VaultCoversRecord'
         /\ [Custody!Next]_(Custody!custody)
<1> DEFINE Kept == VaultAfterReserve' /\ VaultCoversRecord'
<1> USE GovernanceAssumption DEF VaultAfterReserve, VaultCoversRecord
<1>0. /\ GTypeOK /\ TipTypes
      /\ reserve # None => /\ reserve \in Reserve
                          /\ reserve.actual_assets \in Nat /\ reserve.settled \in Nat
                          /\ reserve.pending_liabilities \in Nat
                          /\ reserve.transfer_pending \in Nat
      /\ vault # None => vault \in Nat
      /\ exiting \in Int /\ seeded \in Nat
  BY DEF TcapTypeOK, TipTypes, GTypeOK, Reserve
<1>1. CASE UNCHANGED <<governed, exiting, seeded>>
  BY <1>1 DEF governed, Held, Owed, total_liabilities, Custody!custody
<1>2. CASE Govern
  <2>1. VaultAfterReserve' /\ VaultCoversRecord' /\ Held' = Held
    BY <1>0, <1>2, GovernanceMoney DEF Govern
  <2>2. Owed' = Owed /\ seeded' = seeded
    BY <1>0, <1>2, GovernanceMoney DEF Govern, tips, Owed, total_liabilities, Liabilities
  <2> QED
    BY <2>1, <2>2 DEF Custody!custody
<1>3. ASSUME NEW a \in Amount, TakeDeposit(a), UNCHANGED tips
      PROVE  Kept /\ Custody!Take
  <2>1. reserve # None /\ vault # None /\ reserve.actual_assets = vault /\ a \in Nat /\ a > 0
    BY <1>3 DEF TakeDeposit, AcceptsDeposits, Amount
  <2>2. /\ vault' = vault + a /\ reserve'.actual_assets = vault + a
        /\ reserve'.pending_liabilities = reserve.pending_liabilities + a
        /\ reserve'.settled = reserve.settled
        /\ reserve'.transfer_pending = reserve.transfer_pending
    BY <1>0, <1>3, <2>1 DEF TakeDeposit, Reserve
  <2>3. reserve' # None /\ vault' # None
    <3>1. vault + a \in Nat /\ reserve.pending_liabilities + a \in Nat
      BY <1>0, <2>1
    <3>2. reserve' \in Reserve /\ vault' \in Nat
      BY <1>0, <1>3, <2>1, <3>1, RecordTypes DEF TakeDeposit
    <3> QED
      BY <3>2
  <2>4. exiting' = exiting /\ seeded' = seeded
    BY <1>3 DEF tips
  <2> QED
    BY <1>0, <2>1, <2>2, <2>3, <2>4 DEF Custody!Take, Held, Owed, total_liabilities
<1>4. ASSUME NEW a \in Amount, Donate(a)
      PROVE  Kept /\ Custody!Donate
  BY <1>0, <1>4 DEF Donate, Amount, tips, Custody!Donate, Held, Owed, total_liabilities
<1>5. ASSUME NEW t \in LegacyTip, NEW a \in Amount, InitializeTcapTipLiability(t, a)
      PROVE  Kept /\ Custody!Promise
  <2>1. reserve # None /\ a \in Nat /\ a > 0
    BY <1>5 DEF InitializeTcapTipLiability, Amount
  <2>2. /\ reserve'.actual_assets = reserve.actual_assets
        /\ reserve'.pending_liabilities = reserve.pending_liabilities
        /\ reserve'.settled = reserve.settled + a
        /\ reserve'.transfer_pending = reserve.transfer_pending
    BY <1>0, <1>5, <2>1 DEF InitializeTcapTipLiability, Reserve
  <2>3. reserve' # None /\ vault' = vault
    <3>1. reserve.settled + a \in Nat
      BY <1>0, <2>1
    <3>2. reserve' \in Reserve
      BY <1>0, <1>5, <2>1, <3>1, RecordTypes DEF InitializeTcapTipLiability
    <3> QED
      BY <1>5, <3>2 DEF InitializeTcapTipLiability
  <2>4. exiting' = exiting /\ seeded' = seeded + a
    BY <1>5 DEF InitializeTcapTipLiability
  <2> QED
    BY <1>0, <2>1, <2>2, <2>3, <2>4 DEF Custody!Promise, Held, Owed, total_liabilities
(* A credit: what is owed changes its column.                              *)
<1>6. ASSUME NEW a \in Amount, reserve # None,
             \/ /\ reserve.pending_liabilities >= a
                /\ reserve' = [reserve EXCEPT !.pending_liabilities = @ - a, !.settled = @ + a]
             \/ /\ reserve.transfer_pending >= a
                /\ reserve' = [reserve EXCEPT !.transfer_pending = @ - a, !.settled = @ + a],
             UNCHANGED <<vault, exiting, seeded>>
      PROVE  Kept /\ UNCHANGED Custody!custody
  <2>1. a \in Nat
    BY DEF Amount
  <2>2. CASE /\ reserve.pending_liabilities >= a
             /\ reserve' = [reserve EXCEPT !.pending_liabilities = @ - a, !.settled = @ + a]
    <3>1. /\ reserve'.actual_assets = reserve.actual_assets
          /\ reserve'.pending_liabilities = reserve.pending_liabilities - a
          /\ reserve'.settled = reserve.settled + a
          /\ reserve'.transfer_pending = reserve.transfer_pending
      BY <1>0, <1>6, <2>1, <2>2 DEF Reserve
    <3>2. reserve.pending_liabilities - a \in Nat /\ reserve.settled + a \in Nat
      BY <1>0, <1>6, <2>1, <2>2
    <3>3. reserve' \in Reserve
      BY <1>0, <1>6, <2>2, <3>2, RecordTypes
    <3> QED
      BY <1>0, <1>6, <2>1, <3>1, <3>3 DEF Custody!custody, Held, Owed, total_liabilities
  <2>3. CASE /\ reserve.transfer_pending >= a
             /\ reserve' = [reserve EXCEPT !.transfer_pending = @ - a, !.settled = @ + a]
    <3>1. /\ reserve'.actual_assets = reserve.actual_assets
          /\ reserve'.pending_liabilities = reserve.pending_liabilities
          /\ reserve'.settled = reserve.settled + a
          /\ reserve'.transfer_pending = reserve.transfer_pending - a
      BY <1>0, <1>6, <2>1, <2>3 DEF Reserve
    <3>2. reserve.transfer_pending - a \in Nat /\ reserve.settled + a \in Nat
      BY <1>0, <1>6, <2>1, <2>3
    <3>3. reserve' \in Reserve
      BY <1>0, <1>6, <2>3, <3>2, RecordTypes
    <3> QED
      BY <1>0, <1>6, <2>1, <3>1, <3>3 DEF Custody!custody, Held, Owed, total_liabilities
  <2> QED
    BY <1>6, <2>2, <2>3
<1>7. ASSUME NEW t \in Tip, NEW s \in 1..SequenceBound, NEW n \in Nonce, NEW a \in Amount,
             DebitExit(t, s, n, a)
      PROVE  Kept /\ UNCHANGED Custody!custody
  <2>1. reserve # None /\ a \in Nat /\ reserve.settled >= a
    BY <1>7 DEF DebitExit, Amount
  <2>2. /\ reserve'.actual_assets = reserve.actual_assets
        /\ reserve'.pending_liabilities = reserve.pending_liabilities
        /\ reserve'.settled = reserve.settled - a
        /\ reserve'.transfer_pending = reserve.transfer_pending
    BY <1>0, <1>7, <2>1 DEF DebitExit, Reserve
  <2>3. reserve' # None /\ vault' = vault
    <3>1. reserve.settled - a \in Nat
      BY <1>0, <2>1
    <3>2. reserve' \in Reserve
      BY <1>0, <1>7, <2>1, <3>1, RecordTypes DEF DebitExit
    <3> QED
      BY <1>7, <3>2 DEF DebitExit
  <2>4. exiting' = exiting + a /\ seeded' = seeded
    BY <1>7 DEF DebitExit
  <2> QED
    BY <1>0, <2>1, <2>2, <2>3, <2>4 DEF Custody!custody, Held, Owed, total_liabilities
<1>8. ASSUME NEW n \in Nonce, PayoutExit(n)
      PROVE  Kept /\ [Custody!Next]_(Custody!custody)
  <2>1. reserve # None /\ vault # None /\ permit[n].amount \in Nat /\ vault >= permit[n].amount
    BY <1>0, <1>8 DEF PayoutExit, TipTypes, Permit
  <2>2. /\ reserve'.actual_assets = vault - permit[n].amount
        /\ reserve'.pending_liabilities = reserve.pending_liabilities
        /\ reserve'.settled = reserve.settled
        /\ reserve'.transfer_pending = reserve.transfer_pending
    BY <1>0, <1>8, <2>1 DEF PayoutExit, Reserve
  <2>3. reserve' # None /\ vault' = vault - permit[n].amount /\ vault' # None
    <3>1. vault - permit[n].amount \in Nat
      BY <1>0, <2>1
    <3>2. reserve' \in Reserve /\ vault' = vault - permit[n].amount
      BY <1>0, <1>8, <2>1, <3>1, RecordTypes DEF PayoutExit
    <3> QED
      BY <3>1, <3>2
  <2>4. exiting' = exiting - permit[n].amount /\ seeded' = seeded
    BY <1>8 DEF PayoutExit
  <2>5. Kept
    <3>1. reserve'.actual_assets = vault' /\ vault' \in Int
      BY <1>0, <2>1, <2>2, <2>3
    <3> QED
      BY <2>3, <3>1
  <2>6. CASE permit[n].amount = 0
    BY <1>0, <2>1, <2>2, <2>3, <2>4, <2>6 DEF Custody!custody, Held, Owed, total_liabilities
  <2>7. CASE permit[n].amount > 0
    BY <1>0, <2>1, <2>2, <2>3, <2>4, <2>7
       DEF Custody!Next, Custody!PayOut, Held, Owed, total_liabilities
  <2> QED
    BY <2>1, <2>5, <2>6, <2>7
<1>9. ASSUME NEW t, NEW s, NEW next, InitializeOneTimeTip(t) \/ InitializeOneTimeTipLiability(t)
             \/ ConsumeOneTimeTip(t, s, next) \/ ActivateCommitmentRoot
      PROVE  UNCHANGED <<governed, exiting, seeded>>
  BY <1>9 DEF InitializeOneTimeTip, InitializeOneTimeTipLiability, ConsumeOneTimeTip,
              ActivateCommitmentRoot
<1>10. CASE UNCHANGED vars
  BY <1>1, <1>10 DEF vars, tips
<1>11. ASSUME NEW a \in Amount, NEW d, NEW i, NEW nonce,
              DepositAsset(a) \/ DepositWithFundingCommitment(d, i, nonce, a)
       PROVE  Kept /\ Custody!Take
  BY <1>3, <1>11 DEF DepositAsset, DepositWithFundingCommitment
<1>12. ASSUME NEW a \in Amount, NEW t, NEW s,
              CreditOneTimeTip(t, s, a) \/ CreditOneTimeTipTransfer(t, s, a) \/ CreditGpruMemo(s, a)
       PROVE  Kept /\ UNCHANGED Custody!custody
  BY <1>6, <1>12 DEF CreditOneTimeTip, CreditOneTimeTipTransfer, CreditGpruMemo
<1> HIDE DEF Kept
<1> QED
  BY <1>1, <1>2, <1>4, <1>5, <1>7, <1>8, <1>9, <1>10, <1>11, <1>12
     DEF Next, Kept, Custody!Next

-----------------------------------------------------------------------------
(* Claims and their chain.                                                 *)

LEMMA ChainStep ==
  ASSUME TcapTypeOK, ClaimsChained, [Next]_vars
  PROVE  ClaimsChained'
<1>1. ClaimTypes
  BY DEF TcapTypeOK, ClaimTypes
<1>2. CASE UNCHANGED claims
  BY <1>2 DEF claims, ClaimsChained
<1>3. ASSUME NEW d \in Depositor, NEW i \in Identifier, NEW nonce \in 0..Len(chain),
             NEW a \in Amount, DepositWithFundingCommitment(d, i, nonce, a)
      PROVE  ClaimsChained'
  <2> DEFINE new == [depositor |-> d, amount |-> a, nonce |-> nonce, sequence |-> Len(chain) + 1]
             L == Len(chain)
  <2>1. /\ claim[i] = None /\ nonce = nextNonce[d] /\ nonce \in Nat
        /\ nextNonce' = [nextNonce EXCEPT ![d] = nonce + 1]
        /\ claim' = [claim EXCEPT ![i] = new]
        /\ chain' = Append(chain, i)
    BY <1>1, <1>3 DEF DepositWithFundingCommitment, validate_and_advance_funding_nonce, ClaimTypes
  <2>2. /\ L \in Nat /\ DOMAIN chain = 1..L /\ DOMAIN chain' = 1..(L + 1)
        /\ chain'[L + 1] = i
        /\ \A k \in 1..L : chain'[k] = chain[k] /\ chain[k] \in Identifier
    BY <1>1, <2>1 DEF ClaimTypes
  <2>3. new \in Claim /\ new # None
    BY <1>1, <2>1, <2>2, ReserveAssumption DEF Claim, Amount
  <2>4. claim'[i] = new /\ \A j \in Identifier : j # i => claim'[j] = claim[j]
    BY <1>1, <2>1 DEF ClaimTypes
  <2>5. \A k \in 1..L : /\ chain[k] # i
                        /\ claim'[chain[k]] = claim[chain[k]]
                        /\ claim[chain[k]] # None /\ claim[chain[k]].sequence = k
                        /\ claim[chain[k]] \in Claim
    BY <1>1, <2>1, <2>2, <2>4 DEF ClaimsChained, ClaimTypes
  <2>6. \A j \in Identifier :
          claim'[j] # None => claim'[j].sequence \in DOMAIN chain' /\ chain'[claim'[j].sequence] = j
    <3> TAKE j \in Identifier
    <3>1. CASE j = i
      BY <2>2, <2>4, <3>1
    <3>2. CASE j # i
      BY <2>2, <2>4, <3>2 DEF ClaimsChained
    <3> QED
      BY <3>1, <3>2
  <2>7. \A k \in 1..L :
          /\ nextNonce[claim[chain[k]].depositor] \in Nat
          /\ claim[chain[k]].nonce < nextNonce[claim[chain[k]].depositor]
          /\ claim[chain[k]].nonce \in Nat /\ claim[chain[k]].depositor \in Depositor
    BY <1>1, <2>2, <2>5 DEF ClaimsChained, ClaimTypes, Claim
  <2>8. \A e \in Depositor : nextNonce[e] \in Nat /\ nextNonce'[e] \in Nat /\ nextNonce[e] <= nextNonce'[e]
    BY <1>1, <2>1 DEF ClaimTypes
  <2>9. ASSUME NEW k \in DOMAIN chain'
        PROVE  /\ claim'[chain'[k]] # None /\ claim'[chain'[k]].sequence = k
               /\ claim'[chain'[k]].nonce < nextNonce'[claim'[chain'[k]].depositor]
    <3>1. CASE k = L + 1
      <4>1. claim'[chain'[k]] = new /\ nextNonce'[d] = nonce + 1
        BY <1>1, <2>1, <2>2, <2>4, <3>1 DEF ClaimTypes
      <4> QED
        BY <2>1, <2>3, <3>1, <4>1
    <3>2. CASE k \in 1..L
      <4>1. claim'[chain'[k]] = claim[chain[k]]
        BY <2>2, <2>5, <3>2
      <4> QED
        BY <2>5, <2>7, <2>8, <3>2, <4>1
    <3> QED
      BY <2>2, <3>1, <3>2
  <2>10. ASSUME NEW j \in DOMAIN chain', NEW k \in DOMAIN chain', j < k,
                claim'[chain'[j]].depositor = claim'[chain'[k]].depositor
         PROVE  claim'[chain'[j]].nonce < claim'[chain'[k]].nonce
    <3>1. j \in 1..L /\ claim'[chain'[j]] = claim[chain[j]]
      BY <2>2, <2>5, <2>10
    <3>2. CASE k = L + 1
      <4>1. claim'[chain'[k]] = new
        BY <2>2, <2>4, <3>2
      <4>2. claim[chain[j]].depositor = d /\ claim'[chain'[k]].nonce = nextNonce[d]
        BY <2>1, <2>10, <3>1, <4>1
      <4> QED
        BY <2>7, <3>1, <4>2
    <3>3. CASE k \in 1..L
      BY <2>2, <2>5, <2>10, <3>1, <3>3 DEF ClaimsChained
    <3> QED
      BY <2>2, <3>2, <3>3
  <2> HIDE DEF new, L
  <2> QED
    BY <2>6, <2>9, <2>10 DEF ClaimsChained
<1> QED
  BY <1>2, <1>3, ClaimSteps

-----------------------------------------------------------------------------
(* Changes of TIPs and their sequence numbers.                             *)

LEMMA UsedStep ==
  ASSUME TcapTypeOK, UsedIsReached, [Next]_vars
  PROVE  UsedIsReached'
<1>1. TipTypes /\ SequenceBound \in Nat
  BY ReserveAssumption DEF TcapTypeOK, TipTypes
<1>2. CASE UNCHANGED <<tip, changes>>
  BY <1>2 DEF UsedIsReached
<1>3. ASSUME NEW t \in Tip, InitializeOneTimeTip(t)
      PROVE  UsedIsReached'
  BY <1>1, <1>3 DEF InitializeOneTimeTip, UsedIsReached, TipTypes
(* A number just taken was not used; the TIP has now reached it.           *)
<1>4. ASSUME NEW t \in Tip, NEW s \in 1..SequenceBound, NEW consumed \in BOOLEAN,
             tip[t] # None, s = tip[t].sequence + 1,
             changes' = [changes EXCEPT ![t][s] = @ + 1],
             tip'[t] = [sequence |-> s, consumed |-> consumed],
             \A u \in Tip : u # t => tip'[u] = tip[u] \/ tip[u] = None
      PROVE  UsedIsReached'
  <2>1. s \in Nat /\ tip[t] \in TipAccount /\ tip[t].sequence \in Nat
    BY <1>1, <1>4 DEF TipTypes, TipAccount
  <2>2. changes[t][s] = 0
    BY <1>4, <2>1 DEF UsedIsReached
  <2>3. /\ tip'[t] \in TipAccount /\ tip'[t] # None /\ tip'[t].sequence = s
    BY <1>4, <2>1, ReserveAssumption DEF TipAccount
  <2>4. ASSUME NEW u \in Tip, NEW q \in 1..SequenceBound, u # t
        PROVE  /\ changes'[u][q] \in {0, 1}
               /\ changes'[u][q] = 1 => tip'[u] # None /\ q <= tip'[u].sequence
    <3>1. changes'[u] = changes[u]
      BY <1>1, <1>4, <2>4 DEF TipTypes
    <3> QED
      BY <1>4, <2>4, <3>1 DEF UsedIsReached
  <2>5. changes'[t] = [changes[t] EXCEPT ![s] = @ + 1] /\ changes[t] \in [1..SequenceBound -> Nat]
    BY <1>1, <1>4 DEF TipTypes
  <2>6. ASSUME NEW q \in 1..SequenceBound
        PROVE  /\ changes'[t][q] \in {0, 1}
               /\ changes'[t][q] = 1 => tip'[t] # None /\ q <= tip'[t].sequence
    <3>1. CASE q = s
      BY <2>1, <2>2, <2>3, <2>5, <3>1
    <3>2. CASE q # s
      <4>1. changes'[t][q] = changes[t][q]
        BY <2>5, <3>2
      <4>2. q \in Nat /\ (changes[t][q] = 1 => q <= tip[t].sequence)
        BY <1>1 DEF UsedIsReached
      <4> QED
        BY <1>4, <2>1, <2>3, <4>1, <4>2 DEF UsedIsReached
    <3> QED
      BY <3>1, <3>2
  <2> QED
    BY <2>4, <2>6 DEF UsedIsReached
<1>5. ASSUME NEW t \in Tip, NEW s \in 1..SequenceBound, NEW consumed \in BOOLEAN,
             Advance(t, s, consumed)
      PROVE  UsedIsReached'
  BY <1>1, <1>4, <1>5 DEF Advance, TipTypes
<1>6. ASSUME NEW s \in 1..SequenceBound, NEW t \in Tip, NEW next \in Tip,
             ConsumeOneTimeTip(t, s, next)
      PROVE  UsedIsReached'
  <2>1. t # next /\ tip[next] = None
    BY <1>6 DEF ConsumeOneTimeTip
  <2> QED
    BY <1>1, <1>4, <1>6, <2>1 DEF ConsumeOneTimeTip, TipTypes
<1>7. ASSUME NEW t \in Tip, NEW s \in 1..SequenceBound, NEW n \in Nonce, NEW a \in Amount,
             DebitExit(t, s, n, a)
      PROVE  UsedIsReached'
  <2>1. tip[t].consumed \in BOOLEAN
    BY <1>1, <1>7 DEF DebitExit, TipTypes, TipAccount
  <2> QED
    BY <1>5, <1>7, <2>1 DEF DebitExit
<1>8. CASE UNCHANGED tips \/ UNCHANGED vars
  BY <1>2, <1>8 DEF tips, vars
<1> QED
  BY <1>2, <1>3, <1>5, <1>6, <1>7, <1>8
     DEF Next, Govern, ActivateCommitmentRoot, PayoutExit, InitializeOneTimeTipLiability,
         DepositAsset, Donate, DepositWithFundingCommitment, InitializeTcapTipLiability,
         CreditGpruMemo, CreditOneTimeTip, CreditOneTimeTipTransfer

-----------------------------------------------------------------------------
(* Retirement.                                                             *)

LEMMA TakenInStep ==
  ASSUME TcapTypeOK, VaultAfterReserve, VaultCoversRecord, [Next]_vars
  PROVE  TakenIn' <= TakenIn \/ \E a \in Amount : TakeDeposit(a)
<1> USE GovernanceAssumption DEF TakenIn
<1>1. /\ GTypeOK
      /\ reserve # None => /\ reserve \in Reserve /\ reserve.pending_liabilities \in Nat
                          /\ reserve.settled \in Nat /\ reserve.transfer_pending \in Nat
      /\ TakenIn \in Nat
  BY DEF TcapTypeOK, GTypeOK, Reserve
<1>2. CASE UNCHANGED reserve
  BY <1>1, <1>2
<1>3. CASE Govern
  BY <1>1, <1>3, GovernanceMoney DEF Govern
<1>4. ASSUME NEW t, NEW a \in Amount, InitializeTcapTipLiability(t, a)
      PROVE  TakenIn' <= TakenIn
  <2>1. reserve # None /\ a \in Nat /\ reserve.settled + a \in Nat
    BY <1>1, <1>4 DEF InitializeTcapTipLiability, Amount
  <2>2. reserve'.pending_liabilities = reserve.pending_liabilities
    BY <1>1, <1>4, <2>1 DEF InitializeTcapTipLiability, Reserve
  <2> QED
    BY <1>1, <2>1, <2>2
<1>5. ASSUME NEW a \in Amount, reserve # None,
             \/ /\ reserve.pending_liabilities >= a
                /\ reserve' = [reserve EXCEPT !.pending_liabilities = @ - a, !.settled = @ + a]
             \/ reserve' = [reserve EXCEPT !.transfer_pending = @ - a, !.settled = @ + a]
      PROVE  TakenIn' <= TakenIn
  <2>1. a \in Nat
    BY DEF Amount
  <2>2. CASE /\ reserve.pending_liabilities >= a
             /\ reserve' = [reserve EXCEPT !.pending_liabilities = @ - a, !.settled = @ + a]
    <3>1. reserve'.pending_liabilities = reserve.pending_liabilities - a
      BY <1>1, <1>5, <2>2 DEF Reserve
    <3> QED
      BY <1>1, <1>5, <2>1, <2>2, <3>1
  <2>3. CASE reserve' = [reserve EXCEPT !.transfer_pending = @ - a, !.settled = @ + a]
    <3>1. reserve'.pending_liabilities = reserve.pending_liabilities
      BY <1>1, <1>5, <2>3 DEF Reserve
    <3> QED
      BY <1>1, <1>5, <3>1
  <2> QED
    BY <1>5, <2>2, <2>3
<1>6. ASSUME NEW t, NEW s, NEW n, NEW a \in Amount, DebitExit(t, s, n, a)
      PROVE  TakenIn' <= TakenIn
  <2>1. reserve'.pending_liabilities = reserve.pending_liabilities /\ reserve # None
    BY <1>1, <1>6 DEF DebitExit, Reserve
  <2> QED
    BY <1>1, <2>1
<1>7. ASSUME NEW n, PayoutExit(n)
      PROVE  TakenIn' <= TakenIn
  <2>1. reserve'.pending_liabilities = reserve.pending_liabilities /\ reserve # None
    BY <1>1, <1>7 DEF PayoutExit, Reserve
  <2> QED
    BY <1>1, <2>1
<1>8. CASE UNCHANGED governed \/ UNCHANGED vars
  BY <1>2, <1>8 DEF governed, vars
<1> QED
  BY <1>2, <1>3, <1>4, <1>5, <1>6, <1>7, <1>8
     DEF Next, DepositAsset, DepositWithFundingCommitment, InitializeOneTimeTip, Donate,
         InitializeOneTimeTipLiability, ConsumeOneTimeTip, ActivateCommitmentRoot,
         CreditOneTimeTip, CreditOneTimeTipTransfer, CreditGpruMemo

(* No instruction of governance brings a retired asset back.               *)
LEMMA GovernanceRetires ==
  ASSUME GTypeOK, GNext, Retired
  PROVE  Retired'
<1> DEFINE Same == /\ policy'.approval_status = policy.approval_status
                   /\ policy'.deprecated_irreversible = policy.deprecated_irreversible
                   /\ policy' # None
<1> USE GovernanceAssumption
<1>1. policy \in Policy
  BY DEF GTypeOK, Retired
<1>2. CASE UNCHANGED policy
  BY <1>2 DEF Retired
<1>3. ASSUME NEW status, SetAssetApproval(status)
      PROVE  FALSE
  BY <1>3 DEF SetAssetApproval, Retired, ApprovalTransition
<1>4. CASE InitializeGovernedReserve \/ InitializeGovernedVault \/ SyncGovernedAssetInfrastructure
  <2>1. policy' \in Policy
    BY <1>1, <1>4 DEF InitializeGovernedReserve, InitializeGovernedVault,
                      SyncGovernedAssetInfrastructure, Policy
  <2>2. Same
    BY <1>1, <1>4, <2>1 DEF InitializeGovernedReserve, InitializeGovernedVault,
                            SyncGovernedAssetInfrastructure, Policy
  <2> QED
    BY <2>2 DEF Retired
<1>5. CASE Activate
  BY <1>5 DEF Activate, ActivationChecks, Retired
<1>6. CASE Deprecate
  <2>1. policy' \in Policy /\ policy'.deprecated_irreversible = TRUE
    BY <1>1, <1>6 DEF Deprecate, ForceDisable, Policy
  <2> QED
    BY <2>1 DEF Retired
<1>7. CASE RevokeAssetApproval
  BY <1>7 DEF RevokeAssetApproval, Retired
<1>8. ASSUME NEW status \in DOMAIN EntryStatusOf, Halt(status)
      PROVE  Retired'
  <2>1. status \in {"Inactive", "Paused"}
    BY <1>8 DEF EntryStatusOf
  <2>2. policy' \in Policy
    BY <1>1, <1>8, <2>1 DEF Halt, ForceDisable, Policy
  <2>3. Same
    BY <1>1, <1>8, <2>2 DEF Halt, ForceDisable, Policy
  <2> QED
    BY <2>3 DEF Retired
<1>9. ASSUME NEW enabled \in BOOLEAN, SetGovernedDepositPolicy(enabled)
      PROVE  Retired'
  <2>1. policy' \in Policy
    BY <1>1, <1>9 DEF SetGovernedDepositPolicy, Policy
  <2>2. Same
    BY <1>1, <1>9, <2>1 DEF SetGovernedDepositPolicy, Policy
  <2> QED
    BY <2>2 DEF Retired
<1> HIDE DEF Same
<1>10. ~RegisterGovernedAsset /\ ~MigrateLegacyAssetPolicy
  BY DEF RegisterGovernedAsset, MigrateLegacyAssetPolicy, Retired
<1> QED
  BY <1>2, <1>3, <1>4, <1>5, <1>6, <1>7, <1>8, <1>9, <1>10 DEF GNext, MintDrifts

(* Nor does any other instruction touch the policy.                        *)
LEMMA OthersKeepPolicy ==
  ASSUME [Next]_vars, ~Govern
  PROVE  UNCHANGED <<policy, entry>>
<1>1. CASE UNCHANGED governed \/ UNCHANGED vars
  BY <1>1 DEF governed, vars
<1>2. ASSUME NEW t, NEW s, NEW next,
             \/ InitializeOneTimeTip(t) \/ InitializeOneTimeTipLiability(t)
             \/ ConsumeOneTimeTip(t, s, next) \/ ActivateCommitmentRoot
      PROVE  UNCHANGED governed
  BY <1>2 DEF InitializeOneTimeTip, InitializeOneTimeTipLiability, ConsumeOneTimeTip,
              ActivateCommitmentRoot
<1>3. ASSUME NEW a, NEW d, NEW i, NEW nonce,
             DepositAsset(a) \/ DepositWithFundingCommitment(d, i, nonce, a) \/ Donate(a)
      PROVE  UNCHANGED <<policy, entry>>
  BY <1>3 DEF DepositAsset, DepositWithFundingCommitment, TakeDeposit, Donate
<1>4. ASSUME NEW t, NEW s, NEW a,
             \/ CreditOneTimeTip(t, s, a) \/ CreditOneTimeTipTransfer(t, s, a)
             \/ CreditGpruMemo(s, a) \/ InitializeTcapTipLiability(t, a)
      PROVE  UNCHANGED <<policy, entry>>
  BY <1>4 DEF CreditOneTimeTip, CreditOneTimeTipTransfer, CreditGpruMemo, InitializeTcapTipLiability
<1>5. ASSUME NEW t, NEW s, NEW n, NEW a, DebitExit(t, s, n, a) \/ PayoutExit(n)
      PROVE  UNCHANGED <<policy, entry>>
  BY <1>5 DEF DebitExit, PayoutExit
<1> QED
  BY <1>1, <1>2, <1>3, <1>4, <1>5 DEF Next

LEMMA RetiredStep ==
  ASSUME TInv, [Next]_vars, Retired
  PROVE  Retired' /\ TakenIn' <= TakenIn
<1>1. Retired'
  <2>1. CASE Govern
    BY <2>1, GovernanceRetires DEF Govern, TInv, TcapTypeOK
  <2>2. CASE ~Govern
    BY <2>2, OthersKeepPolicy DEF Retired
  <2> QED
    BY <2>1, <2>2
<1>2. ~AcceptsDeposits
  BY DEF TInv, EntryFollowsPolicy, AcceptsDeposits, Tradable, Retired
<1> QED
  BY <1>1, <1>2, TakenInStep DEF TInv, TakeDeposit

-----------------------------------------------------------------------------
(* The invariant and what follows from it.                                 *)

LEMMA InvInit == Init => TInv
<1> SUFFICES ASSUME Init PROVE TInv
  OBVIOUS
<1>1. TcapTypeOK /\ VaultAfterReserve /\ VaultCoversRecord
  BY InitType, InitMoney
<1>2. EntryFollowsPolicy
  BY DEF Init, GInit, EntryFollowsPolicy
<1>3. ClaimsChained
  <2>1. claim = [i \in Identifier |-> None] /\ DOMAIN chain = {}
    BY DEF Init
  <2> QED
    BY <2>1 DEF ClaimsChained
<1>4. UsedIsReached
  BY DEF Init, UsedIsReached
<1> QED
  BY <1>1, <1>2, <1>3, <1>4 DEF TInv

LEMMA InvStep == TInv /\ [Next]_vars => TInv'
<1> SUFFICES ASSUME TInv, [Next]_vars PROVE TInv'
  OBVIOUS
<1>1. TcapTypeOK'
  BY TypeStep DEF TInv
<1>2. EntryFollowsPolicy'
  <2>1. CASE Govern
    BY <2>1, EntryStep DEF Govern, TInv, TcapTypeOK
  <2>2. CASE ~Govern
    BY <2>2, OthersKeepPolicy DEF TInv, EntryFollowsPolicy
  <2> QED
    BY <2>1, <2>2
<1>3. VaultAfterReserve' /\ VaultCoversRecord'
  BY MoneyStep DEF TInv
<1>4. ClaimsChained' /\ UsedIsReached'
  BY ChainStep, UsedStep DEF TInv
<1> QED
  BY <1>1, <1>2, <1>3, <1>4 DEF TInv

THEOREM TInvariant == Spec => []TInv
BY InvInit, InvStep, PTL DEF Spec

(* Every account stays a record of its type: no instruction takes an       *)
(* amount below zero.                                                      *)
THEOREM TcapTypeCorrect == Spec => []TcapTypeOK
<1>1. TInv => TcapTypeOK
  BY DEF TInv
<1> QED
  BY <1>1, TInvariant, PTL

(* Whatever the order of the instructions of governance, and whatever the  *)
(* first version left: deposits are accepted only as the policy accepts    *)
(* them.                                                                   *)
THEOREM DepositsFollow == Spec => []DepositsFollowPolicy
<1>1. TInv => DepositsFollowPolicy
  BY FollowIsAccepted DEF TInv
<1> QED
  BY <1>1, TInvariant, PTL

(* The record of the reserve never claims more than the vault holds.       *)
THEOREM RecordCovered == Spec => []VaultCoversRecord
<1>1. TInv => VaultCoversRecord
  BY DEF TInv
<1> QED
  BY <1>1, TInvariant, PTL

(* The funding root commits to every claim once and in order.              *)
THEOREM ClaimsStayChained == Spec => []ClaimsChained
<1>1. TInv => ClaimsChained
  BY DEF TInv
<1> QED
  BY <1>1, TInvariant, PTL

(* No two changes of a TIP run under one sequence number.                  *)
THEOREM ChangedOnce == Spec => []AuthorizedChangeOnce
<1>1. TInv => AuthorizedChangeOnce
  BY DEF TInv, UsedIsReached, AuthorizedChangeOnce
<1> QED
  BY <1>1, TInvariant, PTL

(* A revoked or deprecated asset stays so and takes nothing more in.       *)
THEOREM RetiredStays == Spec => RetiredForGood
<1>1. TInv /\ [Next]_vars => [Retired => Retired' /\ TakenIn' <= TakenIn]_vars
  BY RetiredStep
<1> QED
  BY <1>1, TInvariant, PTL DEF Spec, RetiredForGood

(* The instructions implement the custody promised.                        *)
THEOREM CustodyRefined == Spec => CustodyKept
<1>1. Init => Custody!Init
  BY InitMoney
<1>2. TInv /\ [Next]_vars => [Custody!Next]_(Custody!custody)
  BY MoneyStep DEF TInv
<1> QED
  BY <1>1, <1>2, TInvariant, PTL DEF Spec, CustodyKept, Custody!Spec

(* So what is owed, the exits under way included, is in the vault or was   *)
(* promised by governance.                                                 *)
THEOREM VaultBacked == Spec => []Backed
<1>1. TcapTypeOK => Held \in Int /\ Owed \in Int /\ seeded \in Int
  BY DEF TcapTypeOK, GTypeOK, Reserve, Held, Owed, total_liabilities
<1>2. Init => Backed
  BY InitMoney, InitType, <1>1 DEF Custody!Init, Backed
<1>3. TcapTypeOK' => Held' \in Int /\ Owed' \in Int /\ seeded' \in Int
  BY DEF TcapTypeOK, GTypeOK, Reserve, Held, Owed, total_liabilities
<1>4. ASSUME TInv, TInv', Backed, [Next]_vars
      PROVE  Backed'
  <2>1. /\ Held \in Int /\ Owed \in Int /\ seeded \in Int
        /\ Held' \in Int /\ Owed' \in Int /\ seeded' \in Int
    BY <1>1, <1>3, <1>4 DEF TInv
  <2>2. [Custody!Next]_(Custody!custody)
    BY <1>4, MoneyStep DEF TInv
  <2>3. Owed <= Held + seeded
    BY <1>4 DEF Backed
  <2>4. \/ Held' > Held /\ Owed' - Owed = Held' - Held /\ seeded' = seeded
        \/ Held' > Held /\ Owed' = Owed /\ seeded' = seeded
        \/ Owed' > Owed /\ seeded' - seeded = Owed' - Owed /\ Held' = Held
        \/ Held' < Held /\ Owed - Owed' = Held - Held' /\ seeded' = seeded
        \/ Held' = Held /\ Owed' = Owed /\ seeded' = seeded
    BY <2>2, Zenon
       DEF Custody!Next, Custody!custody, Custody!Take, Custody!Donate, Custody!Promise,
           Custody!PayOut
  <2>5. PICK h \in Int, o \in Int, p \in Int, hh \in Int, oo \in Int, pp \in Int :
          h = Held /\ o = Owed /\ p = seeded /\ hh = Held' /\ oo = Owed' /\ pp = seeded'
    BY <2>1, Zenon
  <2>6. /\ o <= h + p
        /\ \/ hh > h /\ oo - o = hh - h /\ pp = p
           \/ hh > h /\ oo = o /\ pp = p
           \/ oo > o /\ pp - p = oo - o /\ hh = h
           \/ hh < h /\ o - oo = h - hh /\ pp = p
           \/ hh = h /\ oo = o /\ pp = p
    BY <2>3, <2>4, <2>5, Zenon
  <2>7. oo <= hh + pp
    BY <2>6
  <2>8. Owed' <= Held' + seeded'
    BY <2>5, <2>7, Zenon
  <2> QED
    BY <2>8 DEF Backed
<1> QED
  BY <1>2, <1>4, TInvariant, PTL DEF Spec
-----------------------------------------------------------------------------
(* What TIPs may withdraw, and what is settled.                            *)

Holder == Tip \cup LegacyTip
Available(l) == IF l = None THEN 0 ELSE l.available
Due == [t \in Holder |-> Available(liability[t])]
Settled == IF reserve = None THEN 0 ELSE reserve.settled

LEMMA WithdrawableIsDue ==
  /\ IsFiniteSet(Holder)
  /\ Withdrawable = SumFunctionOnSet(Due, Holder)
  /\ Withdrawable' = SumFunctionOnSet(Due', Holder)
BY ReserveAssumption DEF Withdrawable, SumFunction, Due, Available, Holder

LEMMA DueTypes ==
  /\ TcapTypeOK => \A t \in Holder : Due[t] \in Nat
  /\ TcapTypeOK' => \A t \in Holder : Due'[t] \in Nat
BY DEF TcapTypeOK, Liability, Due, Available, Holder

LEMMA SettledTypes ==
  /\ TcapTypeOK => Settled \in Nat
  /\ TcapTypeOK' => Settled' \in Nat
BY DEF TcapTypeOK, GTypeOK, Reserve, Settled

(* One liability changes: the sum changes by as much.                      *)
LEMMA WithdrawableOfChanged ==
  ASSUME TcapTypeOK, TcapTypeOK', NEW t \in Holder, NEW l,
         liability' = [liability EXCEPT ![t] = l]
  PROVE  /\ Withdrawable \in Int
         /\ Withdrawable' = Withdrawable - Available(liability[t]) + Available(l)
<1>1. liability \in [Holder -> Liability \cup {None}]
  BY DEF TcapTypeOK, Holder
<1>2. /\ Due[t] = Available(liability[t])
      /\ Due'[t] = Available(l)
      /\ \A u \in Holder : u # t => Due'[u] = Due[u]
  BY <1>1 DEF Due
<1>3. \A u \in Holder : Due[u] \in Int /\ Due'[u] \in Int
  BY DueTypes
<1>4. IsFiniteSet(Holder)
  BY WithdrawableIsDue
<1>5. SumFunctionOnSet(Due', Holder) = SumFunctionOnSet(Due, Holder) - Due[t] + Due'[t]
  BY <1>2, <1>3, <1>4, SumOfChanged
<1>6. SumFunctionOnSet(Due, Holder) \in Int
  BY <1>3, <1>4, SumIsInteger
<1> QED
  BY <1>2, <1>5, <1>6, WithdrawableIsDue

LEMMA WithdrawableIsNatural ==
  /\ TcapTypeOK => Withdrawable \in Nat
  /\ TcapTypeOK' => Withdrawable' \in Nat
BY WithdrawableIsDue, DueTypes, SumIsNatural

LEMMA WithdrawableAtFirst ==
  Init => Withdrawable = 0
<1> SUFFICES ASSUME Init PROVE Withdrawable = 0
  OBVIOUS
<1>1. \A t \in Holder : Due[t] = 0
  BY DEF Init, Due, Available, Holder
<1> QED
  BY <1>1, WithdrawableIsDue, SumOfNothing

(* Governance may open a reserve, and settles nothing.                     *)
LEMMA GovernanceSettles ==
  ASSUME GTypeOK, GNext
  PROVE  Settled' = Settled
<1> USE GovernanceAssumption DEF GTypeOK, Reserve, Settled
<1>1. CASE UNCHANGED reserve
  BY <1>1
<1>2. ASSUME NEW f \in BOOLEAN, NEW p \in BOOLEAN, reserve # None,
             reserve' = [reserve EXCEPT !.funding_enabled = f, !.paused = p]
      PROVE  Settled' = Settled
  BY <1>2
<1>3. CASE InitializeGovernedReserve
  BY <1>3 DEF InitializeGovernedReserve
<1>4. CASE InitializeGovernedVault
  BY <1>4 DEF InitializeGovernedVault
<1>5. CASE Activate
  BY <1>5 DEF Activate, Manageable
<1>6. CASE \E p, e : ForceDisable(p, e) /\ Manageable
  BY <1>2, <1>6 DEF ForceDisable, Manageable
<1>7. ASSUME NEW enabled \in BOOLEAN, SetGovernedDepositPolicy(enabled)
      PROVE  Settled' = Settled
  BY <1>7 DEF SetGovernedDepositPolicy, Manageable
<1>8. CASE SyncGovernedAssetInfrastructure
  BY <1>8 DEF SyncGovernedAssetInfrastructure, Manageable
<1> QED
  BY <1>1, <1>3, <1>4, <1>5, <1>6, <1>7, <1>8
     DEF GNext, RegisterGovernedAsset, MigrateLegacyAssetPolicy, SetAssetApproval, Deprecate,
         RevokeAssetApproval, Halt, MintDrifts

(* No instruction adds more to what TIPs may withdraw than it settles, or  *)
(* unsettles more than it takes from them.                                 *)
LEMMA CountedStep ==
  ASSUME TcapTypeOK, TcapTypeOK', [Next]_vars
  PROVE  Withdrawable <= Settled => Withdrawable' <= Settled'
<1>0. /\ liability \in [Holder -> Liability \cup {None}] /\ reserve \in Reserve \cup {None}
      /\ None \notin Reserve /\ None \notin Liability /\ GTypeOK
      /\ Withdrawable \in Nat /\ Withdrawable' \in Nat /\ Settled \in Nat /\ Settled' \in Nat
      /\ \A t \in Tip : t \in Holder
      /\ \A t \in LegacyTip : t \in Holder
  BY WithdrawableIsNatural, SettledTypes, GovernanceAssumption, ReserveAssumption
     DEF TcapTypeOK, GTypeOK, Holder
<1>a. PICK w \in Nat, x \in Nat, c \in Nat, d \in Nat :
        w = Withdrawable /\ x = Withdrawable' /\ c = Settled /\ d = Settled'
  BY <1>0, Zenon
<1>b. w \in Nat /\ x \in Nat /\ c \in Nat /\ d \in Nat
  BY <1>a, Zenon
<1>c. SUFFICES x - w <= d - c
  <2>1. ASSUME x - w <= d - c, w <= c
        PROVE  x <= d
    BY <1>b, <2>1
  <2> QED
    BY <1>a, <2>1, Zenon
<1>1. ASSUME UNCHANGED liability, d = c \/ d >= c
      PROVE  x - w <= d - c
  <2>1. Due' = Due
    BY <1>1 DEF Due
  <2>2. x = w
    BY <1>a, <2>1, WithdrawableIsDue, Zenon
  <2> QED
    BY <1>1, <1>b, <2>2
<1>2. CASE Govern
  <2>1. Settled' = Settled /\ UNCHANGED liability
    BY <1>0, <1>2, GovernanceSettles DEF Govern, tips
  <2>2. d = c
    BY <1>a, <2>1, Zenon
  <2> QED
    BY <1>1, <2>1, <2>2
<1>3. ASSUME NEW a \in Amount, TakeDeposit(a), UNCHANGED tips
      PROVE  x - w <= d - c
  <2>1. reserve \in Reserve /\ a \in Nat /\ vault + a \in Nat
    BY <1>0, <1>3 DEF TakeDeposit, AcceptsDeposits, Amount, GTypeOK
  <2>2. reserve' \in Reserve /\ reserve'.settled = reserve.settled
    <3>1. reserve.pending_liabilities + a \in Nat
      BY <2>1 DEF Reserve
    <3>2. reserve' \in Reserve
      BY <1>3, <2>1, <3>1, RecordTypes DEF TakeDeposit
    <3> QED
      BY <1>3, <2>1, <3>2 DEF TakeDeposit, Reserve
  <2>3. Settled' = Settled
    BY <1>0, <2>1, <2>2 DEF Settled
  <2>4. d = c /\ UNCHANGED liability
    BY <1>3, <1>a, <2>3, Zenon DEF tips
  <2> QED
    BY <1>1, <2>4
<1>4. ASSUME UNCHANGED <<reserve, liability>>
      PROVE  x - w <= d - c
  <2>1. Settled' = Settled
    BY <1>4 DEF Settled
  <2>2. d = c
    BY <1>a, <2>1, Zenon
  <2> QED
    BY <1>1, <1>4, <2>2
<1>5. ASSUME NEW t \in Tip, InitializeOneTimeTipLiability(t)
      PROVE  x - w <= d - c
  <2> DEFINE l == [available |-> 0, spent |-> 0]
  <2>1. liability' = [liability EXCEPT ![t] = l] /\ liability[t] = None /\ Settled' = Settled
    BY <1>5 DEF InitializeOneTimeTipLiability, governed, Settled
  <2>2. Available(liability[t]) = 0 /\ Available(l) = 0
    BY <2>1 DEF Available
  <2> HIDE DEF l
  <2>3. Withdrawable' = Withdrawable - Available(liability[t]) + Available(l)
    BY <1>0, <2>1, WithdrawableOfChanged
  <2> QED
    BY <1>a, <1>b, <1>0, <2>1, <2>2, <2>3
<1>6. ASSUME NEW t \in LegacyTip, NEW a \in Amount, InitializeTcapTipLiability(t, a)
      PROVE  x - w <= d - c
  <2> DEFINE l == [available |-> a, spent |-> 0]
  <2>0. a \in Nat
    BY DEF Amount
  <2>1. liability' = [liability EXCEPT ![t] = l] /\ liability[t] = None
    BY <1>6 DEF InitializeTcapTipLiability
  <2>2. Available(liability[t]) = 0 /\ (l # None => Available(l) = a)
    BY <2>1 DEF Available
  <2>3. l # None
    BY <1>0, <2>0 DEF Liability
  <2> HIDE DEF l
  <2>4. Withdrawable' = Withdrawable - Available(liability[t]) + Available(l)
    BY <1>0, <2>1, WithdrawableOfChanged
  <2>5. Settled' = Settled + a
    <3>1. reserve \in Reserve /\ reserve'.settled = reserve.settled + a
      BY <1>0, <1>6 DEF InitializeTcapTipLiability, Reserve
    <3>2. reserve' # None
      <4>1. reserve.settled + a \in Nat
        BY <2>0, <3>1 DEF Reserve
      <4>2. reserve' \in Reserve
        BY <1>6, <3>1, <4>1, RecordTypes DEF InitializeTcapTipLiability
      <4> QED
        BY <1>0, <4>2
    <3> QED
      BY <1>0, <3>1, <3>2 DEF Settled
  <2> QED
    BY <1>a, <1>b, <1>0, <2>0, <2>2, <2>3, <2>4, <2>5
<1>7. ASSUME NEW a \in Amount, reserve # None,
             \/ /\ reserve.pending_liabilities >= a
                /\ reserve' = [reserve EXCEPT !.pending_liabilities = @ - a, !.settled = @ + a]
             \/ /\ reserve.transfer_pending >= a
                /\ reserve' = [reserve EXCEPT !.transfer_pending = @ - a, !.settled = @ + a]
      PROVE  Settled' = Settled + a
  <2>0. a \in Nat /\ reserve \in Reserve /\ reserve.settled + a \in Nat
    BY <1>0, <1>7 DEF Amount, Reserve
  <2>1. reserve'.settled = reserve.settled + a
    BY <1>7, <2>0 DEF Reserve
  <2>2. reserve' # None
    <3>1. CASE /\ reserve.pending_liabilities >= a
               /\ reserve' = [reserve EXCEPT !.pending_liabilities = @ - a, !.settled = @ + a]
      <4>1. reserve.pending_liabilities - a \in Nat
        BY <2>0, <3>1 DEF Reserve
      <4>2. reserve' \in Reserve
        BY <2>0, <3>1, <4>1, RecordTypes
      <4> QED
        BY <1>0, <4>2
    <3>2. CASE /\ reserve.transfer_pending >= a
               /\ reserve' = [reserve EXCEPT !.transfer_pending = @ - a, !.settled = @ + a]
      <4>1. reserve.transfer_pending - a \in Nat
        BY <2>0, <3>2 DEF Reserve
      <4>2. reserve' \in Reserve
        BY <2>0, <3>2, <4>1, RecordTypes
      <4> QED
        BY <1>0, <4>2
    <3> QED
      BY <1>7, <3>1, <3>2
  <2> QED
    BY <1>7, <2>1, <2>2 DEF Settled
<1>8. ASSUME NEW t \in Tip, NEW s, NEW a \in Amount,
             CreditOneTimeTip(t, s, a) \/ CreditOneTimeTipTransfer(t, s, a)
      PROVE  x - w <= d - c
  <2> DEFINE l == [liability[t] EXCEPT !.available = @ + a]
  <2>0. a \in Nat
    BY DEF Amount
  <2>1. liability[t] \in Liability /\ liability' = [liability EXCEPT ![t] = l]
    BY <1>0, <1>8 DEF CreditOneTimeTip, CreditOneTimeTipTransfer
  <2>2. l \in Liability /\ l.available = liability[t].available + a
    BY <2>0, <2>1 DEF Liability
  <2> HIDE DEF l
  <2>3. Withdrawable' = Withdrawable - Available(liability[t]) + Available(l)
    BY <1>0, <2>1, WithdrawableOfChanged
  <2>4. liability[t].available \in Nat /\ Available(liability[t]) = liability[t].available
        /\ Available(l) = liability[t].available + a
    BY <1>0, <2>1, <2>2 DEF Available, Liability
  <2>5. Settled' = Settled + a
    BY <1>7, <1>8 DEF CreditOneTimeTip, CreditOneTimeTipTransfer
  <2> QED
    BY <1>a, <1>b, <1>0, <2>0, <2>3, <2>4, <2>5
<1>9. ASSUME NEW s, NEW a \in Amount, CreditGpruMemo(s, a)
      PROVE  x - w <= d - c
  <2>1. Settled' = Settled + a
    BY <1>7, <1>9 DEF CreditGpruMemo
  <2>2. a \in Nat
    BY DEF Amount
  <2> QED
    BY <1>a, <1>b, <1>1, <1>9, <2>1, <2>2 DEF CreditGpruMemo
<1>10. ASSUME NEW t \in Tip, NEW s, NEW n, NEW a \in Amount, DebitExit(t, s, n, a)
       PROVE  x - w <= d - c
  <2> DEFINE l == [liability[t] EXCEPT !.available = @ - a, !.spent = @ + a]
  <2>0. a \in Nat
    BY DEF Amount
  <2>1. /\ liability[t] \in Liability /\ liability' = [liability EXCEPT ![t] = l]
        /\ liability[t].available >= a /\ reserve \in Reserve /\ reserve.settled >= a
    BY <1>0, <1>10 DEF DebitExit
  <2>2. l \in Liability /\ l.available = liability[t].available - a
    <3>1. liability[t].available - a \in Nat /\ liability[t].spent + a \in Nat
      BY <2>0, <2>1 DEF Liability
    <3>2. l \in Liability
      BY <2>1, <3>1, LiabilityTypes
    <3> QED
      BY <2>1, <3>2 DEF Liability
  <2> HIDE DEF l
  <2>3. Withdrawable' = Withdrawable - Available(liability[t]) + Available(l)
    BY <1>0, <2>1, WithdrawableOfChanged
  <2>4. liability[t].available \in Nat /\ Available(liability[t]) = liability[t].available
        /\ Available(l) = liability[t].available - a
    BY <1>0, <2>1, <2>2 DEF Available, Liability
  <2>5. Settled' = Settled - a
    <3>1. reserve.settled - a \in Nat
      BY <2>0, <2>1 DEF Reserve
    <3>2. reserve' \in Reserve /\ reserve'.settled = reserve.settled - a
      BY <1>10, <2>1, <3>1, RecordTypes DEF DebitExit, Reserve
    <3> QED
      BY <1>0, <2>1, <3>2 DEF Settled
  <2> QED
    BY <1>a, <1>b, <1>0, <2>0, <2>3, <2>4, <2>5
<1>11. ASSUME NEW n \in Nonce, PayoutExit(n)
       PROVE  x - w <= d - c
  <2>1. reserve \in Reserve /\ permit[n].amount \in Nat /\ vault - permit[n].amount \in Nat
    <3>1. permit[n] \in Permit /\ vault \in Nat /\ vault >= permit[n].amount /\ reserve \in Reserve
      BY <1>0, <1>11 DEF PayoutExit, GTypeOK, TcapTypeOK
    <3> QED
      BY <3>1 DEF Permit
  <2>2. reserve' \in Reserve
    BY <1>11, <2>1, RecordTypes DEF PayoutExit
  <2>3. reserve'.settled = reserve.settled
    BY <1>11, <2>1 DEF PayoutExit, Reserve
  <2>4. Settled' = Settled
    BY <1>0, <2>1, <2>2, <2>3 DEF Settled
  <2>5. d = c
    BY <1>a, <2>4, Zenon
  <2> QED
    BY <1>1, <1>11, <2>5 DEF PayoutExit
<1>12. ASSUME NEW a, NEW t, NEW s, NEW next,
              \/ Donate(a) \/ InitializeOneTimeTip(t) \/ ConsumeOneTimeTip(t, s, next)
              \/ ActivateCommitmentRoot \/ UNCHANGED vars
       PROVE  UNCHANGED <<reserve, liability>>
  BY <1>12 DEF Donate, InitializeOneTimeTip, ConsumeOneTimeTip, ActivateCommitmentRoot, governed,
               tips, vars
<1>13. ASSUME NEW a \in Amount, NEW from, NEW i, NEW nonce,
              DepositAsset(a) \/ DepositWithFundingCommitment(from, i, nonce, a)
       PROVE  x - w <= d - c
  BY <1>3, <1>13 DEF DepositAsset, DepositWithFundingCommitment
<1> QED
  BY <1>2, <1>4, <1>5, <1>6, <1>8, <1>9, <1>10, <1>11, <1>12, <1>13 DEF Next

(* All that TIPs may withdraw is counted as settled: the record refuses no *)
(* exit that the TIP can afford.                                           *)
THEOREM LiabilitiesStayCounted == Spec => []LiabilitiesAreCounted
<1>1. Init => LiabilitiesAreCounted
  BY WithdrawableAtFirst, InitType, SettledTypes DEF LiabilitiesAreCounted, Settled
<1>2. TInv /\ TInv' /\ LiabilitiesAreCounted /\ [Next]_vars => LiabilitiesAreCounted'
  <2> SUFFICES ASSUME TInv, TInv', LiabilitiesAreCounted, [Next]_vars
               PROVE  LiabilitiesAreCounted'
    OBVIOUS
  <2> QED
    BY CountedStep DEF TInv, LiabilitiesAreCounted, Settled
<1> QED
  BY <1>1, <1>2, TInvariant, PTL DEF Spec
=============================================================================
