------------------------------ MODULE TcapReserve ------------------------------
(***************************************************************************)
(* The money of one asset of the TCAP program: deposits into its vault,    *)
(* with and without a funding claim, credits to TIPs, exits in two         *)
(* instructions (the debit makes a permit, the payout redeems it), and the *)
(* reserve record kept beside the vault.  Anyone may also send tokens to   *)
(* the vault without an instruction of the program.                        *)
(*                                                                         *)
(* Hashes, seals, signatures and validity windows are left out: a change   *)
(* of a TIP names the TIP and its next sequence number, which is what the  *)
(* permit it is checked against binds.  The accounts given to an           *)
(* instruction belong together.                                            *)
(***************************************************************************)
EXTENDS TcapGovernance, FiniteSets, Functions, Sequences

CONSTANTS
  Depositor,
  Identifier,     \* funding identifiers
  Tip,            \* one-time TIPs
  LegacyTip,      \* TIPs of the first version
  Nonce,          \* nonces of exit permits
  SequenceBound   \* bound: sequence numbers of a TIP and of the root

VARIABLES
  nextNonce,   \* depositor -> the nonce its next funding must carry
  claim,       \* funding identifier -> its claim
  chain,       \* the funding root: what it commits to, in order
  tip,         \* TIP -> its account
  liability,   \* TIP -> what the asset owes it
  permit,      \* nonce -> exit permit
  root,        \* sequence number of the commitment root, None until activated
  exiting,     \* history: amount authorised by permits not paid out
  seeded,      \* history: liabilities governance created without a deposit
  changes      \* history: TIP, sequence number -> changes made under it

claims == <<nextNonce, claim, chain>>
tips == <<tip, liability, permit, root, exiting, seeded, changes>>
vars == <<governed, claims, tips>>

Amount == 1..SupplyBound
Claim == [depositor : Depositor, amount : Nat, nonce : Nat, sequence : Nat]
TipAccount == [sequence : Nat, consumed : BOOLEAN]
Liability == [available : Nat, spent : Nat]
Permit == [tip : Tip, amount : Nat, sequence : Nat, consumed : BOOLEAN]

ASSUME ReserveAssumption ==
  /\ SequenceBound \in Nat
  /\ IsFiniteSet(Tip \cup LegacyTip)
  /\ Tip \cap LegacyTip = {}
  /\ None \notin Claim /\ None \notin TipAccount /\ None \notin Liability /\ None \notin Permit

Init ==
  /\ GInit
  /\ nextNonce = [d \in Depositor |-> 0]
  /\ claim = [i \in Identifier |-> None]
  /\ chain = <<>>
  /\ tip = [t \in Tip |-> None]
  /\ liability = [t \in Tip \cup LegacyTip |-> None]
  /\ permit = [n \in Nonce |-> None]
  /\ root = None
  /\ exiting = 0 /\ seeded = 0
  /\ changes = [t \in Tip |-> [s \in 1..SequenceBound |-> 0]]

-----------------------------------------------------------------------------
(* Into the vault.                                                         *)

Tradable ==
  /\ entry # None
  /\ entry.status = "Active" /\ entry.risk_state = "Approved"
  /\ ~entry.paused /\ ~entry.deprecated

AcceptsDeposits ==
  /\ Tradable /\ entry.deposits_enabled
  /\ reserve # None /\ reserve.funding_enabled /\ ~reserve.paused
  /\ vault # None

TakeDeposit(a) ==
  /\ AcceptsDeposits
  /\ reserve.actual_assets = vault
  /\ vault + a <= SupplyBound
  /\ vault' = vault + a
  /\ reserve' = [reserve EXCEPT !.actual_assets = vault + a, !.pending_liabilities = @ + a]
  /\ UNCHANGED <<policy, entry, mintMatches>>

DepositAsset(a) ==
  /\ TakeDeposit(a)
  /\ UNCHANGED <<claims, tips>>

(* Slip: the nonce is compared but not advanced.                           *)
ValidateNonceOnly(d, nonce) ==
  /\ nonce = nextNonce[d]
  /\ UNCHANGED nextNonce

validate_and_advance_funding_nonce(d, nonce) ==
  /\ nonce = nextNonce[d]
  /\ nextNonce' = [nextNonce EXCEPT ![d] = nonce + 1]

DepositWithFundingCommitment(d, i, nonce, a) ==
  /\ claim[i] = None
  /\ validate_and_advance_funding_nonce(d, nonce)
  /\ TakeDeposit(a)
  /\ claim' = [claim EXCEPT ![i] =
       [depositor |-> d, amount |-> a, nonce |-> nonce, sequence |-> Len(chain) + 1]]
  /\ chain' = Append(chain, i)
  /\ UNCHANGED tips

Donate(a) ==
  /\ vault # None
  /\ vault + a <= SupplyBound
  /\ vault' = vault + a
  /\ UNCHANGED <<policy, entry, reserve, mintMatches, claims, tips>>

-----------------------------------------------------------------------------
(* TIPs and what they are owed.                                            *)

InitializeOneTimeTip(t) ==
  /\ tip[t] = None
  /\ tip' = [tip EXCEPT ![t] = [sequence |-> 0, consumed |-> FALSE]]
  /\ UNCHANGED <<governed, claims, liability, permit, root, exiting, seeded, changes>>

InitializeOneTimeTipLiability(t) ==
  /\ tip[t] # None /\ liability[t] = None
  /\ Tradable
  /\ reserve # None
  /\ liability' = [liability EXCEPT ![t] = [available |-> 0, spent |-> 0]]
  /\ UNCHANGED <<governed, claims, tip, permit, root, exiting, seeded, changes>>

(* Governance carries a balance of the first version over.                 *)
InitializeTcapTipLiability(t, a) ==
  /\ liability[t] = None
  /\ entry # None /\ reserve # None
  /\ reserve.actual_assets >= reserve.settled + a
  /\ liability' = [liability EXCEPT ![t] = [available |-> a, spent |-> 0]]
  /\ reserve' = [reserve EXCEPT !.settled = @ + a]
  /\ seeded' = seeded + a
  /\ UNCHANGED <<policy, entry, vault, mintMatches, claims, tip, permit, root, exiting, changes>>

(* Slip: only the number used last is refused.                             *)
AdvanceToAnother(t, s, consumed) ==
  /\ tip[t] # None
  /\ s # tip[t].sequence
  /\ tip' = [tip EXCEPT ![t] = [sequence |-> s, consumed |-> consumed]]
  /\ changes' = [changes EXCEPT ![t][s] = @ + 1]

(* A change of a TIP carries the number after the TIP's.                   *)
Advance(t, s, consumed) ==
  /\ tip[t] # None
  /\ s = tip[t].sequence + 1
  /\ tip' = [tip EXCEPT ![t] = [sequence |-> s, consumed |-> consumed]]
  /\ changes' = [changes EXCEPT ![t][s] = @ + 1]

CreditOneTimeTip(t, s, a) ==
  /\ Tradable
  /\ reserve # None /\ liability[t] # None
  /\ Advance(t, s, FALSE)
  /\ reserve.pending_liabilities >= a
  /\ reserve.actual_assets >= reserve.settled + a
  /\ reserve' = [reserve EXCEPT !.pending_liabilities = @ - a, !.settled = @ + a]
  /\ liability' = [liability EXCEPT ![t].available = @ + a]
  /\ UNCHANGED <<policy, entry, vault, mintMatches, claims, permit, root, exiting, seeded>>

(* The transfers that fill transfer_pending are closed: it only empties.   *)
CreditOneTimeTipTransfer(t, s, a) ==
  /\ Tradable
  /\ reserve # None /\ liability[t] # None
  /\ Advance(t, s, FALSE)
  /\ ~tip[t].consumed /\ tip[t].sequence > 0
  /\ reserve.transfer_pending >= a
  /\ reserve.actual_assets >= reserve.settled + reserve.transfer_pending
  /\ reserve' = [reserve EXCEPT !.transfer_pending = @ - a, !.settled = @ + a]
  /\ liability' = [liability EXCEPT ![t].available = @ + a]
  /\ UNCHANGED <<policy, entry, vault, mintMatches, claims, permit, root, exiting, seeded>>

ConsumeOneTimeTip(t, s, next) ==
  /\ tip[t] # None /\ ~tip[t].consumed
  /\ tip[next] = None
  /\ s = tip[t].sequence + 1
  /\ tip' = [tip EXCEPT ![t] = [sequence |-> s, consumed |-> TRUE],
                        ![next] = [sequence |-> s, consumed |-> FALSE]]
  /\ changes' = [changes EXCEPT ![t][s] = @ + 1]
  /\ UNCHANGED <<governed, claims, liability, permit, root, exiting, seeded>>

-----------------------------------------------------------------------------
(* The commitment root, and credits to it that name no TIP.                *)

ActivateCommitmentRoot ==
  /\ root = None
  /\ root' = 0
  /\ UNCHANGED <<governed, claims, tip, liability, permit, exiting, seeded, changes>>

CreditGpruMemo(s, a) ==
  /\ Tradable
  /\ reserve # None /\ ~reserve.paused
  /\ root # None /\ s = root + 1
  /\ reserve.pending_liabilities >= a
  /\ reserve.actual_assets >= total_liabilities
  /\ root' = s
  /\ reserve' = [reserve EXCEPT !.pending_liabilities = @ - a, !.settled = @ + a]
  /\ UNCHANGED <<policy, entry, vault, mintMatches, claims, tip, liability, permit, exiting,
                 seeded, changes>>

-----------------------------------------------------------------------------
(* Out of the vault: neither instruction asks for the asset's status.      *)

(* Slip: the TIP's balance stays.                                          *)
DebitExitOfReserve(t, s, n, a) ==
  /\ reserve # None /\ liability[t] # None
  /\ permit[n] = None
  /\ tip[t] # None
  /\ Advance(t, s, tip[t].consumed)
  /\ liability[t].available >= a
  /\ reserve.settled >= a
  /\ permit' = [permit EXCEPT ![n] = [tip |-> t, amount |-> a, sequence |-> s, consumed |-> FALSE]]
  /\ liability' = [liability EXCEPT ![t].spent = @ + a]
  /\ reserve' = [reserve EXCEPT !.settled = @ - a]
  /\ exiting' = exiting + a
  /\ UNCHANGED <<policy, entry, vault, mintMatches, claims, root, seeded>>

(* Slip: the reserve's liabilities stay.                                   *)
DebitExitOfTip(t, s, n, a) ==
  /\ reserve # None /\ liability[t] # None
  /\ permit[n] = None
  /\ tip[t] # None
  /\ Advance(t, s, tip[t].consumed)
  /\ liability[t].available >= a
  /\ permit' = [permit EXCEPT ![n] = [tip |-> t, amount |-> a, sequence |-> s, consumed |-> FALSE]]
  /\ liability' = [liability EXCEPT ![t].available = @ - a, ![t].spent = @ + a]
  /\ exiting' = exiting + a
  /\ UNCHANGED <<policy, entry, reserve, vault, mintMatches, claims, root, seeded>>

DebitExit(t, s, n, a) ==
  /\ reserve # None /\ liability[t] # None
  /\ permit[n] = None
  /\ tip[t] # None
  /\ Advance(t, s, tip[t].consumed)
  /\ liability[t].available >= a
  /\ reserve.settled >= a
  /\ permit' = [permit EXCEPT ![n] = [tip |-> t, amount |-> a, sequence |-> s, consumed |-> FALSE]]
  /\ liability' = [liability EXCEPT ![t].available = @ - a, ![t].spent = @ + a]
  /\ reserve' = [reserve EXCEPT !.settled = @ - a]
  /\ exiting' = exiting + a
  /\ UNCHANGED <<policy, entry, vault, mintMatches, claims, root, seeded>>

PayoutExit(n) ==
  /\ permit[n] # None /\ ~permit[n].consumed
  /\ entry # None /\ reserve # None /\ vault # None
  /\ vault >= permit[n].amount
  /\ vault' = vault - permit[n].amount
  /\ reserve' = [reserve EXCEPT !.actual_assets = vault - permit[n].amount]
  /\ permit' = [permit EXCEPT ![n].consumed = TRUE]
  /\ exiting' = exiting - permit[n].amount
  /\ UNCHANGED <<policy, entry, mintMatches, claims, tip, liability, root, seeded, changes>>

-----------------------------------------------------------------------------
Govern == GNext /\ UNCHANGED <<claims, tips>>

Next ==
  \/ Govern
  \/ ActivateCommitmentRoot
  \/ \E n \in Nonce : PayoutExit(n)
  \/ \E t \in Tip : InitializeOneTimeTip(t) \/ InitializeOneTimeTipLiability(t)
  \/ \E a \in Amount :
       \/ DepositAsset(a) \/ Donate(a)
       \/ \E d \in Depositor, i \in Identifier, nonce \in 0..Len(chain) :
            DepositWithFundingCommitment(d, i, nonce, a)
       \/ \E t \in LegacyTip : InitializeTcapTipLiability(t, a)
       \/ \E s \in 1..SequenceBound :
            \/ CreditGpruMemo(s, a)
            \/ \E t \in Tip : CreditOneTimeTip(t, s, a) \/ CreditOneTimeTipTransfer(t, s, a)
            \/ \E t \in Tip, n \in Nonce : DebitExit(t, s, n, a)
  \/ \E s \in 1..SequenceBound, t, next \in Tip : ConsumeOneTimeTip(t, s, next)

Spec == Init /\ [][Next]_vars

-----------------------------------------------------------------------------
(* Properties.                                                             *)

(* Every account is absent or a record of its type.                        *)
TcapTypeOK ==
  /\ GTypeOK
  /\ nextNonce \in [Depositor -> Nat]
  /\ claim \in [Identifier -> Claim \cup {None}]
  /\ chain \in Seq(Identifier)
  /\ tip \in [Tip -> TipAccount \cup {None}]
  /\ liability \in [Tip \cup LegacyTip -> Liability \cup {None}]
  /\ permit \in [Nonce -> Permit \cup {None}]
  /\ root \in Nat \cup {None}
  /\ exiting \in Int /\ seeded \in Nat
  /\ changes \in [Tip -> [1..SequenceBound -> Nat]]

(* A deposit instruction reads the asset entry and the reserve, never the  *)
(* policy (deposit_asset_v2.rs passes a default key for it).  Once the     *)
(* asset has a policy, what they accept is what the policy accepts: no     *)
(* order of migration, activation, pauses and revocation leaves an entry   *)
(* or a reserve open that the policy has closed.                           *)
DepositsFollowPolicy == policy # None /\ AcceptsDeposits => accepted_for_deposits

(* The record never claims more than the vault holds, whatever is donated  *)
(* in between (reconcile_donated_vault_assets: a loss "must never be       *)
(* hidden").                                                               *)
VaultCoversRecord == reserve # None /\ vault # None => reserve.actual_assets <= vault

(* What is owed, the exits authorised but not paid included, is in the     *)
(* vault or was promised by governance without a deposit.  The reserve's   *)
(* own record forgets an exit between its debit and its payout.            *)
Held == IF vault = None THEN 0 ELSE vault
Owed == exiting + IF reserve = None THEN 0 ELSE total_liabilities
Backed == Owed <= Held + seeded

(* All that TIPs may withdraw is counted as settled, so that the record    *)
(* never refuses an exit the TIP can afford (the checked subtraction of    *)
(* debit_tcap_exit_v1).                                                    *)
Withdrawable ==
  SumFunction([t \in Tip \cup LegacyTip |->
                 IF liability[t] = None THEN 0 ELSE liability[t].available])
LiabilitiesAreCounted == Withdrawable <= IF reserve = None THEN 0 ELSE reserve.settled

(* The funding root commits to every claim once, at the place the claim    *)
(* names, and to each depositor's claims in the order of their nonces.     *)
ClaimsChained ==
  /\ \A i \in Identifier :
       claim[i] # None => claim[i].sequence \in DOMAIN chain /\ chain[claim[i].sequence] = i
  /\ \A k \in DOMAIN chain :
       /\ claim[chain[k]] # None /\ claim[chain[k]].sequence = k
       /\ claim[chain[k]].nonce < nextNonce[claim[chain[k]].depositor]
  /\ \A j, k \in DOMAIN chain :
       j < k /\ claim[chain[j]].depositor = claim[chain[k]].depositor
         => claim[chain[j]].nonce < claim[chain[k]].nonce

(* An authorization binds a TIP and a sequence number: whichever of the    *)
(* credits, the consumption and the exit takes the number, no second one   *)
(* runs under it, in any order and with any repetition of the calls.       *)
AuthorizedChangeOnce == \A t \in Tip : \A s \in 1..SequenceBound : changes[t][s] <= 1

(* A revoked approval and a deprecation are for good, and from then on     *)
(* nothing more is taken in.                                               *)
Retired ==
  policy # None /\ (policy.approval_status = "Revoked" \/ policy.deprecated_irreversible)
TakenIn == IF reserve = None THEN 0 ELSE reserve.pending_liabilities
RetiredForGood == [][Retired => Retired' /\ TakenIn' <= TakenIn]_vars

(* The instructions implement the custody promised: what leaves the vault  *)
(* was owed, and is owed no longer.                                        *)
Custody == INSTANCE TcapCustody WITH held <- Held, owed <- Owed, promised <- seeded
CustodyKept == Custody!Spec
=============================================================================
