----------------------------- MODULE EpochTreasury -----------------------------
(***************************************************************************)
(* The epoch settlement instructions of the escrow program: treasuries     *)
(* funded per mint, one voucher (SettlementDna) per payment slot, and the  *)
(* payout or refund that resolves a slot once.                             *)
(*                                                                         *)
(* A payout is paid from a Cranker's vault and reimbursed from the         *)
(* treasury of its mint in one instruction; a refund is paid from a        *)
(* treasury.  Both take a permit of the Node.  Funding names no slot: a    *)
(* treasury knows only what it owes in all.                                *)
(*                                                                         *)
(* The Node signs payout permits for the terms of any voucher there ever   *)
(* was, refund permits for those terms and any mint.  The epoch of the     *)
(* escrow is never advanced, so a treasury that was closed is opened again *)
(* under the same address.                                                 *)
(***************************************************************************)
EXTENDS CrankerVault, Sequences

CONSTANTS
  None,
  Mint, Slot, Cranker, Vault,
  CrankerOf,      \* Vault -> Cranker
  MintOf,         \* Vault -> Mint
  OperatorOf,     \* Cranker -> Funder: the wallet that operates it
  AmountBound,    \* bound: the largest amount of an instruction
  FundBound,      \* bound: the tokens a treasury or vault is brought to
  FeeBound,       \* bound: the fees a vault counts
  VoucherBound,   \* bound: vouchers of a slot
  TimeBound       \* bound: the clock

ASSUME EscrowAssumption ==
  /\ CrankerOf \in [Vault -> Cranker] /\ MintOf \in [Vault -> Mint]
  /\ OperatorOf \in [Cranker -> Funder]
  /\ AmountBound \in Nat /\ FundBound \in Nat /\ FeeBound \in Nat
  /\ VoucherBound \in Nat /\ TimeBound \in Nat

Amount == 1..AmountBound
Outcome == {"Settled", "Refunded"}
Terms == [vault : Vault, amount : Amount, lease : Nat, expiry : Nat, version : Nat]
Ledger == [pending : Nat, settled : Nat, refunded : Nat, slots : Nat]
Totals == [funded : Nat, pending : Nat, settled : Nat, refunded : Nat, reimbursed : Nat,
           ledger : Ledger]
Payment == [status : Outcome, vault : Vault \cup {None}, amount : Amount, at : Nat]

ASSUME NoneAssumption == None \notin Outcome \cup {"Active", "Consumed"} /\ None \notin Totals

VARIABLES
  now,
  enabled,     \* PrivateSettlementConfig.enabled
  vouchers,    \* slot -> the terms its SettlementDna was given, the last in force
  dna,         \* slot -> status of its SettlementDna, or None
  claims,      \* mint -> slot -> status of its EpochClaimSlot, or None
  treasury,    \* mint -> EpochTreasury with its ledger, or None when there is none
  held,        \* mint -> tokens of the treasury's token account
  vault,       \* Cranker vaults
  open,        \* Cranker -> allow_external_funding
  paid         \* slot -> history: what was paid for it

settlement == <<vouchers, dna, claims, paid>>
vars == <<now, enabled, settlement, treasury, held, vault, open>>

InForce(s) == vouchers[s][Len(vouchers[s])]

NoTotals == [funded |-> 0, pending |-> 0, settled |-> 0, refunded |-> 0, reimbursed |-> 0,
             ledger |-> [pending |-> 0, settled |-> 0, refunded |-> 0, slots |-> 0]]

Init ==
  /\ now = 0 /\ enabled = TRUE
  /\ vouchers = [s \in Slot |-> <<>>]
  /\ dna = [s \in Slot |-> None]
  /\ claims = [m \in Mint |-> [s \in Slot |-> None]]
  /\ treasury = [m \in Mint |-> None]
  /\ held = [m \in Mint |-> 0]
  /\ vault = [v \in Vault |-> EmptyVault]
  /\ open = [c \in Cranker |-> TRUE]
  /\ paid = [s \in Slot |-> <<>>]

-----------------------------------------------------------------------------
(* Treasuries.                                                             *)

(* The first funding of a mint opens its treasury and ledger.              *)
Opened(m) == IF treasury[m] = None THEN NoTotals ELSE treasury[m]

LedgerCredited(g, amount) == [g EXCEPT !.pending = @ + amount]
Credited(t, amount) ==
  [t EXCEPT !.funded = @ + amount, !.pending = @ + amount,
            !.ledger = LedgerCredited(@, amount)]

fund_epoch_treasury(m, amount) ==
  /\ held[m] + amount <= FundBound
  /\ held' = [held EXCEPT ![m] = @ + amount]
  /\ treasury' = [treasury EXCEPT ![m] = Credited(Opened(m), amount)]
  /\ UNCHANGED <<now, enabled, settlement, vault, open>>

CanClose(m) ==
  /\ treasury[m] # None
  /\ treasury[m].pending = 0
  /\ treasury[m].reimbursed = treasury[m].settled
  /\ held[m] = 0

close_epoch_treasury(m) ==
  /\ CanClose(m)
  /\ treasury' = [treasury EXCEPT ![m] = None]
  /\ UNCHANGED <<now, enabled, settlement, held, vault, open>>

-----------------------------------------------------------------------------
(* Vouchers.                                                               *)

Replaceable(s) ==
  \/ dna[s] = None
  \/ dna[s] = "Active" /\ now > InForce(s).lease

create_settlement_dna(s, v, amount, lease, expiry) ==
  /\ expiry > now /\ expiry <= lease
  /\ Replaceable(s)
  /\ Len(vouchers[s]) < VoucherBound
  /\ vouchers' = [vouchers EXCEPT ![s] = Append(@,
        [vault |-> v, amount |-> amount, lease |-> lease, expiry |-> expiry,
         version |-> Len(@) + 1])]
  /\ dna' = [dna EXCEPT ![s] = "Active"]
  /\ UNCHANGED <<now, enabled, claims, treasury, held, vault, open, paid>>

-----------------------------------------------------------------------------
(* The two ways to resolve a slot.                                         *)

Permits(s) == {vouchers[s][n] : n \in 1..Len(vouchers[s])}

Owes(m, amount) ==
  /\ treasury[m] # None
  /\ treasury[m].pending >= amount /\ treasury[m].ledger.pending >= amount
  /\ held[m] >= amount

(* The claim slot is an account of the treasury's address and the slot.    *)
Unclaimed(m, s) == claims[m][s] = None

Resolve(m, s, status, v, amount) ==
  /\ claims' = [claims EXCEPT ![m][s] = status]
  /\ dna' = [dna EXCEPT ![s] = "Consumed"]
  /\ paid' = [paid EXCEPT ![s] =
                Append(@, [status |-> status, vault |-> v, amount |-> amount, at |-> now])]
  /\ UNCHANGED vouchers

(* Slip: the payment may wait as long as the lease runs.                   *)
RunsWithLease(p) == now <= p.lease
Runs(p) == now <= p.expiry /\ p.expiry <= p.lease

Vouches(s, p, v) == dna[s] = "Active" /\ InForce(s) = p /\ p.vault = v

LedgerSettled(g, amount) ==
  [g EXCEPT !.pending = @ - amount, !.settled = @ + amount, !.slots = @ + 1]

(* Slip: the reimbursement is not counted.                                 *)
SettledUnreimbursed(t, amount) ==
  [t EXCEPT !.pending = @ - amount, !.settled = @ + amount,
            !.ledger = LedgerSettled(@, amount)]
Settled(t, amount) ==
  [t EXCEPT !.pending = @ - amount, !.settled = @ + amount, !.reimbursed = @ + amount,
            !.ledger = LedgerSettled(@, amount)]

execute_private_payout(s, p, v, fee) ==
  LET m == MintOf[v]
  IN /\ enabled
     /\ Runs(p)
     /\ Owes(m, p.amount)
     /\ CanPay(vault[v], p.amount)
     /\ Unclaimed(m, s)
     /\ Vouches(s, p, v)
     /\ vault[v].rewards + fee <= FeeBound
     /\ held' = [held EXCEPT ![m] = @ - p.amount]
     /\ treasury' = [treasury EXCEPT ![m] = Settled(@, p.amount)]
     /\ vault' = [vault EXCEPT ![v] = Paid(@, p.amount, fee)]
     /\ Resolve(m, s, "Settled", v, p.amount)
     /\ UNCHANGED <<now, enabled, open>>

(* Slip: the voucher's status is not looked at.                            *)
RefundableAgain(s, p) ==
  /\ dna[s] # None
  /\ now <= p.expiry /\ p.expiry <= InForce(s).expiry
  /\ InForce(s).amount = p.amount /\ InForce(s).version = p.version
Refundable(s, p) ==
  /\ dna[s] = "Active"
  /\ now <= p.expiry /\ p.expiry <= InForce(s).expiry
  /\ InForce(s).amount = p.amount /\ InForce(s).version = p.version

LedgerRefunded(g, amount) ==
  [g EXCEPT !.pending = @ - amount, !.refunded = @ + amount, !.slots = @ + 1]
Refunded(t, amount) ==
  [t EXCEPT !.pending = @ - amount, !.refunded = @ + amount,
            !.ledger = LedgerRefunded(@, amount)]

refund_epoch_claim(s, p, m) ==
  /\ enabled
  /\ Refundable(s, p)
  /\ Unclaimed(m, s)
  /\ Owes(m, p.amount)
  /\ held' = [held EXCEPT ![m] = @ - p.amount]
  /\ treasury' = [treasury EXCEPT ![m] = Refunded(@, p.amount)]
  /\ Resolve(m, s, "Refunded", None, p.amount)
  /\ UNCHANGED <<now, enabled, vault, open>>

-----------------------------------------------------------------------------
(* Cranker vaults.                                                         *)

fund_cranker(v, f, amount) ==
  /\ open[CrankerOf[v]] \/ OperatorOf[CrankerOf[v]] = f
  /\ CanFund(vault[v], amount)
  /\ vault[v].tokens + amount <= FundBound
  /\ vault' = [vault EXCEPT ![v] = Funded(@, f, amount)]
  /\ UNCHANGED <<now, enabled, settlement, treasury, held, open>>

withdraw_cranker_funds(v, f, amount) ==
  /\ CanWithdraw(vault[v], f, amount)
  /\ vault' = [vault EXCEPT ![v] = Withdrawn(@, f, amount)]
  /\ UNCHANGED <<now, enabled, settlement, treasury, held, open>>

set_cranker_funding_policy(c, allow) ==
  /\ open' = [open EXCEPT ![c] = allow]
  /\ UNCHANGED <<now, enabled, settlement, treasury, held, vault>>

-----------------------------------------------------------------------------

configure_private_settlement(on) ==
  /\ enabled' = on
  /\ UNCHANGED <<now, settlement, treasury, held, vault, open>>

(* Anyone may send tokens to a token account.                              *)
Donate ==
  /\ \/ \E m \in Mint :
          /\ held[m] < FundBound
          /\ held' = [held EXCEPT ![m] = @ + 1]
          /\ UNCHANGED vault
     \/ \E v \in Vault :
          /\ vault[v].tokens < FundBound
          /\ vault' = [vault EXCEPT ![v].tokens = @ + 1]
          /\ UNCHANGED held
  /\ UNCHANGED <<now, enabled, settlement, treasury, open>>

Tick ==
  /\ now < TimeBound
  /\ now' = now + 1
  /\ UNCHANGED <<enabled, settlement, treasury, held, vault, open>>

Next ==
  \/ \E m \in Mint, a \in Amount : fund_epoch_treasury(m, a)
  \/ \E m \in Mint : close_epoch_treasury(m)
  \/ \E s \in Slot, v \in Vault, a \in Amount, lease, expiry \in 1..TimeBound + 1 :
       create_settlement_dna(s, v, a, lease, expiry)
  \/ \E s \in Slot, v \in Vault, fee \in 0..FeeBound : \E p \in Permits(s) :
       execute_private_payout(s, p, v, fee)
  \/ \E s \in Slot, m \in Mint : \E p \in Permits(s) : refund_epoch_claim(s, p, m)
  \/ \E v \in Vault, f \in Funder, a \in Amount :
       fund_cranker(v, f, a) \/ withdraw_cranker_funds(v, f, a)
  \/ \E c \in Cranker, b \in BOOLEAN : set_cranker_funding_policy(c, b)
  \/ \E b \in BOOLEAN : configure_private_settlement(b)
  \/ Donate
  \/ Tick

Spec == Init /\ [][Next]_vars

-----------------------------------------------------------------------------
(* Properties.                                                             *)

ETypeOK ==
  /\ now \in Nat /\ enabled \in BOOLEAN
  /\ vouchers \in [Slot -> Seq(Terms)]
  /\ dna \in [Slot -> {"Active", "Consumed", None}]
  /\ claims \in [Mint -> [Slot -> Outcome \cup {None}]]
  /\ treasury \in [Mint -> Totals \cup {None}]
  /\ held \in [Mint -> Nat]
  /\ vault \in [Vault -> VaultAccount]
  /\ open \in [Cranker -> BOOLEAN]
  /\ paid \in [Slot -> Seq(Payment)]

(* A slot is resolved once, whatever treasury resolves it and however      *)
(* often treasuries are closed and opened again: its voucher is consumed   *)
(* exactly if one claim of one treasury stands for it, and that claim is   *)
(* what was paid (the claim slot is tied to the treasury, only the voucher *)
(* to the slot).                                                           *)
SlotResolvedOnce ==
  \A s \in Slot :
    /\ Len(paid[s]) <= 1
    /\ dna[s] = "Consumed" <=> paid[s] # <<>>
    /\ \A m, n \in Mint : claims[m][s] # None /\ claims[n][s] # None => m = n
    /\ paid[s] # <<>> <=> \E m \in Mint : claims[m][s] # None

(* What is paid for a slot has the amount of the voucher in force, and is  *)
(* paid while its authorization runs; a payout comes from the vault the    *)
(* voucher names.  A voucher that was replaced pays nobody, though its     *)
(* permit still exists.                                                    *)
PaidAsVouched ==
  \A s \in Slot : \A n \in DOMAIN paid[s] :
    /\ paid[s][n].amount = InForce(s).amount
    /\ paid[s][n].at <= InForce(s).expiry
    /\ paid[s][n].status = "Settled" => paid[s][n].vault = InForce(s).vault

(* A treasury holds what it owes and accounts for all it was funded with,  *)
(* its ledger agrees with it, and no payout is left to be reimbursed.      *)
TreasuryBacked ==
  \A m \in Mint :
    LET t == treasury[m]
    IN t # None =>
         /\ held[m] >= t.pending
         /\ t.funded = t.pending + t.settled + t.refunded
         /\ t.reimbursed = t.settled
         /\ t.ledger.pending = t.pending
         /\ t.ledger.settled = t.settled /\ t.ledger.refunded = t.refunded

(* A share is worth one token: payouts and their fees never move its       *)
(* price.  So, unless somebody sent tokens to the vault, each funder can   *)
(* withdraw all it put in, in whatever order funders come and go.          *)
WithdrawableInFull ==
  \A v \in Vault :
    /\ vault[v].shares = vault[v].liquidity /\ vault[v].liquidity <= vault[v].tokens
    /\ TotalPosition(vault[v]) = vault[v].shares
    /\ vault[v].tokens = vault[v].liquidity =>
         \A f \in Funder : vault[v].position[f] > 0 =>
            /\ CanWithdraw(vault[v], f, vault[v].position[f])
            /\ Withdrawn(vault[v], f, vault[v].position[f]).position[f] = 0

=============================================================================
