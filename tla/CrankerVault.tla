----------------------------- MODULE CrankerVault -----------------------------
(***************************************************************************)
(* The liquidity vault of a Cranker in the escrow program: what funding it *)
(* and withdrawing from it do to one vault, as operators on a vault        *)
(* record.                                                                 *)
(*                                                                         *)
(* A vault keeps its account's totals (`liquidity', `shares'), the shares  *)
(* of each funder (LiquidityPosition.principal_amount) and the tokens its  *)
(* token account really holds.  No instruction writes reserved_liquidity,  *)
(* which stays 0, or reads total_withdrawn: both are left out.             *)
(***************************************************************************)
EXTENDS Integers, FiniteSets, Functions

CONSTANTS Funder   \* wallet addresses

(* An address is 32 bytes.                                                 *)
ASSUME FunderAssumption == IsFiniteSet(Funder)

VaultAccount == [liquidity : Nat, shares : Nat, rewards : Nat, tokens : Nat,
                 position : [Funder -> Nat]]
EmptyVault == [liquidity |-> 0, shares |-> 0, rewards |-> 0, tokens |-> 0,
               position |-> [f \in Funder |-> 0]]

TotalPosition(v) == SumFunction(v.position)

-----------------------------------------------------------------------------
(* fund_cranker: shares at the price of the assets, rounded down.          *)

Minted(v, amount) ==
  IF v.shares = 0 THEN amount ELSE (amount * v.shares) \div v.liquidity

CanFund(v, amount) ==
  /\ (v.shares = 0) <=> (v.liquidity = 0)
  /\ Minted(v, amount) > 0

Funded(v, f, amount) ==
  [v EXCEPT !.tokens = @ + amount,
            !.liquidity = @ + amount,
            !.shares = @ + Minted(v, amount),
            !.position[f] = @ + Minted(v, amount)]

-----------------------------------------------------------------------------
(* withdraw_cranker_funds: the shares burned are rounded up.  The account  *)
(* must mirror its tokens exactly.                                         *)

MaxWithdrawable(v, f) == (v.position[f] * v.liquidity) \div v.shares

(* Slip: one unit too many before the division.                            *)
BurnedOneUp(v, amount) == (amount * v.shares + v.liquidity) \div v.liquidity
Burned(v, amount) == (amount * v.shares + v.liquidity - 1) \div v.liquidity

CanWithdraw(v, f, amount) ==
  /\ amount > 0
  /\ v.tokens = v.liquidity
  /\ v.shares > 0
  /\ amount <= MaxWithdrawable(v, f)
  /\ amount <= v.liquidity
  /\ Burned(v, amount) <= v.position[f]

Withdrawn(v, f, amount) ==
  [v EXCEPT !.tokens = @ - amount,
            !.liquidity = @ - amount,
            !.shares = @ - Burned(v, amount),
            !.position[f] = @ - Burned(v, amount)]

-----------------------------------------------------------------------------
(* What a payout and its reimbursement leave in the vault: the liquidity   *)
(* goes down and up by the amount in one instruction, and the fee is only  *)
(* counted, never brought in.                                              *)

CanPay(v, amount) == v.tokens >= amount /\ v.liquidity >= amount
Paid(v, amount, fee) ==
  [v EXCEPT !.liquidity = (@ - amount) + amount,
            !.tokens = (@ - amount) + amount,
            !.rewards = @ + fee]

=============================================================================
