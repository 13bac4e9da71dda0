------------------------------ MODULE EscrowProofs ------------------------------
(***************************************************************************)
(* Proofs about EpochTreasury, for any mints, slots, Crankers, vaults,     *)
(* funders and bounds.                                                     *)
(***************************************************************************)
EXTENDS EpochTreasury, SumLemmas, TLAPS

-----------------------------------------------------------------------------
(* The inductive invariants: one about slots, one about treasuries, one    *)
(* about vaults.                                                           *)

(* What was paid for one slot, and what its voucher and claims say of it.  *)
Unresolved(s) ==
  /\ paid[s] = <<>>
  /\ dna[s] # "Consumed"
  /\ \A m \in Mint : claims[m][s] = None

Resolved(s) ==
  /\ dna[s] = "Consumed"
  /\ Len(paid[s]) = 1
  /\ paid[s][1].amount = InForce(s).amount
  /\ paid[s][1].at <= InForce(s).expiry
  /\ paid[s][1].status = "Settled" => paid[s][1].vault = InForce(s).vault
  /\ \E m \in Mint :
       /\ claims[m][s] # None
       /\ \A n \in Mint : n # m => claims[n][s] = None

SlotInv ==
  /\ now \in Nat
  /\ vouchers \in [Slot -> Seq(Terms)]
  /\ dna \in [Slot -> {"Active", "Consumed", None}]
  /\ claims \in [Mint -> [Slot -> Outcome \cup {None}]]
  /\ paid \in [Slot -> Seq(Payment)]
  /\ \A s \in Slot : (dna[s] = None <=> vouchers[s] = <<>>) /\ (Unresolved(s) \/ Resolved(s))

TreasuryInv ==
  /\ treasury \in [Mint -> Totals \cup {None}]
  /\ held \in [Mint -> Nat]
  /\ TreasuryBacked

(* What makes a share worth one token.                                     *)
AtPar(v) == v.shares = v.liquidity /\ v.liquidity <= v.tokens

(* The shares are those of the funders, and nobody else's.                 *)
Divided(v) == TotalPosition(v) = v.shares

VaultInv ==
  /\ vault \in [Vault -> VaultAccount]
  /\ \A v \in Vault : AtPar(vault[v]) /\ Divided(vault[v])

SwitchTypes == enabled \in BOOLEAN /\ open \in [Cranker -> BOOLEAN]

-----------------------------------------------------------------------------
(* Arithmetic.                                                             *)

(* A product divided by one of its factors.                                *)
LEMMA Quotient ==
  ASSUME NEW x \in Nat, NEW l \in Nat \ {0}
  PROVE  (x * l) \div l = x /\ (x * l + l - 1) \div l = x
<1>1. (x * l) \div l = x
  BY SMTT(30)
<1>2. (x * l + l - 1) \div l = x
  BY SMTT(30)
<1> QED
  BY <1>1, <1>2

(* At par, as many shares are minted for an amount as it has tokens.       *)
LEMMA MintedAtPar ==
  ASSUME NEW v \in VaultAccount, NEW a \in Nat, v.shares = v.liquidity
  PROVE  Minted(v, a) = a
<1> DEFINE l == v.liquidity
<1>1. l \in Nat
  BY DEF VaultAccount
<1>2. CASE l = 0
  BY <1>2 DEF Minted
<1>3. CASE l # 0
  <2>1. (a * l) \div l = a
    BY <1>1, <1>3, Quotient
  <2> QED
    BY <2>1, <1>3 DEF Minted
<1> QED
  BY <1>2, <1>3

(* At par, as many shares are burned for an amount as it has tokens.       *)
LEMMA BurnedAtPar ==
  ASSUME NEW v \in VaultAccount, NEW a \in Nat, v.shares = v.liquidity, v.liquidity # 0
  PROVE  Burned(v, a) = a
<1> DEFINE l == v.liquidity
<1>1. l \in Nat \ {0}
  BY DEF VaultAccount
<1>2. (a * l + l - 1) \div l = a
  BY <1>1, Quotient
<1> QED
  BY <1>2 DEF Burned

-----------------------------------------------------------------------------
(* What the operators on a record return.                                  *)

LEMMA PutLedger ==
  ASSUME NEW g \in Ledger, NEW x \in Nat, NEW y \in Nat, NEW z \in Nat
  PROVE  /\ [g EXCEPT !.pending = x] \in Ledger
         /\ [g EXCEPT !.pending = x, !.settled = y, !.slots = z] \in Ledger
         /\ [g EXCEPT !.pending = x, !.refunded = y, !.slots = z] \in Ledger
BY DEF Ledger

LEMMA PutTotals ==
  ASSUME NEW t \in Totals, NEW x \in Nat, NEW y \in Nat, NEW z \in Nat, NEW g \in Ledger
  PROVE  /\ [t EXCEPT !.funded = x, !.pending = y, !.ledger = g] \in Totals
         /\ [t EXCEPT !.pending = x, !.settled = y, !.reimbursed = z, !.ledger = g] \in Totals
         /\ [t EXCEPT !.pending = x, !.refunded = y, !.ledger = g] \in Totals
BY DEF Totals

LEMMA TotalsAreNumbers ==
  ASSUME NEW t \in Totals
  PROVE  /\ t.funded \in Nat /\ t.pending \in Nat /\ t.settled \in Nat /\ t.refunded \in Nat
         /\ t.reimbursed \in Nat /\ t.ledger \in Ledger
         /\ t.ledger.pending \in Nat /\ t.ledger.settled \in Nat /\ t.ledger.refunded \in Nat
         /\ t.ledger.slots \in Nat
<1>1. t.ledger \in Ledger
  BY DEF Totals
<1> QED
  BY <1>1 DEF Totals, Ledger

LEMMA CreditedType ==
  ASSUME NEW t \in Totals, NEW a \in Nat
  PROVE  Credited(t, a) \in Totals
<1>1. t.funded + a \in Nat /\ t.pending + a \in Nat /\ t.ledger.pending + a \in Nat
  BY TotalsAreNumbers
<1>2. LedgerCredited(t.ledger, a) \in Ledger
  BY <1>1, TotalsAreNumbers, PutLedger DEF LedgerCredited
<1> QED
  BY <1>1, <1>2, PutTotals DEF Credited

LEMMA SettledType ==
  ASSUME NEW t \in Totals, NEW a \in Nat, t.pending >= a, t.ledger.pending >= a
  PROVE  Settled(t, a) \in Totals
<1>1. /\ t.pending - a \in Nat /\ t.settled + a \in Nat /\ t.reimbursed + a \in Nat
      /\ t.ledger.pending - a \in Nat /\ t.ledger.settled + a \in Nat /\ t.ledger.slots + 1 \in Nat
  BY TotalsAreNumbers
<1>2. LedgerSettled(t.ledger, a) \in Ledger
  BY <1>1, TotalsAreNumbers, PutLedger DEF LedgerSettled
<1> QED
  BY <1>1, <1>2, PutTotals DEF Settled

LEMMA RefundedType ==
  ASSUME NEW t \in Totals, NEW a \in Nat, t.pending >= a, t.ledger.pending >= a
  PROVE  Refunded(t, a) \in Totals
<1>1. /\ t.pending - a \in Nat /\ t.refunded + a \in Nat
      /\ t.ledger.pending - a \in Nat /\ t.ledger.refunded + a \in Nat /\ t.ledger.slots + 1 \in Nat
  BY TotalsAreNumbers
<1>2. LedgerRefunded(t.ledger, a) \in Ledger
  BY <1>1, TotalsAreNumbers, PutLedger DEF LedgerRefunded
<1> QED
  BY <1>1, <1>2, PutTotals DEF Refunded

LEMMA PutShares ==
  ASSUME NEW v \in VaultAccount, NEW x \in Nat, NEW y \in Nat, NEW z \in Nat,
         NEW q \in [Funder -> Nat]
  PROVE  [v EXCEPT !.tokens = x, !.liquidity = y, !.shares = z, !.position = q] \in VaultAccount
BY DEF VaultAccount

LEMMA PutRewards ==
  ASSUME NEW v \in VaultAccount, NEW x \in Nat, NEW y \in Nat, NEW z \in Nat
  PROVE  [v EXCEPT !.liquidity = x, !.tokens = y, !.rewards = z] \in VaultAccount
BY DEF VaultAccount

LEMMA VaultNumbers ==
  ASSUME NEW v \in VaultAccount
  PROVE  /\ v.liquidity \in Nat /\ v.shares \in Nat /\ v.rewards \in Nat /\ v.tokens \in Nat
         /\ v.position \in [Funder -> Nat]
BY DEF VaultAccount

LEMMA FundedType ==
  ASSUME NEW v \in VaultAccount, NEW f \in Funder, NEW a \in Nat, Minted(v, a) = a
  PROVE  Funded(v, f, a) \in VaultAccount
<1>1. v.tokens + a \in Nat /\ v.liquidity + a \in Nat /\ v.shares + a \in Nat
      /\ v.position[f] + a \in Nat
  BY VaultNumbers
<1>2. [v.position EXCEPT ![f] = @ + a] \in [Funder -> Nat]
  BY <1>1, VaultNumbers
<1>3. PICK x \in Nat, y \in Nat, z \in Nat, q \in [Funder -> Nat] :
        /\ x = v.tokens + a /\ y = v.liquidity + a /\ z = v.shares + a
        /\ q = [v.position EXCEPT ![f] = @ + a]
  BY <1>1, <1>2, Zenon
<1>4. x \in Nat /\ y \in Nat /\ z \in Nat /\ q \in [Funder -> Nat]
  BY <1>3
<1>5. [v EXCEPT !.tokens = x, !.liquidity = y, !.shares = z, !.position = q] \in VaultAccount
  BY <1>4, PutShares, Zenon
<1>6. Funded(v, f, a) =
        [v EXCEPT !.tokens = x, !.liquidity = y, !.shares = z, !.position = q]
  BY <1>3 DEF Funded, VaultAccount
<1> QED
  BY <1>5, <1>6

LEMMA WithdrawnType ==
  ASSUME NEW v \in VaultAccount, NEW f \in Funder, NEW a \in Nat, Burned(v, a) = a,
         a <= v.liquidity, a <= v.tokens, a <= v.shares, a <= v.position[f]
  PROVE  Withdrawn(v, f, a) \in VaultAccount
<1>1. v.tokens - a \in Nat /\ v.liquidity - a \in Nat /\ v.shares - a \in Nat
      /\ v.position[f] - a \in Nat
  BY VaultNumbers
<1>2. [v.position EXCEPT ![f] = @ - a] \in [Funder -> Nat]
  BY <1>1, VaultNumbers
<1>3. PICK x \in Nat, y \in Nat, z \in Nat, q \in [Funder -> Nat] :
        /\ x = v.tokens - a /\ y = v.liquidity - a /\ z = v.shares - a
        /\ q = [v.position EXCEPT ![f] = @ - a]
  BY <1>1, <1>2, Zenon
<1>4. x \in Nat /\ y \in Nat /\ z \in Nat /\ q \in [Funder -> Nat]
  BY <1>3
<1>5. [v EXCEPT !.tokens = x, !.liquidity = y, !.shares = z, !.position = q] \in VaultAccount
  BY <1>4, PutShares, Zenon
<1>6. Withdrawn(v, f, a) =
        [v EXCEPT !.tokens = x, !.liquidity = y, !.shares = z, !.position = q]
  BY <1>3 DEF Withdrawn, VaultAccount
<1> QED
  BY <1>5, <1>6

LEMMA PaidType ==
  ASSUME NEW v \in VaultAccount, NEW a \in Nat, NEW fee \in Nat, CanPay(v, a)
  PROVE  Paid(v, a, fee) \in VaultAccount
<1>1. (v.liquidity - a) + a \in Nat /\ (v.tokens - a) + a \in Nat /\ v.rewards + fee \in Nat
  BY VaultNumbers
<1>2. PICK x \in Nat, y \in Nat, z \in Nat :
        x = (v.liquidity - a) + a /\ y = (v.tokens - a) + a /\ z = v.rewards + fee
  BY <1>1, Zenon
<1>3. x \in Nat /\ y \in Nat /\ z \in Nat
  BY <1>2
<1>4. [v EXCEPT !.liquidity = x, !.tokens = y, !.rewards = z] \in VaultAccount
  BY <1>3, PutRewards, Zenon
<1>5. Paid(v, a, fee) = [v EXCEPT !.liquidity = x, !.tokens = y, !.rewards = z]
  BY <1>2, Zenon DEF Paid
<1> QED
  BY <1>4, <1>5

(* The three ways a vault changes leave a share worth one token.           *)
LEMMA FundedAtPar ==
  ASSUME NEW v \in VaultAccount, NEW f \in Funder, NEW a \in Nat, AtPar(v)
  PROVE  Funded(v, f, a) \in VaultAccount /\ AtPar(Funded(v, f, a))
<1>1. Minted(v, a) = a
  BY MintedAtPar DEF AtPar
<1>2. /\ Funded(v, f, a).shares = v.shares + a
      /\ Funded(v, f, a).liquidity = v.liquidity + a
      /\ Funded(v, f, a).tokens = v.tokens + a
  BY <1>1 DEF Funded, VaultAccount
<1> QED
  BY <1>1, <1>2, FundedType, VaultNumbers DEF AtPar

LEMMA WithdrawnAtPar ==
  ASSUME NEW v \in VaultAccount, NEW f \in Funder, NEW a \in Nat, AtPar(v), CanWithdraw(v, f, a)
  PROVE  Withdrawn(v, f, a) \in VaultAccount /\ AtPar(Withdrawn(v, f, a))
<1>1. Burned(v, a) = a
  BY BurnedAtPar, VaultNumbers DEF AtPar, CanWithdraw
<1>2. a <= v.liquidity /\ a <= v.tokens /\ a <= v.shares /\ a <= v.position[f]
  BY <1>1, VaultNumbers DEF AtPar, CanWithdraw
<1>3. /\ Withdrawn(v, f, a).shares = v.shares - a
      /\ Withdrawn(v, f, a).liquidity = v.liquidity - a
      /\ Withdrawn(v, f, a).tokens = v.tokens - a
  BY <1>1 DEF Withdrawn, VaultAccount
<1> QED
  BY <1>1, <1>2, <1>3, WithdrawnType, VaultNumbers DEF AtPar

LEMMA PaidAtPar ==
  ASSUME NEW v \in VaultAccount, NEW a \in Nat, NEW fee \in Nat, AtPar(v), CanPay(v, a)
  PROVE  Paid(v, a, fee) \in VaultAccount /\ AtPar(Paid(v, a, fee))
<1>1. /\ Paid(v, a, fee).shares = v.shares
      /\ Paid(v, a, fee).liquidity = (v.liquidity - a) + a
      /\ Paid(v, a, fee).tokens = (v.tokens - a) + a
  BY DEF Paid, VaultAccount
<1> QED
  BY <1>1, PaidType, VaultNumbers DEF AtPar

(* A funder's shares are added to, or taken from, the total and nobody     *)
(* else's position.                                                        *)
LEMMA PositionChanged ==
  ASSUME NEW q \in [Funder -> Nat], NEW p \in [Funder -> Nat], NEW f \in Funder,
         \A g \in Funder : g # f => p[g] = q[g]
  PROVE  /\ SumFunction(p) = SumFunction(q) - q[f] + p[f]
         /\ SumFunction(q) \in Nat
         /\ q[f] <= SumFunction(q)
<1>1. /\ SumFunction(p) = SumFunctionOnSet(p, Funder)
      /\ SumFunction(q) = SumFunctionOnSet(q, Funder)
  BY DEF SumFunction
<1>2. SumFunctionOnSet(p, Funder) = SumFunctionOnSet(q, Funder) - q[f] + p[f]
  <2>1. \A g \in Funder : q[g] \in Int /\ p[g] \in Int
    OBVIOUS
  <2> QED
    BY <2>1, FunderAssumption, SumOfChanged
<1>3. SumFunctionOnSet(q, Funder) \in Nat /\ q[f] <= SumFunctionOnSet(q, Funder)
  BY FunderAssumption, SumIsNatural, SumBoundsParts
<1> QED
  BY <1>1, <1>2, <1>3

LEMMA FundedDivided ==
  ASSUME NEW v \in VaultAccount, NEW f \in Funder, NEW a \in Nat, AtPar(v), Divided(v)
  PROVE  Divided(Funded(v, f, a))
<1>1. Minted(v, a) = a
  BY MintedAtPar DEF AtPar
<1> DEFINE q == v.position
           p == [q EXCEPT ![f] = @ + a]
<1>2. Funded(v, f, a).position = p /\ Funded(v, f, a).shares = v.shares + a
  BY <1>1 DEF Funded, VaultAccount
<1>3. /\ q \in [Funder -> Nat] /\ p \in [Funder -> Nat] /\ p[f] = q[f] + a /\ q[f] \in Nat
      /\ \A g \in Funder : g # f => p[g] = q[g]
  BY VaultNumbers
<1> HIDE DEF p, q
<1>4. SumFunction(p) = SumFunction(q) - q[f] + p[f] /\ SumFunction(q) \in Nat
  BY <1>3, PositionChanged
<1>5. SumFunction(p) = SumFunction(q) + a
  BY <1>3, <1>4
<1> QED
  BY <1>2, <1>5 DEF Divided, TotalPosition, q

LEMMA WithdrawnDivided ==
  ASSUME NEW v \in VaultAccount, NEW f \in Funder, NEW a \in Nat, AtPar(v), Divided(v),
         CanWithdraw(v, f, a)
  PROVE  Divided(Withdrawn(v, f, a))
<1>1. Burned(v, a) = a /\ a <= v.position[f]
  BY BurnedAtPar, VaultNumbers DEF AtPar, CanWithdraw
<1> DEFINE q == v.position
           p == [q EXCEPT ![f] = @ - a]
<1>2. Withdrawn(v, f, a).position = p /\ Withdrawn(v, f, a).shares = v.shares - a
  BY <1>1 DEF Withdrawn, VaultAccount
<1>3. /\ q \in [Funder -> Nat] /\ p \in [Funder -> Nat] /\ p[f] = q[f] - a /\ q[f] \in Nat
      /\ \A g \in Funder : g # f => p[g] = q[g]
  BY <1>1, VaultNumbers
<1> HIDE DEF p, q
<1>4. SumFunction(p) = SumFunction(q) - q[f] + p[f] /\ SumFunction(q) \in Nat
  BY <1>3, PositionChanged
<1>5. SumFunction(p) = SumFunction(q) - a
  BY <1>3, <1>4
<1> QED
  BY <1>2, <1>5 DEF Divided, TotalPosition, q

LEMMA PaidDivided ==
  ASSUME NEW v \in VaultAccount, NEW a \in Nat, NEW fee \in Nat, Divided(v)
  PROVE  Divided(Paid(v, a, fee))
<1>1. Paid(v, a, fee).position = v.position /\ Paid(v, a, fee).shares = v.shares
  BY DEF Paid, VaultAccount
<1> QED
  BY <1>1 DEF Divided, TotalPosition

(* A funder of a vault at par, to which nothing was sent besides, can take *)
(* out what its shares are counted for, and has none left afterwards.      *)
LEMMA PositionWithdrawable ==
  ASSUME NEW v \in VaultAccount, NEW f \in Funder, AtPar(v), Divided(v),
         v.tokens = v.liquidity, v.position[f] > 0
  PROVE  /\ CanWithdraw(v, f, v.position[f])
         /\ Withdrawn(v, f, v.position[f]).position[f] = 0
<1> DEFINE x == v.position[f]
           l == v.liquidity
<1>1. x \in Nat /\ l \in Nat /\ v.shares = l /\ v.position \in [Funder -> Nat]
  BY VaultNumbers DEF AtPar
<1>2. x <= SumFunction(v.position)
  BY <1>1, PositionChanged
<1>3. x <= l /\ l \in Nat \ {0} /\ x > 0
  BY <1>1, <1>2 DEF Divided, TotalPosition
<1>4. Burned(v, x) = x
  BY <1>1, <1>3, BurnedAtPar
<1>5. MaxWithdrawable(v, f) = x
  <2>1. (x * l) \div l = x
    BY <1>1, <1>3, Quotient
  <2> QED
    BY <1>1, <2>1 DEF MaxWithdrawable
<1>6. CanWithdraw(v, f, x)
  BY <1>1, <1>3, <1>4, <1>5 DEF CanWithdraw
<1>7. Withdrawn(v, f, x).position[f] = 0
  <2>1. Withdrawn(v, f, x).position = [v.position EXCEPT ![f] = @ - x]
    BY <1>4 DEF Withdrawn, VaultAccount
  <2> QED
    BY <1>1, <2>1
<1> QED
  BY <1>6, <1>7

-----------------------------------------------------------------------------
(* Slots.                                                                  *)

LEMMA OneElement == \A r : Len(<<r>>) = 1 /\ <<r>>[1] = r
OBVIOUS

LEMMA AppendIsFilled ==
  ASSUME NEW S, NEW q \in Seq(S), NEW t \in S
  PROVE  Append(q, t) # <<>>
BY Len(Append(q, t)) = Len(q) + 1, Len(q) \in Nat, Len(<<>>) = 0

LEMMA PermitTypes ==
  ASSUME SlotInv, NEW s \in Slot, NEW p \in Permits(s)
  PROVE  p \in Terms
BY DEF SlotInv, Permits

LEMMA SlotInit == Init => SlotInv
BY NoneAssumption DEF Init, SlotInv, Unresolved

(* Resolving an unresolved slot under the terms in force.                  *)
LEMMA ResolveStep ==
  ASSUME SlotInv, NEW s \in Slot, NEW m \in Mint, NEW status \in Outcome,
         NEW v \in Vault \cup {None}, NEW a \in Amount,
         dna[s] = "Active", InForce(s).amount = a, now <= InForce(s).expiry,
         status = "Settled" => v = InForce(s).vault,
         Resolve(m, s, status, v, a), now' = now
  PROVE  SlotInv'
<1> USE NoneAssumption DEF SlotInv, Resolve
<1> DEFINE r == [status |-> status, vault |-> v, amount |-> a, at |-> now]
<1>1. r \in Payment
  BY DEF Payment
<1>2. Unresolved(s)
  BY DEF Resolved
<1>3. paid'[s] = <<r>>
  BY <1>1, <1>2 DEF Unresolved
<1>4. /\ paid' \in [Slot -> Seq(Payment)]
      /\ claims' \in [Mint -> [Slot -> Outcome \cup {None}]]
      /\ dna' \in [Slot -> {"Active", "Consumed", None}]
  BY <1>1
<1>5. Resolved(s)'
  <2>1. Len(paid'[s]) = 1 /\ paid'[s][1] = r
    BY <1>3, OneElement
  <2>2. InForce(s)' = InForce(s)
    BY DEF InForce
  <2>3. claims'[m][s] # None /\ \A n \in Mint : n # m => claims'[n][s] = None
    BY <1>2 DEF Unresolved, Outcome
  <2>4. dna'[s] = "Consumed"
    OBVIOUS
  <2> QED
    BY <2>1, <2>2, <2>3, <2>4 DEF Resolved
<1>6. ASSUME NEW u \in Slot, u # s
      PROVE  (dna'[u] = None <=> vouchers'[u] = <<>>) /\ (Unresolved(u)' \/ Resolved(u)')
  <2>1. /\ dna'[u] = dna[u] /\ paid'[u] = paid[u] /\ vouchers'[u] = vouchers[u]
        /\ \A n \in Mint : claims'[n][u] = claims[n][u]
    BY <1>6
  <2>2. InForce(u)' = InForce(u)
    BY DEF InForce
  <2> QED
    BY <2>1, <2>2 DEF Unresolved, Resolved
<1>7. dna'[s] = None <=> vouchers'[s] = <<>>
  OBVIOUS
<1> QED
  BY <1>4, <1>5, <1>6, <1>7

LEMMA SlotStep ==
  ASSUME SlotInv, [Next]_vars
  PROVE  SlotInv'
<1>1. CASE UNCHANGED settlement /\ now' \in Nat
  BY <1>1 DEF settlement, SlotInv, Unresolved, Resolved, InForce
<1>2. ASSUME NEW s \in Slot, NEW v \in Vault, NEW a \in Amount,
             NEW lease \in 1..TimeBound + 1, NEW expiry \in 1..TimeBound + 1,
             create_settlement_dna(s, v, a, lease, expiry)
      PROVE  SlotInv'
  <2> USE <1>2, NoneAssumption, EscrowAssumption DEF SlotInv, create_settlement_dna
  <2> DEFINE t == [vault |-> v, amount |-> a, lease |-> lease, expiry |-> expiry,
                   version |-> Len(vouchers[s]) + 1]
  <2>1. t \in Terms
    BY DEF Terms
  <2>2. vouchers' = [vouchers EXCEPT ![s] = Append(vouchers[s], t)]
    OBVIOUS
  <2>3. vouchers' \in [Slot -> Seq(Terms)] /\ dna' \in [Slot -> {"Active", "Consumed", None}]
    <3>1. Append(vouchers[s], t) \in Seq(Terms)
      BY <2>1
    <3> QED
      BY <2>2, <3>1
  <2>4. vouchers'[s] # <<>>
    <3>1. vouchers'[s] = Append(vouchers[s], t)
      BY <2>2
    <3>2. vouchers[s] \in Seq(Terms)
      OBVIOUS
    <3> QED
      BY <2>1, <3>1, <3>2, AppendIsFilled, Zenon
  <2>5. Unresolved(s) /\ Unresolved(s)'
    BY DEF Replaceable, Resolved, Unresolved
  <2>6. ASSUME NEW u \in Slot, u # s
        PROVE  (dna'[u] = None <=> vouchers'[u] = <<>>) /\ (Unresolved(u)' \/ Resolved(u)')
    <3>1. dna'[u] = dna[u] /\ vouchers'[u] = vouchers[u]
      BY <2>6
    <3>2. InForce(u)' = InForce(u)
      BY <3>1 DEF InForce
    <3> QED
      BY <3>1, <3>2 DEF Unresolved, Resolved
  <2>7. dna'[s] = "Active"
    OBVIOUS
  <2> QED
    BY <2>3, <2>4, <2>5, <2>6, <2>7
<1>3. ASSUME NEW s \in Slot, NEW v \in Vault, NEW fee \in 0..FeeBound, NEW p \in Permits(s),
             execute_private_payout(s, p, v, fee)
      PROVE  SlotInv'
  <2>1. p \in Terms
    BY PermitTypes
  <2>2. MintOf[v] \in Mint /\ p.amount \in Amount
    BY <2>1, EscrowAssumption DEF Terms
  <2>3. /\ dna[s] = "Active" /\ InForce(s).amount = p.amount /\ InForce(s).vault = v
        /\ now <= InForce(s).expiry
    BY <1>3 DEF execute_private_payout, Vouches, Runs
  <2>4. Resolve(MintOf[v], s, "Settled", v, p.amount) /\ now' = now
    BY <1>3 DEF execute_private_payout
  <2>5. "Settled" \in Outcome
    BY DEF Outcome
  <2> QED
    BY <2>2, <2>3, <2>4, <2>5, ResolveStep
<1>4. ASSUME NEW s \in Slot, NEW m \in Mint, NEW p \in Permits(s), refund_epoch_claim(s, p, m)
      PROVE  SlotInv'
  <2>0. InForce(s) \in Terms
    <3>1. vouchers[s] \in Seq(Terms) /\ vouchers[s] # <<>>
      BY <1>4, NoneAssumption DEF refund_epoch_claim, Refundable, SlotInv
    <3> QED
      BY <3>1 DEF InForce
  <2>1. p \in Terms /\ InForce(s) \in Terms
    BY <2>0, PermitTypes
  <2>2. p.amount \in Amount /\ p.expiry \in Nat /\ InForce(s).expiry \in Nat /\ now \in Nat
    BY <2>1 DEF Terms, SlotInv
  <2>3. dna[s] = "Active" /\ InForce(s).amount = p.amount /\ now <= InForce(s).expiry
    BY <1>4, <2>2 DEF refund_epoch_claim, Refundable
  <2>4. Resolve(m, s, "Refunded", None, p.amount) /\ now' = now
    BY <1>4 DEF refund_epoch_claim
  <2>5. "Refunded" \in Outcome /\ "Refunded" # "Settled"
    BY DEF Outcome
  <2> QED
    BY <2>2, <2>3, <2>4, <2>5, ResolveStep
<1>5. CASE Tick
  BY <1>1, <1>5 DEF Tick, SlotInv
<1>6. CASE \/ \E m \in Mint, a \in Amount : fund_epoch_treasury(m, a)
           \/ \E m \in Mint : close_epoch_treasury(m)
           \/ \E v \in Vault, f \in Funder, a \in Amount :
                fund_cranker(v, f, a) \/ withdraw_cranker_funds(v, f, a)
           \/ \E c \in Cranker, b \in BOOLEAN : set_cranker_funding_policy(c, b)
           \/ \E b \in BOOLEAN : configure_private_settlement(b)
           \/ Donate
           \/ UNCHANGED vars
  <2>1. UNCHANGED settlement /\ now' = now
    BY <1>6 DEF fund_epoch_treasury, close_epoch_treasury, fund_cranker, withdraw_cranker_funds,
                set_cranker_funding_policy, configure_private_settlement, Donate, vars
  <2> QED
    BY <1>1, <2>1 DEF SlotInv
<1> QED
  BY <1>2, <1>3, <1>4, <1>5, <1>6 DEF Next

-----------------------------------------------------------------------------
(* Vaults.                                                                 *)

LEMMA VaultInit == Init => VaultInv
<1> SUFFICES ASSUME Init PROVE VaultInv
  OBVIOUS
<1>1. EmptyVault \in VaultAccount /\ AtPar(EmptyVault)
  BY DEF AtPar, EmptyVault, VaultAccount
<1>2. Divided(EmptyVault)
  <2> DEFINE q == [f \in Funder |-> 0]
  <2>1. \A f \in Funder : q[f] = 0
    OBVIOUS
  <2>2. EmptyVault.position = q /\ EmptyVault.shares = 0
    BY DEF EmptyVault
  <2>3. SumFunction(q) = SumFunctionOnSet(q, Funder)
    BY DEF SumFunction
  <2> HIDE DEF q
  <2>4. SumFunctionOnSet(q, Funder) = 0
    BY <2>1, FunderAssumption, SumOfNothing
  <2> QED
    BY <2>2, <2>3, <2>4 DEF Divided, TotalPosition
<1> QED
  BY <1>1, <1>2 DEF Init, VaultInv

LEMMA VaultStep ==
  ASSUME SlotInv, VaultInv, [Next]_vars
  PROVE  VaultInv'
<1>1. CASE UNCHANGED vault
  BY <1>1 DEF VaultInv
<1>2. ASSUME NEW v \in Vault, NEW x \in VaultAccount, AtPar(x), Divided(x),
             vault' = [vault EXCEPT ![v] = x]
      PROVE  VaultInv'
  BY <1>2 DEF VaultInv
<1>3. ASSUME NEW s \in Slot, NEW v \in Vault, NEW fee \in 0..FeeBound, NEW p \in Permits(s),
             execute_private_payout(s, p, v, fee)
      PROVE  VaultInv'
  <2>1. p.amount \in Nat /\ fee \in Nat
    BY PermitTypes, EscrowAssumption DEF Terms, Amount
  <2> QED
    BY <1>2, <1>3, <2>1, PaidAtPar, PaidDivided DEF execute_private_payout, VaultInv
<1>4. ASSUME NEW v \in Vault, NEW f \in Funder, NEW a \in Amount, fund_cranker(v, f, a)
      PROVE  VaultInv'
  BY <1>2, <1>4, FundedAtPar, FundedDivided DEF fund_cranker, VaultInv, Amount
<1>5. ASSUME NEW v \in Vault, NEW f \in Funder, NEW a \in Amount, withdraw_cranker_funds(v, f, a)
      PROVE  VaultInv'
  BY <1>2, <1>5, WithdrawnAtPar, WithdrawnDivided DEF withdraw_cranker_funds, VaultInv, Amount
<1>6. CASE Donate
  <2>1. CASE UNCHANGED vault
    BY <1>1, <2>1
  <2>2. ASSUME NEW v \in Vault, vault' = [vault EXCEPT ![v].tokens = @ + 1]
        PROVE  VaultInv'
    <3>1. vault[v] \in VaultAccount /\ AtPar(vault[v]) /\ Divided(vault[v])
      BY DEF VaultInv
    <3>2. vault[v].tokens + 1 \in Nat
      BY <3>1, VaultNumbers
    <3>3. PICK x \in Nat : x = vault[v].tokens + 1
      BY <3>2
    <3>4. [vault[v] EXCEPT !.tokens = x] \in VaultAccount /\ AtPar([vault[v] EXCEPT !.tokens = x])
      BY <3>1, <3>3, VaultNumbers DEF VaultAccount, AtPar
    <3>5. Divided([vault[v] EXCEPT !.tokens = x])
      BY <3>1 DEF Divided, TotalPosition, VaultAccount
    <3> QED
      BY <1>2, <2>2, <3>3, <3>4, <3>5
  <2> QED
    BY <1>6, <2>1, <2>2 DEF Donate
<1> QED
  BY <1>1, <1>3, <1>4, <1>5, <1>6
     DEF Next, vars, fund_epoch_treasury, close_epoch_treasury, create_settlement_dna,
         refund_epoch_claim, set_cranker_funding_policy, configure_private_settlement, Tick

-----------------------------------------------------------------------------
(* Treasuries.                                                             *)

LEMMA TreasuryInit == Init => TreasuryInv
BY DEF Init, TreasuryInv, TreasuryBacked

(* What TreasuryBacked says of one treasury that holds h tokens.           *)
BackedBy(t, h) ==
  /\ h >= t.pending
  /\ t.funded = t.pending + t.settled + t.refunded
  /\ t.reimbursed = t.settled
  /\ t.ledger.pending = t.pending
  /\ t.ledger.settled = t.settled /\ t.ledger.refunded = t.refunded

LEMMA CreditedBacked ==
  ASSUME NEW t \in Totals, NEW h \in Nat, NEW a \in Nat, BackedBy(t, h)
  PROVE  BackedBy(Credited(t, a), h + a)
<1>1. /\ Credited(t, a).funded = t.funded + a /\ Credited(t, a).pending = t.pending + a
      /\ Credited(t, a).settled = t.settled /\ Credited(t, a).refunded = t.refunded
      /\ Credited(t, a).reimbursed = t.reimbursed
      /\ Credited(t, a).ledger = LedgerCredited(t.ledger, a)
  BY DEF Credited, Totals
<1>2. /\ LedgerCredited(t.ledger, a).pending = t.ledger.pending + a
      /\ LedgerCredited(t.ledger, a).settled = t.ledger.settled
      /\ LedgerCredited(t.ledger, a).refunded = t.ledger.refunded
  BY TotalsAreNumbers DEF LedgerCredited, Ledger
<1> QED
  BY <1>1, <1>2, TotalsAreNumbers DEF BackedBy

LEMMA SettledBacked ==
  ASSUME NEW t \in Totals, NEW h \in Nat, NEW a \in Nat, BackedBy(t, h), t.pending >= a
  PROVE  BackedBy(Settled(t, a), h - a)
<1>1. /\ Settled(t, a).funded = t.funded /\ Settled(t, a).pending = t.pending - a
      /\ Settled(t, a).settled = t.settled + a /\ Settled(t, a).refunded = t.refunded
      /\ Settled(t, a).reimbursed = t.reimbursed + a
      /\ Settled(t, a).ledger = LedgerSettled(t.ledger, a)
  BY DEF Settled, Totals
<1>2. /\ LedgerSettled(t.ledger, a).pending = t.ledger.pending - a
      /\ LedgerSettled(t.ledger, a).settled = t.ledger.settled + a
      /\ LedgerSettled(t.ledger, a).refunded = t.ledger.refunded
  BY TotalsAreNumbers DEF LedgerSettled, Ledger
<1> QED
  BY <1>1, <1>2, TotalsAreNumbers DEF BackedBy

LEMMA RefundedBacked ==
  ASSUME NEW t \in Totals, NEW h \in Nat, NEW a \in Nat, BackedBy(t, h), t.pending >= a
  PROVE  BackedBy(Refunded(t, a), h - a)
<1>1. /\ Refunded(t, a).funded = t.funded /\ Refunded(t, a).pending = t.pending - a
      /\ Refunded(t, a).settled = t.settled /\ Refunded(t, a).refunded = t.refunded + a
      /\ Refunded(t, a).reimbursed = t.reimbursed
      /\ Refunded(t, a).ledger = LedgerRefunded(t.ledger, a)
  BY DEF Refunded, Totals
<1>2. /\ LedgerRefunded(t.ledger, a).pending = t.ledger.pending - a
      /\ LedgerRefunded(t.ledger, a).settled = t.ledger.settled
      /\ LedgerRefunded(t.ledger, a).refunded = t.ledger.refunded + a
  BY TotalsAreNumbers DEF LedgerRefunded, Ledger
<1> QED
  BY <1>1, <1>2, TotalsAreNumbers DEF BackedBy

LEMMA TreasuryStep ==
  ASSUME SlotInv, TreasuryInv, [Next]_vars
  PROVE  TreasuryInv'
<1>0. /\ treasury \in [Mint -> Totals \cup {None}] /\ held \in [Mint -> Nat]
      /\ \A m \in Mint : treasury[m] # None =>
           treasury[m] \in Totals /\ BackedBy(treasury[m], held[m])
  BY DEF TreasuryInv, TreasuryBacked, BackedBy
<1>1. CASE UNCHANGED <<treasury, held>>
  BY <1>1 DEF TreasuryInv, TreasuryBacked
(* One treasury and its tokens change.                                     *)
<1>2. ASSUME NEW m \in Mint, NEW t \in Totals, NEW h \in Nat, BackedBy(t, h),
             treasury' = [treasury EXCEPT ![m] = t], held' = [held EXCEPT ![m] = h]
      PROVE  TreasuryInv'
  <2>1. treasury' \in [Mint -> Totals \cup {None}] /\ held' \in [Mint -> Nat]
    BY <1>0, <1>2
  <2>2. ASSUME NEW n \in Mint, treasury'[n] # None
        PROVE  BackedBy(treasury'[n], held'[n])
    BY <1>0, <1>2, <2>2
  <2> QED
    BY <2>1, <2>2 DEF TreasuryInv, TreasuryBacked, BackedBy
<1>3. ASSUME NEW m \in Mint, NEW a \in Amount, fund_epoch_treasury(m, a)
      PROVE  TreasuryInv'
  <2>1. a \in Nat /\ held[m] \in Nat
    BY <1>0 DEF Amount
  <2>2. NoTotals \in Totals /\ BackedBy(NoTotals, held[m])
    BY <2>1 DEF NoTotals, Totals, Ledger, BackedBy
  <2>3. Opened(m) \in Totals /\ BackedBy(Opened(m), held[m])
    BY <1>0, <2>2 DEF Opened
  <2>4. Credited(Opened(m), a) \in Totals /\ BackedBy(Credited(Opened(m), a), held[m] + a)
    BY <2>1, <2>3, CreditedType, CreditedBacked
  <2>5. held[m] + a \in Nat
    BY <2>1
  <2> QED
    BY <1>2, <1>3, <2>4, <2>5 DEF fund_epoch_treasury
<1>4. ASSUME NEW m \in Mint, close_epoch_treasury(m)
      PROVE  TreasuryInv'
  <2>1. treasury' = [treasury EXCEPT ![m] = None] /\ held' = held
    BY <1>4 DEF close_epoch_treasury
  <2> QED
    BY <1>0, <2>1 DEF TreasuryInv, TreasuryBacked
<1>5. ASSUME NEW s \in Slot, NEW v \in Vault, NEW fee \in 0..FeeBound, NEW p \in Permits(s),
             execute_private_payout(s, p, v, fee)
      PROVE  TreasuryInv'
  <2> DEFINE m == MintOf[v]
  <2>1. p.amount \in Nat /\ m \in Mint
    BY PermitTypes, EscrowAssumption DEF Terms, Amount
  <2>2. /\ treasury[m] \in Totals /\ BackedBy(treasury[m], held[m]) /\ held[m] \in Nat
        /\ treasury[m].pending >= p.amount /\ treasury[m].ledger.pending >= p.amount
        /\ held[m] >= p.amount
    BY <1>0, <1>5, <2>1 DEF execute_private_payout, Owes
  <2>3. held[m] - p.amount \in Nat
    BY <2>1, <2>2
  <2>4. /\ Settled(treasury[m], p.amount) \in Totals
        /\ BackedBy(Settled(treasury[m], p.amount), held[m] - p.amount)
    BY <2>1, <2>2, SettledType, SettledBacked
  <2> QED
    BY <1>2, <1>5, <2>1, <2>3, <2>4 DEF execute_private_payout
<1>6. ASSUME NEW s \in Slot, NEW m \in Mint, NEW p \in Permits(s), refund_epoch_claim(s, p, m)
      PROVE  TreasuryInv'
  <2>1. p.amount \in Nat
    BY PermitTypes DEF Terms, Amount
  <2>2. /\ treasury[m] \in Totals /\ BackedBy(treasury[m], held[m]) /\ held[m] \in Nat
        /\ treasury[m].pending >= p.amount /\ treasury[m].ledger.pending >= p.amount
        /\ held[m] >= p.amount
    BY <1>0, <1>6 DEF refund_epoch_claim, Owes
  <2>3. held[m] - p.amount \in Nat
    BY <2>1, <2>2
  <2>4. /\ Refunded(treasury[m], p.amount) \in Totals
        /\ BackedBy(Refunded(treasury[m], p.amount), held[m] - p.amount)
    BY <2>1, <2>2, RefundedType, RefundedBacked
  <2> QED
    BY <1>2, <1>6, <2>3, <2>4 DEF refund_epoch_claim
<1>7. CASE Donate
  <2>1. ASSUME NEW m \in Mint, held' = [held EXCEPT ![m] = @ + 1], treasury' = treasury
        PROVE  TreasuryInv'
    <3>1. held' \in [Mint -> Nat] /\ \A n \in Mint : held'[n] >= held[n]
      BY <1>0, <2>1
    <3>2. ASSUME NEW n \in Mint, treasury[n] # None
          PROVE  BackedBy(treasury[n], held'[n])
      BY <1>0, <3>1, <3>2, TotalsAreNumbers DEF BackedBy
    <3> QED
      BY <1>0, <2>1, <3>1, <3>2 DEF TreasuryInv, TreasuryBacked, BackedBy
  <2> QED
    BY <1>1, <1>7, <2>1 DEF Donate
<1> QED
  BY <1>1, <1>3, <1>4, <1>5, <1>6, <1>7
     DEF Next, vars, create_settlement_dna, fund_cranker, withdraw_cranker_funds,
         set_cranker_funding_policy, configure_private_settlement, Tick

-----------------------------------------------------------------------------
(* The theorems.                                                           *)

EInv == SlotInv /\ TreasuryInv /\ VaultInv /\ SwitchTypes

(* The conjunction of the three invariants is inductive.                   *)
THEOREM EscrowInvariant == Spec => []EInv
<1>1. Init => EInv
  BY SlotInit, TreasuryInit, VaultInit DEF EInv, SwitchTypes, Init
<1>2. EInv /\ [Next]_vars => EInv'
  <2> SUFFICES ASSUME EInv, [Next]_vars PROVE EInv'
    OBVIOUS
  <2>1. SlotInv' /\ TreasuryInv' /\ VaultInv'
    BY SlotStep, TreasuryStep, VaultStep DEF EInv
  <2>2. SwitchTypes'
    BY DEF EInv, SwitchTypes, Next, vars, fund_epoch_treasury, close_epoch_treasury,
           create_settlement_dna, execute_private_payout, refund_epoch_claim, fund_cranker,
           withdraw_cranker_funds, set_cranker_funding_policy, configure_private_settlement,
           Donate, Tick
  <2> QED
    BY <2>1, <2>2 DEF EInv
<1> QED
  BY <1>1, <1>2, PTL DEF Spec

(* Every variable keeps its type, whatever is funded, paid, refunded,      *)
(* closed and opened again.                                                *)
THEOREM EscrowTypeCorrect == Spec => []ETypeOK
<1>1. EInv => ETypeOK
  BY DEF EInv, SlotInv, TreasuryInv, VaultInv, SwitchTypes, ETypeOK
<1> QED
  BY <1>1, EscrowInvariant, PTL

(* A slot is resolved once, over all treasuries.                           *)
THEOREM ResolvedOnce == Spec => []SlotResolvedOnce
<1>1. EInv => SlotResolvedOnce
  <2> SUFFICES ASSUME EInv, NEW s \in Slot
               PROVE  /\ Len(paid[s]) <= 1
                      /\ dna[s] = "Consumed" <=> paid[s] # <<>>
                      /\ \A m, n \in Mint : claims[m][s] # None /\ claims[n][s] # None => m = n
                      /\ paid[s] # <<>> <=> \E m \in Mint : claims[m][s] # None
    BY DEF SlotResolvedOnce
  <2>0. Len(<<>>) = 0
    OBVIOUS
  <2>1. CASE Unresolved(s)
    BY <2>0, <2>1 DEF Unresolved
  <2>2. CASE Resolved(s)
    <3>1. paid[s] # <<>>
      BY <2>0, <2>2 DEF Resolved
    <3> QED
      BY <2>2, <3>1 DEF Resolved
  <2> QED
    BY <2>1, <2>2 DEF EInv, SlotInv
<1> QED
  BY <1>1, EscrowInvariant, PTL

(* What is paid for a slot follows the voucher in force, within its        *)
(* authorization, for any number of replaced vouchers and any vaults.      *)
THEOREM PaidByVoucher == Spec => []PaidAsVouched
<1>1. EInv => PaidAsVouched
  <2> SUFFICES ASSUME EInv, NEW s \in Slot, NEW n \in DOMAIN paid[s]
               PROVE  /\ paid[s][n].amount = InForce(s).amount
                      /\ paid[s][n].at <= InForce(s).expiry
                      /\ paid[s][n].status = "Settled" => paid[s][n].vault = InForce(s).vault
    BY DEF PaidAsVouched
  <2>1. paid[s] \in Seq(Payment) /\ n \in 1..Len(paid[s])
    BY DEF EInv, SlotInv
  <2>2. ~Unresolved(s)
    BY <2>1 DEF Unresolved
  <2>3. Resolved(s)
    BY <2>2 DEF EInv, SlotInv
  <2>4. n = 1
    BY <2>1, <2>3 DEF Resolved
  <2> QED
    BY <2>3, <2>4 DEF Resolved
<1> QED
  BY <1>1, EscrowInvariant, PTL

(* A treasury holds what it owes and accounts for what it got.             *)
THEOREM TreasuriesBacked == Spec => []TreasuryBacked
<1>1. EInv => TreasuryBacked
  BY DEF EInv, TreasuryInv
<1> QED
  BY <1>1, EscrowInvariant, PTL

(* Whoever funded a vault can take out every token its shares stand for,   *)
(* through any payouts, fees and funders that come and go, unless tokens   *)
(* were sent to the vault besides.                                         *)
THEOREM FundersWithdrawInFull == Spec => []WithdrawableInFull
<1>1. EInv => WithdrawableInFull
  <2> SUFFICES ASSUME EInv, NEW v \in Vault
               PROVE  /\ vault[v].shares = vault[v].liquidity
                      /\ vault[v].liquidity <= vault[v].tokens
                      /\ TotalPosition(vault[v]) = vault[v].shares
                      /\ vault[v].tokens = vault[v].liquidity =>
                           \A f \in Funder : vault[v].position[f] > 0 =>
                             /\ CanWithdraw(vault[v], f, vault[v].position[f])
                             /\ Withdrawn(vault[v], f, vault[v].position[f]).position[f] = 0
    BY DEF WithdrawableInFull
  <2>1. vault[v] \in VaultAccount /\ AtPar(vault[v]) /\ Divided(vault[v])
    BY DEF EInv, VaultInv
  <2>2. ASSUME vault[v].tokens = vault[v].liquidity, NEW f \in Funder, vault[v].position[f] > 0
        PROVE  /\ CanWithdraw(vault[v], f, vault[v].position[f])
               /\ Withdrawn(vault[v], f, vault[v].position[f]).position[f] = 0
    BY <2>1, <2>2, PositionWithdrawable
  <2> QED
    BY <2>1, <2>2 DEF AtPar, Divided
<1> QED
  BY <1>1, EscrowInvariant, PTL

=============================================================================
