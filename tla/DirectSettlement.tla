--------------------------- MODULE DirectSettlement ---------------------------
(***************************************************************************)
(* Payout on Creditcoin itself (tsn-crosschain/contracts/creditcoin): the  *)
(* hub checks the Node's authorization, reserves liquidity, and has the    *)
(* executor pay from the vault, all in one transaction.  The registry's    *)
(* owner observes the vault's balance without any proof.  No contract      *)
(* calls releaseLiquidity of this registry, so it is not an action.        *)
(***************************************************************************)
EXTENDS LiquidityRegistry, FiniteSets, Functions

CONSTANTS
  DirectNonce,            \* authorization nonces
  DirectSigned,           \* the payout authorizations the Node signs
  DirectObservationBound, \* bound: observations of the vault
  DirectSupplyBound       \* bound: tokens ever funded

DirectAuthorization ==
  [settlement : Settlement, nonce : DirectNonce, executor : Executor, amount : Nat \ {0}]

ASSUME DirectAssumption ==
  /\ None \notin Executor
  /\ DirectSigned \subseteq DirectAuthorization
  /\ DirectObservationBound \in Nat /\ DirectSupplyBound \in Nat

VARIABLES
  lane,       \* CreditcoinDirectLiquidityRegistry: the lane's record
  laneFresh,  \* whether the observation is still valid
  laneHub,    \* settlements and nonces used
  laneLate,   \* authorizations whose deadline has passed
  laneVault,  \* balance, tokens ever funded, and the one executor
  lanePaid    \* history: authorization -> how often it was paid

directVars == <<lane, laneFresh, laneHub, laneLate, laneVault, lanePaid>>

DirectInit ==
  /\ lane = NewRoute
  /\ laneFresh = FALSE
  /\ laneHub = [settlements |-> {}, nonces |-> {}]
  /\ laneLate = {}
  /\ \E e \in Executor : laneVault = [balance |-> 0, funded |-> 0, executor |-> e]
  /\ lanePaid = [a \in DirectSigned |-> 0]

ConfigureDirectRoute(e, enabled) ==
  /\ lane' = Configured(lane, e, enabled)
  /\ UNCHANGED <<laneFresh, laneHub, laneLate, laneVault, lanePaid>>

ObserveLocalLiquidity ==
  LET o == [nonce |-> lane.observation.nonce + 1, amount |-> laneVault.balance,
            seen |-> {a \in DirectSigned : lanePaid[a] > 0}]
  IN /\ o.nonce <= DirectObservationBound
     /\ CanObserve(lane, o)
     /\ lane' = Observed(lane, o)
     /\ laneFresh' = TRUE
     /\ UNCHANGED <<laneHub, laneLate, laneVault, lanePaid>>

ObservationLapses ==
  /\ laneFresh
  /\ laneFresh' = FALSE
  /\ UNCHANGED <<lane, laneHub, laneLate, laneVault, lanePaid>>

DirectReplayed(a) == a.settlement \in laneHub.settlements \/ a.nonce \in laneHub.nonces

(* A payout that the vault refuses reverts the reservation as well.        *)
ExecuteDirectSettlement(a) ==
  /\ a \notin laneLate
  /\ ~DirectReplayed(a)
  /\ lane.executor = a.executor
  /\ CanReserve(lane, a.settlement, a.amount, laneFresh)
  /\ laneVault.executor = a.executor
  /\ laneVault.balance >= a.amount
  /\ lane' = Reserved(lane, a.settlement, a.amount)
  /\ laneHub' = [laneHub EXCEPT !.settlements = @ \cup {a.settlement}, !.nonces = @ \cup {a.nonce}]
  /\ laneVault' = [laneVault EXCEPT !.balance = @ - a.amount]
  /\ lanePaid' = [lanePaid EXCEPT ![a] = @ + 1]
  /\ UNCHANGED <<laneFresh, laneLate>>

DirectDeadlinePasses(a) ==
  /\ a \notin laneLate
  /\ laneLate' = laneLate \cup {a}
  /\ UNCHANGED <<lane, laneFresh, laneHub, laneVault, lanePaid>>

FundDirect ==
  /\ laneVault.funded < DirectSupplyBound
  /\ laneVault' = [laneVault EXCEPT !.balance = @ + 1, !.funded = @ + 1]
  /\ UNCHANGED <<lane, laneFresh, laneHub, laneLate, lanePaid>>

WithdrawDirect(n) ==
  /\ laneVault' = [laneVault EXCEPT !.balance = @ - n]
  /\ UNCHANGED <<lane, laneFresh, laneHub, laneLate, lanePaid>>

SetDirectExecutor(e) ==
  /\ laneVault' = [laneVault EXCEPT !.executor = e]
  /\ UNCHANGED <<lane, laneFresh, laneHub, laneLate, lanePaid>>

DirectNext ==
  \/ \E e \in Executor :
       \/ \E enabled \in BOOLEAN : ConfigureDirectRoute(e, enabled)
       \/ SetDirectExecutor(e)
  \/ ObserveLocalLiquidity
  \/ ObservationLapses
  \/ FundDirect
  \/ \E n \in 1 .. laneVault.balance : WithdrawDirect(n)
  \/ \E a \in DirectSigned : ExecuteDirectSettlement(a) \/ DirectDeadlinePasses(a)

DirectSpec == DirectInit /\ [][DirectNext]_directVars

-----------------------------------------------------------------------------
(* Properties.                                                             *)

(* A payout keeps its reservation for ever: what is reserved on the lane   *)
(* is all that it ever paid, a payment that fails reserves nothing, and no *)
(* settlement and no nonce pays twice, however often the Node signs.       *)
PaidStaysReserved ==
  LET done == {a \in DirectSigned : lanePaid[a] > 0}
  IN  /\ lane.reserved = SumFunction([a \in done |-> a.amount * lanePaid[a]])
      /\ \A a \in done : lane.reservations[a.settlement] = a.amount
      /\ \A a, b \in done :
           a.settlement = b.settlement \/ a.nonce = b.nonce => a = b /\ lanePaid[a] = 1
=============================================================================
