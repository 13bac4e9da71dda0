--------------------------- MODULE OnwardSettlement ---------------------------
(***************************************************************************)
(* Payout to another network (services/tsn-crosschain/contracts):          *)
(* CreditcoinSettlementHub reserves verified liquidity and publishes a     *)
(* message, Attestcoin delivers it, TSNSettlementExecutor on the           *)
(* destination pays from TSNERCLiquidityVault.  In the other direction the *)
(* destination announces its liquidity and DestinationLiquidityASC records *)
(* the announcement once it is proved.                                     *)
(*                                                                         *)
(* A transaction is one action; one that reverts changes nothing and is    *)
(* not a step.  The two chains have clocks of their own: a deadline passes *)
(* on each of them separately.  Attestcoin is not under src/: a published  *)
(* message may be delivered at any time, in any order and repeatedly.      *)
(***************************************************************************)
EXTENDS LiquidityRegistry, FiniteSets, Functions

CONSTANTS
  Route,          \* route ids, each with a payout vault of its own
  Nonce,          \* authorization nonces
  Signed,         \* the payout authorizations the Node signs
  VaultOf,        \* executor -> the route whose payout vault it pays from
  ObservationBound, \* bound: announcements per route
  SupplyBound       \* bound: tokens ever funded per vault

Authorization ==
  [settlement : Settlement, nonce : Nonce, route : Route, executor : Executor, amount : Nat \ {0}]

ASSUME OnwardAssumption ==
  /\ None \notin Executor
  /\ Signed \subseteq Authorization
  /\ VaultOf \in [Executor -> Route]
  /\ ObservationBound \in Nat /\ SupplyBound \in Nat

VARIABLES
  routes,      \* DestinationLiquidityRegistry: route -> its record
  announced,   \* route -> LiquidityAvailable events its vault's chain emitted
  lapsed,      \* observations whose validUntil has passed on Creditcoin
  hub,         \* CreditcoinSettlementHub: settlements and nonces used, paused
  outbox,      \* the messages published, which are authorizations
  late,        \* chain -> authorizations whose deadline has passed there
  used,        \* executor -> nonces used
  vault,       \* route -> balance, tokens ever funded, and the one executor
  paid,        \* history: authorization -> how often it was paid
  rash         \* history: what the owners did that the code leaves to them

vars == <<routes, announced, lapsed, hub, outbox, late, used, vault, paid, rash>>

Observation == [nonce : Nat, amount : Nat, seen : SUBSET Signed]
RouteRecord ==
  [enabled : BOOLEAN, executor : Executor \cup {None}, observation : Observation,
   reservations : [Settlement -> Nat], reserved : Nat]
Chain == {"creditcoin", "destination"}

Init ==
  /\ routes = [r \in Route |-> NewRoute]
  /\ announced = [r \in Route |-> {}]
  /\ lapsed = {}
  /\ hub = [settlements |-> {}, nonces |-> {}, paused |-> FALSE]
  /\ outbox = {}
  /\ late = [c \in Chain |-> {}]
  /\ used = [e \in Executor |-> {}]
  /\ \E e \in [Route -> Executor] :
       /\ \A r \in Route : VaultOf[e[r]] = r
       /\ vault = [r \in Route |-> [balance |-> 0, funded |-> 0, executor |-> e[r]]]
  /\ paid = [a \in Signed |-> 0]
  /\ rash = {}

-----------------------------------------------------------------------------
(* The registry's owner.                                                   *)
ConfigureRoute(r, enabled) ==
  /\ routes' = [routes EXCEPT ![r] = Configured(@, None, enabled)]
  /\ UNCHANGED <<announced, lapsed, hub, outbox, late, used, vault, paid, rash>>

ConfigureSettlementRoute(r, e, enabled) ==
  /\ VaultOf[e] = r
  /\ routes' = [routes EXCEPT ![r] = Configured(@, e, enabled)]
  /\ UNCHANGED <<announced, lapsed, hub, outbox, late, used, vault, paid, rash>>

-----------------------------------------------------------------------------
(* Liquidity: announced on the destination, proved and recorded later.     *)
PaidFrom(r) == {a \in Signed : a.route = r /\ paid[a] > 0}

Announce(r) ==
  LET o == [nonce |-> Cardinality(announced[r]) + 1, amount |-> vault[r].balance,
            seen |-> PaidFrom(r)]
  IN /\ Cardinality(announced[r]) < ObservationBound
     /\ announced' = [announced EXCEPT ![r] = @ \cup {o}]
     /\ UNCHANGED <<routes, lapsed, hub, outbox, late, used, vault, paid, rash>>

(* A proof is used once: a second use has a nonce that is not higher.      *)
RecordLiquidity(r, o) ==
  /\ o \in announced[r]
  /\ o.amount # 0
  /\ <<r, o>> \notin lapsed
  /\ CanObserve(routes[r], o)
  /\ routes' = [routes EXCEPT ![r] = Observed(@, o)]
  /\ UNCHANGED <<announced, lapsed, hub, outbox, late, used, vault, paid, rash>>

Lapse(r, o) ==
  /\ o \in announced[r]
  /\ <<r, o>> \notin lapsed
  /\ lapsed' = lapsed \cup {<<r, o>>}
  /\ UNCHANGED <<routes, announced, hub, outbox, late, used, vault, paid, rash>>

-----------------------------------------------------------------------------
(* The hub.  Anyone submits an authorization the Node signed.              *)
Replayed(a) == a.settlement \in hub.settlements \/ a.nonce \in hub.nonces

Fresh(r) == <<r, routes[r].observation>> \notin lapsed

ExecuteSettlement(a) ==
  /\ ~hub.paused
  /\ a \notin late["creditcoin"]
  /\ ~Replayed(a)
  /\ routes[a.route].executor = a.executor
  /\ CanReserve(routes[a.route], a.settlement, a.amount, Fresh(a.route))
  /\ routes' = [routes EXCEPT ![a.route] = Reserved(@, a.settlement, a.amount)]
  /\ hub' = [hub EXCEPT !.settlements = @ \cup {a.settlement}, !.nonces = @ \cup {a.nonce}]
  /\ outbox' = outbox \cup {a}
  /\ UNCHANGED <<announced, lapsed, late, used, vault, paid, rash>>

(* The owner's release is meant for a payout that was observed.  Nothing   *)
(* makes the owner wait until the recorded observation, which the payout   *)
(* is missing from as long as it is older, has been replaced.              *)
ReleaseReservation(a) ==
  /\ paid[a] > 0
  /\ CanRelease(routes[a.route], a.settlement, a.amount)
  /\ routes' = [routes EXCEPT ![a.route] = Released(@, a.settlement, a.amount)]
  /\ rash' = IF a \in routes[a.route].observation.seen THEN rash ELSE rash \cup {"release"}
  /\ UNCHANGED <<announced, lapsed, hub, outbox, late, used, vault, paid>>

SetPaused(value) ==
  /\ hub' = [hub EXCEPT !.paused = value]
  /\ UNCHANGED <<routes, announced, lapsed, outbox, late, used, vault, paid, rash>>

(* A deadline is noted where it is still looked at: Creditcoin's clock     *)
(* until the payout is published, the destination's from then on.  One     *)
(* that passes there earlier does as much as one that passes then.         *)
DeadlinePasses(c, a) ==
  /\ a \notin late[c]
  /\ c = "destination" <=> a \in outbox
  /\ late' = [late EXCEPT ![c] = @ \cup {a}]
  /\ UNCHANGED <<routes, announced, lapsed, hub, outbox, used, vault, paid, rash>>

-----------------------------------------------------------------------------
(* The destination: the executor's message handler, which calls the vault, *)
(* and the vault's own operations.                                         *)

(* Slip: a message is paid however often it arrives.                       *)
DeliverAgain(a) ==
  LET v == VaultOf[a.executor]
  IN /\ a \in outbox
     /\ a \notin late["destination"]
     /\ vault[v].executor = a.executor
     /\ vault[v].balance >= a.amount
     /\ used' = [used EXCEPT ![a.executor] = @ \cup {a.nonce}]
     /\ vault' = [vault EXCEPT ![v].balance = @ - a.amount]
     /\ paid' = [paid EXCEPT ![a] = @ + 1]
     /\ UNCHANGED <<routes, announced, lapsed, hub, outbox, late, rash>>

(* Slip: the deadline of a message is not looked at.                       *)
DeliverLate(a) ==
  LET v == VaultOf[a.executor]
  IN /\ a \in outbox
     /\ a.nonce \notin used[a.executor]
     /\ vault[v].executor = a.executor
     /\ vault[v].balance >= a.amount
     /\ used' = [used EXCEPT ![a.executor] = @ \cup {a.nonce}]
     /\ vault' = [vault EXCEPT ![v].balance = @ - a.amount]
     /\ paid' = [paid EXCEPT ![a] = @ + 1]
     /\ UNCHANGED <<routes, announced, lapsed, hub, outbox, late, rash>>

Deliver(a) ==
  LET v == VaultOf[a.executor]
  IN /\ a \in outbox
     /\ a \notin late["destination"]
     /\ a.nonce \notin used[a.executor]
     /\ vault[v].executor = a.executor
     /\ vault[v].balance >= a.amount
     /\ used' = [used EXCEPT ![a.executor] = @ \cup {a.nonce}]
     /\ vault' = [vault EXCEPT ![v].balance = @ - a.amount]
     /\ paid' = [paid EXCEPT ![a] = @ + 1]
     /\ UNCHANGED <<routes, announced, lapsed, hub, outbox, late, rash>>

Fund(r) ==
  /\ vault[r].funded < SupplyBound
  /\ vault' = [vault EXCEPT ![r].balance = @ + 1, ![r].funded = @ + 1]
  /\ UNCHANGED <<routes, announced, lapsed, hub, outbox, late, used, paid, rash>>

Withdraw(r, n) ==
  /\ vault' = [vault EXCEPT ![r].balance = @ - n]
  /\ rash' = rash \cup {"withdrawal"}
  /\ UNCHANGED <<routes, announced, lapsed, hub, outbox, late, used, paid>>

SetExecutor(r, e) ==
  /\ VaultOf[e] = r
  /\ vault' = [vault EXCEPT ![r].executor = e]
  /\ UNCHANGED <<routes, announced, lapsed, hub, outbox, late, used, paid, rash>>

-----------------------------------------------------------------------------
Next ==
  \/ \E r \in Route, enabled \in BOOLEAN :
       \/ ConfigureRoute(r, enabled)
       \/ \E e \in Executor : ConfigureSettlementRoute(r, e, enabled)
  \/ \E r \in Route :
       \/ Announce(r)
       \/ \E o \in announced[r] : RecordLiquidity(r, o) \/ Lapse(r, o)
       \/ Fund(r)
       \/ \E n \in 1 .. vault[r].balance : Withdraw(r, n)
       \/ \E e \in Executor : SetExecutor(r, e)
  \/ \E a \in Signed :
       \/ ExecuteSettlement(a)
       \/ ReleaseReservation(a)
       \/ Deliver(a)
       \/ \E c \in Chain : DeadlinePasses(c, a)
  \/ \E value \in BOOLEAN : SetPaused(value)

Spec == Init /\ [][Next]_vars

-----------------------------------------------------------------------------
(* Properties.                                                             *)

(* The variables hold what the contracts can store.                        *)
OTypeOK ==
  /\ routes \in [Route -> RouteRecord]
  /\ announced \in [Route -> SUBSET Observation]
  /\ lapsed \subseteq Route \X Observation
  /\ hub \in [settlements : SUBSET Settlement, nonces : SUBSET Nonce, paused : BOOLEAN]
  /\ outbox \subseteq Signed
  /\ late \in [Chain -> SUBSET Signed]
  /\ used \in [Executor -> SUBSET Nonce]
  /\ vault \in [Route -> [balance : Nat, funded : Nat, executor : Executor]]
  /\ paid \in [Signed -> Nat]
  /\ rash \subseteq {"release", "withdrawal"}

(* However often a message is delivered, by whatever executor, and however *)
(* often the Node signs a payout again, a settlement is paid at most once. *)
PaidOnce ==
  \A a, b \in Signed :
    a.settlement = b.settlement /\ paid[a] > 0 /\ paid[b] > 0 => a = b /\ paid[a] = 1

(* A published payout keeps its whole reservation until it was paid, also  *)
(* when its route is disabled or configured anew meanwhile.                *)
UnpaidIsReserved ==
  \A a \in outbox :
    paid[a] = 0 => routes[a.route].reservations[a.settlement] = a.amount

Unpaid(r) == {a \in outbox : a.route = r /\ paid[a] = 0}

Backed ==
  \A r \in Route : SumFunction([a \in Unpaid(r) |-> a.amount]) <= vault[r].balance

(* The vault can pay every payout that was published against its liquidity *)
(* and not paid yet, through every order of observation, reservation,      *)
(* payment, lapse and reconfiguration, as long as its owner withdraws      *)
(* nothing and the hub's owner releases no payout before an observation    *)
(* has seen it.                                                            *)
BackedWhenPrudent == rash = {} => Backed

(* A payout whose deadline passed on the destination before it was paid is *)
(* never paid, not even under another authorization for its settlement:    *)
(* the hub has consumed the settlement.                                    *)
ExpiredStaysUnpaid ==
  [][\A a \in outbox, b \in Signed :
       a \in late["destination"] /\ paid[a] = 0 /\ a.settlement = b.settlement
         => paid'[b] = paid[b]]_vars
=============================================================================
