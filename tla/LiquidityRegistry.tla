--------------------------- MODULE LiquidityRegistry ---------------------------
(***************************************************************************)
(* What a settlement route of a liquidity registry records, and the        *)
(* updates both registries make to it: DestinationLiquidityRegistry.sol    *)
(* (onward routes) and CreditcoinDirectLiquidityRegistry.sol (the direct   *)
(* lane).  An update is meant only where its Can... condition holds:       *)
(* otherwise the contract reverts and nothing changes.                     *)
(***************************************************************************)
EXTENDS Naturals

CONSTANTS
  Settlement,   \* settlement ids
  Executor,     \* destination executor contracts
  None          \* the zero address

(* An observation of the liquidity behind a route.  "seen" is history: the *)
(* payouts that had left the vault when its balance was observed.          *)
NoObservation == [nonce |-> 0, amount |-> 0, seen |-> {}]

NewRoute ==
  [enabled |-> FALSE, executor |-> None, observation |-> NoObservation,
   reservations |-> [s \in Settlement |-> 0], reserved |-> 0]

(* Slips: a route configured anew forgets what is reserved on it.          *)
ConfiguredAfresh(route, executor, enabled) ==
  [NewRoute EXCEPT !.executor = executor, !.enabled = enabled]

(* Configuring a route replaces its fields, never its reservations.        *)
Configured(route, executor, enabled) ==
  [route EXCEPT !.executor = executor, !.enabled = enabled]

(* Slip: an older observation may replace a newer one.                     *)
CanObserveAny(route, o) == route.enabled /\ o.nonce # route.observation.nonce

CanObserve(route, o) == route.enabled /\ o.nonce > route.observation.nonce
Observed(route, o) == [route EXCEPT !.observation = o]

(* isLiquidityAvailable; fresh says that the observation has not expired.  *)
Available(route, amount, fresh) ==
  /\ route.enabled
  /\ fresh
  /\ route.observation.amount >= route.reserved + amount

CanReserve(route, s, amount, fresh) ==
  /\ route.reservations[s] = 0
  /\ Available(route, amount, fresh)

(* Slip: a reservation leaves no trace in the total.                       *)
ReservedUncounted(route, s, amount) == [route EXCEPT !.reservations[s] = amount]

Reserved(route, s, amount) ==
  [route EXCEPT !.reservations[s] = amount, !.reserved = @ + amount]

CanRelease(route, s, amount) ==
  /\ amount # 0
  /\ route.reservations[s] = amount
  /\ amount <= route.reserved

Released(route, s, amount) ==
  [route EXCEPT !.reservations[s] = 0, !.reserved = @ - amount]
=============================================================================
