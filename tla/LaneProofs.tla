------------------------------ MODULE LaneProofs ------------------------------
(***************************************************************************)
(* Proofs about the payout contracts (services/tsn-crosschain/contracts):  *)
(* OnwardSettlement, DirectSettlement and RouteAdmission, for any sets of  *)
(* routes, settlements, executors, voters and authorizations, any amounts, *)
(* and any conduct of the owners.                                          *)
(***************************************************************************)
EXTENDS OnwardSettlement, DirectSettlement, RouteAdmission, SumLemmas, TLAPS

-----------------------------------------------------------------------------
(* Payout to another network: the inductive invariant.                     *)

AnnouncedFinite == \A r \in Route : IsFiniteSet(announced[r])

(* What was published is marked as consumed in the hub.                    *)
PublishedIsConsumed ==
  \A a \in outbox : a.settlement \in hub.settlements /\ a.nonce \in hub.nonces

OneMessage == \A a, b \in outbox : a.settlement = b.settlement => a = b

(* What was paid was published, paid once, and is marked in its executor.  *)
PaidIsMarked ==
  \A a \in Signed :
    paid[a] > 0 => a \in outbox /\ paid[a] = 1 /\ a.nonce \in used[a.executor]

OInv ==
  /\ OTypeOK
  /\ AnnouncedFinite
  /\ PublishedIsConsumed
  /\ OneMessage
  /\ PaidIsMarked
  /\ UnpaidIsReserved

-----------------------------------------------------------------------------
(* The registry's updates keep a route's record a record.                  *)

LEMMA ConfiguredType ==
  ASSUME NEW route \in RouteRecord, NEW e \in Executor \cup {None}, NEW enabled \in BOOLEAN
  PROVE  Configured(route, e, enabled) \in RouteRecord
BY DEF Configured, RouteRecord

LEMMA ObservedType ==
  ASSUME NEW route \in RouteRecord, NEW o \in Observation
  PROVE  Observed(route, o) \in RouteRecord
BY DEF Observed, RouteRecord

LEMMA ReservedType ==
  ASSUME NEW route \in RouteRecord, NEW s \in Settlement, NEW amount \in Nat
  PROVE  Reserved(route, s, amount) \in RouteRecord
<1> DEFINE reservations == [route.reservations EXCEPT ![s] = amount]
           reserved == route.reserved + amount
<1>1. reservations \in [Settlement -> Nat] /\ reserved \in Nat
  BY DEF RouteRecord
<1>2. Reserved(route, s, amount) =
        [route EXCEPT !.reservations = reservations, !.reserved = reserved]
  BY DEF Reserved
<1> HIDE DEF reservations, reserved
<1> QED
  BY <1>1, <1>2 DEF RouteRecord

LEMMA ReleasedType ==
  ASSUME NEW route \in RouteRecord, NEW s \in Settlement, NEW amount \in Nat,
         CanRelease(route, s, amount)
  PROVE  Released(route, s, amount) \in RouteRecord
<1> DEFINE reservations == [route.reservations EXCEPT ![s] = 0]
           reserved == route.reserved - amount
<1>1. reservations \in [Settlement -> Nat] /\ reserved \in Nat
  BY DEF RouteRecord, CanRelease
<1>2. Released(route, s, amount) =
        [route EXCEPT !.reservations = reservations, !.reserved = reserved]
  BY DEF Released
<1> HIDE DEF reservations, reserved
<1> QED
  BY <1>1, <1>2 DEF RouteRecord

(* What the updates do to the reservation of one settlement.               *)
LEMMA ReservationsAfter ==
  ASSUME NEW route \in RouteRecord, NEW s \in Settlement, NEW t \in Settlement,
         NEW amount \in Nat
  PROVE  /\ Reserved(route, s, amount).reservations[s] = amount
         /\ t # s => Reserved(route, s, amount).reservations[t] = route.reservations[t]
         /\ t # s => Released(route, s, amount).reservations[t] = route.reservations[t]
BY DEF Reserved, Released, RouteRecord

LEMMA SignedType ==
  ASSUME NEW a \in Signed
  PROVE  /\ a.settlement \in Settlement
         /\ a.nonce \in Nonce
         /\ a.route \in Route
         /\ a.executor \in Executor
         /\ a.amount \in Nat
         /\ a.amount # 0
BY OnwardAssumption DEF Authorization

-----------------------------------------------------------------------------
THEOREM OInitHolds == Init => OInv
<1> SUFFICES ASSUME Init PROVE OInv
  OBVIOUS
<1> USE OnwardAssumption DEF Init
<1>1. OTypeOK
  <2>1. NewRoute \in RouteRecord
    BY DEF NewRoute, NoObservation, RouteRecord, Observation
  <2>2. PICK e \in [Route -> Executor] :
          vault = [r \in Route |-> [balance |-> 0, funded |-> 0, executor |-> e[r]]]
    OBVIOUS
  <2>3. vault \in [Route -> [balance : Nat, funded : Nat, executor : Executor]]
    BY <2>2
  <2> QED
    BY <2>1, <2>3 DEF OTypeOK
<1>2. AnnouncedFinite
  BY FS_EmptySet DEF AnnouncedFinite
<1>3. PublishedIsConsumed /\ OneMessage /\ UnpaidIsReserved
  BY DEF PublishedIsConsumed, OneMessage, UnpaidIsReserved
<1>4. PaidIsMarked
  BY DEF PaidIsMarked
<1> QED
  BY <1>1, <1>2, <1>3, <1>4 DEF OInv

-----------------------------------------------------------------------------
(* A step of the registry alone, which changes routes but no reservation.  *)
LEMMA RegistryStep ==
  ASSUME OInv,
         NEW r \in Route, NEW record \in RouteRecord,
         record.reservations = routes[r].reservations,
         routes' = [routes EXCEPT ![r] = record],
         UNCHANGED <<announced, lapsed, hub, outbox, late, used, vault, paid, rash>>
  PROVE  OInv'
<1> USE DEF OInv
<1>1. OTypeOK'
  BY DEF OTypeOK
<1>2. (AnnouncedFinite /\ PublishedIsConsumed /\ OneMessage /\ PaidIsMarked)'
  BY DEF AnnouncedFinite, PublishedIsConsumed, OneMessage, PaidIsMarked
<1>3. UnpaidIsReserved'
  BY OnwardAssumption DEF UnpaidIsReserved, OTypeOK
<1> QED
  BY <1>1, <1>2, <1>3

LEMMA ExecuteStep ==
  ASSUME OInv, NEW a \in Signed, ExecuteSettlement(a)
  PROVE  OInv'
<1> USE SignedType DEF OInv, ExecuteSettlement
<1>1. routes[a.route] \in RouteRecord
  BY DEF OTypeOK
<1>2. OTypeOK'
  <2>1. Reserved(routes[a.route], a.settlement, a.amount) \in RouteRecord
    BY <1>1, ReservedType
  <2> QED
    BY <2>1 DEF OTypeOK
<1>3. AnnouncedFinite'
  BY DEF AnnouncedFinite
<1>4. PublishedIsConsumed'
  BY DEF PublishedIsConsumed, OTypeOK
<1>5. \A b \in outbox : b.settlement # a.settlement
  BY DEF PublishedIsConsumed, Replayed
<1>6. OneMessage'
  BY <1>5 DEF OneMessage
<1>7. PaidIsMarked'
  BY DEF PaidIsMarked
<1>8. UnpaidIsReserved'
  <2> SUFFICES ASSUME NEW b \in outbox', paid[b] = 0
               PROVE  routes'[b.route].reservations[b.settlement] = b.amount
    BY DEF UnpaidIsReserved
  <2>1. b \in Signed
    BY DEF OTypeOK
  <2>2. CASE b = a
    BY <1>1, <2>2, ReservationsAfter DEF OTypeOK
  <2>3. CASE b # a /\ b.route = a.route
    <3>1. b.settlement # a.settlement
      BY <1>5, <2>3
    <3>2. routes'[b.route] = Reserved(routes[a.route], a.settlement, a.amount)
      BY <2>3, <2>1 DEF OTypeOK
    <3>3. routes[b.route].reservations[b.settlement] = b.amount
      BY <2>3 DEF UnpaidIsReserved
    <3>4. Reserved(routes[a.route], a.settlement, a.amount).reservations[b.settlement]
            = routes[a.route].reservations[b.settlement]
      BY <1>1, <2>1, <3>1, ReservationsAfter
    <3> QED
      BY <2>3, <3>2, <3>3, <3>4
  <2>4. CASE b # a /\ b.route # a.route
    BY <2>1, <2>4 DEF OTypeOK, UnpaidIsReserved
  <2> QED
    BY <2>2, <2>3, <2>4
<1> QED
  BY <1>2, <1>3, <1>4, <1>6, <1>7, <1>8

LEMMA ReleaseStep ==
  ASSUME OInv, NEW a \in Signed, ReleaseReservation(a)
  PROVE  OInv'
<1> USE SignedType DEF OInv, ReleaseReservation
<1>1. routes[a.route] \in RouteRecord
  BY DEF OTypeOK
<1>2. OTypeOK'
  <2>1. Released(routes[a.route], a.settlement, a.amount) \in RouteRecord
    BY <1>1, ReleasedType
  <2> QED
    BY <2>1 DEF OTypeOK
<1>3. (AnnouncedFinite /\ PublishedIsConsumed /\ OneMessage /\ PaidIsMarked)'
  BY DEF AnnouncedFinite, PublishedIsConsumed, OneMessage, PaidIsMarked
<1>4. UnpaidIsReserved'
  <2> SUFFICES ASSUME NEW b \in outbox, paid[b] = 0
               PROVE  routes'[b.route].reservations[b.settlement] = b.amount
    BY DEF UnpaidIsReserved
  <2>1. b \in Signed
    BY DEF OTypeOK
  <2>2. b.settlement # a.settlement
    BY DEF PaidIsMarked, OneMessage, OTypeOK
  <2>3. routes[b.route].reservations[b.settlement] = b.amount
    BY DEF UnpaidIsReserved
  <2>4. CASE b.route = a.route
    <3>1. routes'[b.route] = Released(routes[a.route], a.settlement, a.amount)
      BY <2>4, <2>1 DEF OTypeOK
    <3>2. Released(routes[a.route], a.settlement, a.amount).reservations[b.settlement]
            = routes[a.route].reservations[b.settlement]
      BY <1>1, <2>1, <2>2, ReservationsAfter
    <3> QED
      BY <2>3, <2>4, <3>1, <3>2
  <2>5. CASE b.route # a.route
    BY <2>1, <2>3, <2>5 DEF OTypeOK
  <2> QED
    BY <2>4, <2>5
<1> QED
  BY <1>2, <1>3, <1>4

LEMMA DeliverStep ==
  ASSUME OInv, NEW a \in Signed, Deliver(a)
  PROVE  OInv'
<1> USE SignedType DEF OInv
<1>1. VaultOf[a.executor] \in Route
  BY OnwardAssumption
<1> DEFINE v == VaultOf[a.executor]
<1>2. /\ a \in outbox
      /\ a.nonce \notin used[a.executor]
      /\ vault[v].balance >= a.amount
      /\ used' = [used EXCEPT ![a.executor] = @ \cup {a.nonce}]
      /\ vault' = [vault EXCEPT ![v].balance = @ - a.amount]
      /\ paid' = [paid EXCEPT ![a] = @ + 1]
      /\ UNCHANGED <<routes, announced, lapsed, hub, outbox, late, rash>>
  BY DEF Deliver
<1> HIDE DEF v
<1>3. paid[a] = 0
  BY <1>2 DEF PaidIsMarked, OTypeOK
<1>4. OTypeOK'
  <2>1. vault' \in [Route -> [balance : Nat, funded : Nat, executor : Executor]]
    <3>1. vault[v] \in [balance : Nat, funded : Nat, executor : Executor] /\ v \in Route
      BY <1>1 DEF OTypeOK, v
    <3>2. vault[v].balance - a.amount \in Nat
      BY <1>2, <3>1
    <3>3. [vault[v] EXCEPT !.balance = @ - a.amount]
            \in [balance : Nat, funded : Nat, executor : Executor]
      BY <3>1, <3>2
    <3> QED
      BY <1>2, <3>1, <3>3 DEF OTypeOK
  <2>2. used' \in [Executor -> SUBSET Nonce]
    BY <1>2 DEF OTypeOK
  <2>3. paid' \in [Signed -> Nat]
    BY <1>2 DEF OTypeOK
  <2> QED
    BY <1>2, <2>1, <2>2, <2>3 DEF OTypeOK
<1>5. (AnnouncedFinite /\ PublishedIsConsumed /\ OneMessage)'
  BY <1>2 DEF AnnouncedFinite, PublishedIsConsumed, OneMessage
<1>6. PaidIsMarked'
  <2> SUFFICES ASSUME NEW b \in Signed, paid'[b] > 0
               PROVE  b \in outbox /\ paid'[b] = 1 /\ b.nonce \in used'[b.executor]
    BY <1>2 DEF PaidIsMarked
  <2>1. CASE b = a
    BY <1>2, <1>3, <2>1 DEF OTypeOK
  <2>2. CASE b # a
    BY <1>2, <2>2 DEF OTypeOK, PaidIsMarked
  <2> QED
    BY <2>1, <2>2
<1>7. UnpaidIsReserved'
  BY <1>2 DEF UnpaidIsReserved, OTypeOK
<1> QED
  BY <1>4, <1>5, <1>6, <1>7

(* The steps that touch neither a reservation nor a payout.                *)
LEMMA OtherStep ==
  ASSUME OInv,
         \/ \E r \in Route :
              \/ Announce(r)
              \/ \E o \in announced[r] : Lapse(r, o)
              \/ Fund(r)
              \/ \E n \in 1 .. vault[r].balance : Withdraw(r, n)
              \/ \E e \in Executor : SetExecutor(r, e)
         \/ \E a \in Signed, c \in Chain : DeadlinePasses(c, a)
         \/ \E value \in BOOLEAN : SetPaused(value)
         \/ UNCHANGED vars
  PROVE  OInv'
<1> USE DEF OInv
<1>1. UNCHANGED <<routes, outbox, used, paid, hub.settlements, hub.nonces>>
  BY DEF Announce, Lapse, Fund, Withdraw, SetExecutor, DeadlinePasses, SetPaused, vars, OTypeOK
<1>2. (PublishedIsConsumed /\ OneMessage /\ PaidIsMarked /\ UnpaidIsReserved)'
  BY <1>1 DEF PublishedIsConsumed, OneMessage, PaidIsMarked, UnpaidIsReserved
<1>3. OTypeOK' /\ AnnouncedFinite'
  <2>1. CASE \E r \in Route : Announce(r)
    <3>1. PICK r \in Route : Announce(r)
      BY <2>1
    <3> DEFINE o == [nonce |-> Cardinality(announced[r]) + 1, amount |-> vault[r].balance,
                     seen |-> PaidFrom(r)]
    <3>2. /\ announced' = [announced EXCEPT ![r] = @ \cup {o}]
          /\ UNCHANGED <<routes, lapsed, hub, outbox, late, used, vault, paid, rash>>
      BY <3>1 DEF Announce
    <3>3. IsFiniteSet(announced[r])
      BY DEF AnnouncedFinite
    <3>4. Cardinality(announced[r]) \in Nat
      BY <3>3, FS_CardinalityType
    <3>5. o \in Observation
      BY <3>4 DEF Observation, OTypeOK, PaidFrom
    <3> HIDE DEF o
    <3>6. IsFiniteSet(announced[r] \cup {o})
      BY <3>3, FS_AddElement
    <3>7. AnnouncedFinite'
      BY <3>2, <3>6 DEF AnnouncedFinite, OTypeOK
    <3>8. announced' \in [Route -> SUBSET Observation]
      BY <3>2, <3>5 DEF OTypeOK
    <3> QED
      BY <3>2, <3>7, <3>8 DEF OTypeOK
  <2>2. CASE \E r \in Route : \E o \in announced[r] : Lapse(r, o)
    BY <2>2 DEF Lapse, OTypeOK, AnnouncedFinite
  <2>3. CASE \E r \in Route : Fund(r)
    BY <2>3 DEF Fund, OTypeOK, AnnouncedFinite
  <2>4. CASE \E r \in Route : \E n \in 1 .. vault[r].balance : Withdraw(r, n)
    BY <2>4 DEF Withdraw, OTypeOK, AnnouncedFinite
  <2>5. CASE \E r \in Route, e \in Executor : SetExecutor(r, e)
    BY <2>5 DEF SetExecutor, OTypeOK, AnnouncedFinite
  <2>6. CASE \E a \in Signed, c \in Chain : DeadlinePasses(c, a)
    BY <2>6 DEF DeadlinePasses, OTypeOK, AnnouncedFinite
  <2>7. CASE \E value \in BOOLEAN : SetPaused(value)
    BY <2>7 DEF SetPaused, OTypeOK, AnnouncedFinite
  <2>8. CASE UNCHANGED vars
    BY <2>8 DEF vars, OTypeOK, AnnouncedFinite
  <2> QED
    BY <2>1, <2>2, <2>3, <2>4, <2>5, <2>6, <2>7, <2>8
<1> QED
  BY <1>2, <1>3

THEOREM OStepHolds == OInv /\ [Next]_vars => OInv'
<1> SUFFICES ASSUME OInv, [Next]_vars PROVE OInv'
  OBVIOUS
<1>1. \A r \in Route : routes[r] \in RouteRecord
  BY DEF OInv, OTypeOK
<1>2. ASSUME NEW r \in Route, NEW enabled \in BOOLEAN, ConfigureRoute(r, enabled)
      PROVE  OInv'
  <2>1. Configured(routes[r], None, enabled) \in RouteRecord
    BY <1>1, ConfiguredType
  <2>2. Configured(routes[r], None, enabled).reservations = routes[r].reservations
    BY <1>1 DEF Configured, RouteRecord
  <2> QED
    BY <1>2, <2>1, <2>2, RegistryStep DEF ConfigureRoute
<1>3. ASSUME NEW r \in Route, NEW e \in Executor, NEW enabled \in BOOLEAN,
             ConfigureSettlementRoute(r, e, enabled)
      PROVE  OInv'
  <2>1. Configured(routes[r], e, enabled) \in RouteRecord
    BY <1>1, ConfiguredType
  <2>2. Configured(routes[r], e, enabled).reservations = routes[r].reservations
    BY <1>1 DEF Configured, RouteRecord
  <2> QED
    BY <1>3, <2>1, <2>2, RegistryStep DEF ConfigureSettlementRoute
<1>4. ASSUME NEW r \in Route, NEW o \in announced[r], RecordLiquidity(r, o)
      PROVE  OInv'
  <2>1. o \in Observation
    BY DEF OInv, OTypeOK
  <2>2. Observed(routes[r], o) \in RouteRecord
    BY <1>1, <2>1, ObservedType
  <2>3. Observed(routes[r], o).reservations = routes[r].reservations
    BY <1>1 DEF Observed, RouteRecord
  <2> QED
    BY <1>4, <2>2, <2>3, RegistryStep DEF RecordLiquidity
<1>5. CASE \E a \in Signed : ExecuteSettlement(a) \/ ReleaseReservation(a) \/ Deliver(a)
  BY <1>5, ExecuteStep, ReleaseStep, DeliverStep
<1> QED
  BY <1>2, <1>3, <1>4, <1>5, OtherStep DEF Next

(* The inductive invariant holds throughout.                               *)
THEOREM OnwardInductive == Spec => []OInv
BY OInitHolds, OStepHolds, PTL DEF Spec

-----------------------------------------------------------------------------
(* The contracts' storage stays well formed: no balance, reservation or    *)
(* total ever falls below zero.                                            *)
THEOREM OnwardTypeCorrect == Spec => []OTypeOK
<1>1. OInv => OTypeOK
  BY DEF OInv
<1> QED
  BY <1>1, OnwardInductive, PTL

(* No settlement is paid twice, whatever is delivered, signed again,       *)
(* paused, reconfigured or moved to another executor.                      *)
THEOREM PaidAtMostOnce == Spec => []PaidOnce
<1>1. OInv => PaidOnce
  BY DEF OInv, PaidIsMarked, OneMessage, PaidOnce
<1> QED
  BY <1>1, OnwardInductive, PTL

(* The reservation behind a published payout outlives every                *)
(* reconfiguration of its route, until the payout is made.                 *)
THEOREM UnpaidStaysReserved == Spec => []UnpaidIsReserved
<1>1. OInv => UnpaidIsReserved
  BY DEF OInv
<1> QED
  BY <1>1, OnwardInductive, PTL

(* A payout that expired unpaid is lost for its settlement.                *)
THEOREM ExpiredIsLost == Spec => ExpiredStaysUnpaid
<1> DEFINE Kept == \A a \in outbox, b \in Signed :
      a \in late["destination"] /\ paid[a] = 0 /\ a.settlement = b.settlement
        => paid'[b] = paid[b]
<1>1. OInv /\ [Next]_vars => [Kept]_vars
  <2> SUFFICES ASSUME OInv, Next,
                      NEW a \in outbox, NEW b \in Signed,
                      a \in late["destination"], paid[a] = 0, a.settlement = b.settlement
               PROVE  paid'[b] = paid[b]
    BY DEF vars
  <2>1. CASE \E c \in Signed : Deliver(c)
    <3>1. PICK c \in Signed : Deliver(c)
      BY <2>1
    <3>2. c \in outbox /\ c \notin late["destination"] /\ paid' = [paid EXCEPT ![c] = @ + 1]
      BY <3>1 DEF Deliver
    <3>3. c # b
      BY <3>2 DEF OInv, OneMessage
    <3> QED
      BY <3>2, <3>3 DEF OInv, OTypeOK
  <2>2. CASE ~ \E c \in Signed : Deliver(c)
    BY <2>2 DEF Next, ConfigureRoute, ConfigureSettlementRoute, Announce, RecordLiquidity,
         Lapse, ExecuteSettlement, ReleaseReservation, SetPaused, DeadlinePasses, Fund,
         Withdraw, SetExecutor
  <2> QED
    BY <2>1, <2>2
<1>2. [][Next]_vars /\ []OInv => [][Kept]_vars
  BY <1>1, PTL
<1> QED
  BY <1>2, OnwardInductive, PTL DEF Spec, ExpiredStaysUnpaid

-----------------------------------------------------------------------------
(* The vault behind a route covers what is published against it.  The      *)
(* invariant compares what is reserved with what no observation has seen.  *)
Amounts == [a \in Signed |-> a.amount]
Worth(S) == SumFunctionOnSet(Amounts, S)

(* What still counts on route r: the payouts whose reservation stands, and *)
(* those that the recorded observation has not seen leave the vault.       *)
Held(r) ==
  {a \in outbox : a.route = r /\ routes[r].reservations[a.settlement] = a.amount}

Unseen(r) ==
  {a \in outbox : a.route = r /\ (paid[a] = 0 \/ a \notin routes[r].observation.seen)}

(* Executors and messages belong to the vault of their own route.          *)
AtHome ==
  /\ \A r \in Route : routes[r].executor # None => VaultOf[routes[r].executor] = r
  /\ \A a \in outbox : VaultOf[a.executor] = a.route

(* A later announcement has seen every payout that an earlier one saw, and *)
(* what is recorded was announced.                                         *)
ObservationsInOrder ==
  \A r \in Route :
    /\ routes[r].observation \in announced[r] \cup {NoObservation}
    /\ \A o \in announced[r] :
         /\ o.nonce \in 1 .. Cardinality(announced[r])
         /\ o.seen \subseteq PaidFrom(r)
         /\ \A p \in announced[r] : o.nonce <= p.nonce => o.seen \subseteq p.seen

(* What was announced is still in the vault, or left it as a payout that   *)
(* the announcement has not seen.                                          *)
AnnouncedIsThere ==
  "withdrawal" \notin rash =>
    \A r \in Route : \A o \in announced[r] :
      o.amount <= vault[r].balance + Worth(PaidFrom(r) \ o.seen)

ReservedIsHeld == \A r \in Route : routes[r].reserved = Worth(Held(r))

UnseenIsHeld == "release" \notin rash => \A r \in Route : Unseen(r) \subseteq Held(r)

UnpaidIsCovered == rash = {} => \A r \in Route : Worth(Unpaid(r)) <= vault[r].balance

Prudence ==
  /\ IsFiniteSet(outbox)
  /\ AtHome
  /\ ObservationsInOrder
  /\ AnnouncedIsThere
  /\ ReservedIsHeld
  /\ UnseenIsHeld
  /\ UnpaidIsCovered

-----------------------------------------------------------------------------
(* What sets of authorizations are worth.                                  *)
LEMMA AmountsType ==
  /\ \A a \in Signed : Amounts[a] = a.amount /\ a.amount \in Nat \ {0}
  /\ \A S \in SUBSET Signed : (\A a \in S : Amounts[a] \in Nat) /\ (\A a \in S : Amounts[a] \in Int)
BY SignedType DEF Amounts

LEMMA WorthType ==
  /\ Worth({}) = 0
  /\ \A S \in SUBSET Signed : IsFiniteSet(S) => Worth(S) \in Nat
BY AmountsType, SumOfNone, SumIsNatural DEF Worth

LEMMA WorthWith ==
  ASSUME NEW S \in SUBSET Signed, IsFiniteSet(S), NEW a \in Signed, a \notin S
  PROVE  Worth(S \cup {a}) = a.amount + Worth(S)
<1>1. \A b \in S \cup {a} : Amounts[b] \in Int
  BY AmountsType
<1> QED
  BY <1>1, AmountsType, SumWith DEF Worth

LEMMA WorthWithout ==
  ASSUME NEW S \in SUBSET Signed, IsFiniteSet(S), NEW a \in S
  PROVE  Worth(S) = a.amount + Worth(S \ {a})
<1>1. \A b \in S : Amounts[b] \in Int
  BY AmountsType
<1> QED
  BY <1>1, AmountsType, SumWithout DEF Worth

LEMMA WorthOfPart ==
  ASSUME NEW S \in SUBSET Signed, IsFiniteSet(S), NEW T \in SUBSET S
  PROVE  Worth(T) <= Worth(S)
<1>1. \A b \in S : Amounts[b] \in Nat
  BY AmountsType
<1> QED
  BY <1>1, SumOfPart DEF Worth

LEMMA WorthOfUnion ==
  ASSUME NEW S \in SUBSET Signed, IsFiniteSet(S), NEW T \in SUBSET Signed, IsFiniteSet(T),
         S \cap T = {}
  PROVE  Worth(S \cup T) = Worth(S) + Worth(T)
<1>1. \A b \in S \cup T : Amounts[b] \in Int
  BY AmountsType
<1> QED
  BY <1>1, SumOfUnion DEF Worth

(* The sets of payouts that are compared consist of published messages.    *)
LEMMA Finite ==
  ASSUME OInv, Prudence, NEW r \in Route
  PROVE  /\ \A S \in SUBSET outbox : IsFiniteSet(S) /\ S \in SUBSET Signed
         /\ PaidFrom(r) \in SUBSET outbox
         /\ Unpaid(r) \in SUBSET outbox
         /\ Held(r) \in SUBSET outbox
         /\ Unseen(r) \in SUBSET outbox
<1>1. \A S \in SUBSET outbox : IsFiniteSet(S)
  BY FS_Subset DEF Prudence
<1>2. \A S \in SUBSET outbox : S \in SUBSET Signed
  BY DEF OInv, OTypeOK
<1>3. PaidFrom(r) \in SUBSET outbox
  BY DEF PaidFrom, OInv, PaidIsMarked
<1> QED
  BY <1>1, <1>2, <1>3 DEF Unpaid, Held, Unseen

LEMMA CoveredIsBacked ==
  ASSUME OInv, Prudence
  PROVE  BackedWhenPrudent
<1> SUFFICES ASSUME rash = {}, NEW r \in Route
             PROVE  SumFunction([a \in Unpaid(r) |-> a.amount]) <= vault[r].balance
  BY DEF BackedWhenPrudent, Backed
<1> DEFINE U == Unpaid(r)
           g == [a \in U |-> a.amount]
<1>1. IsFiniteSet(U) /\ U \in SUBSET Signed
  BY Finite
<1>2. \A a \in U : g[a] = Amounts[a] /\ Amounts[a] \in Int
  BY <1>1, AmountsType
<1>3. SumFunction(g) = SumFunctionOnSet(g, U)
  BY DEF SumFunction
<1>4. Worth(U) <= vault[r].balance
  BY DEF Prudence, UnpaidIsCovered
<1>5. SumFunctionOnSet(g, U) = SumFunctionOnSet(Amounts, U)
  <2> HIDE DEF U, g
  <2> QED
    BY <1>1, <1>2, SumAgrees
<1> QED
  BY <1>3, <1>4, <1>5 DEF Worth

-----------------------------------------------------------------------------
LEMMA PrudenceAtFirst == Init => Prudence
<1> SUFFICES ASSUME Init PROVE Prudence
  OBVIOUS
<1>1. outbox = {} /\ rash = {} /\ IsFiniteSet(outbox)
  BY FS_EmptySet DEF Init
<1>2. \A r \in Route : /\ routes[r] = NewRoute /\ announced[r] = {}
                       /\ Held(r) = {} /\ Unseen(r) = {} /\ Unpaid(r) = {}
  BY DEF Init, Held, Unseen, Unpaid
<1>3. AtHome
  BY <1>1, <1>2 DEF AtHome, NewRoute
<1>4. ObservationsInOrder
  BY <1>2 DEF ObservationsInOrder, NewRoute
<1>5. AnnouncedIsThere /\ UnseenIsHeld
  BY <1>2 DEF AnnouncedIsThere, UnseenIsHeld
<1>6. ReservedIsHeld
  <2>1. \A r \in Route : routes[r].reserved = 0
    BY <1>2 DEF NewRoute
  <2>2. \A r \in Route : Worth(Held(r)) = 0
    BY <1>2, WorthType
  <2> QED
    BY <2>1, <2>2 DEF ReservedIsHeld
<1>7. \A r \in Route : vault[r].balance = 0
  BY DEF Init
<1>8. UnpaidIsCovered
  BY <1>2, <1>7, WorthType DEF UnpaidIsCovered
<1> QED
  BY <1>1, <1>3, <1>4, <1>5, <1>6, <1>8 DEF Prudence

(* Configuring a route changes neither what is reserved nor what is seen.  *)
LEMMA PrudenceConfigured ==
  ASSUME OInv, Prudence, NEW r \in Route, NEW e \in Executor \cup {None},
         e = None \/ VaultOf[e] = r, NEW enabled \in BOOLEAN,
         routes' = [routes EXCEPT ![r] = Configured(@, e, enabled)],
         UNCHANGED <<announced, outbox, vault, paid, rash>>
  PROVE  Prudence'
<1>1. routes \in [Route -> RouteRecord]
  BY DEF OInv, OTypeOK
<1>2. \A q \in Route : /\ routes'[q].observation = routes[q].observation
                       /\ routes'[q].reservations = routes[q].reservations
                       /\ routes'[q].reserved = routes[q].reserved
                       /\ \/ routes'[q].executor = routes[q].executor
                          \/ q = r /\ routes'[q].executor = e
  <2> DEFINE c == Configured(routes[r], e, enabled)
  <2>1. /\ c.observation = routes[r].observation /\ c.reservations = routes[r].reservations
        /\ c.reserved = routes[r].reserved /\ c.executor = e
    BY <1>1 DEF Configured, RouteRecord
  <2>2. \A q \in Route : routes'[q] = IF q = r THEN c ELSE routes[q]
    BY <1>1
  <2> HIDE DEF c
  <2> QED
    BY <2>1, <2>2
<1>3. \A q \in Route : /\ Held(q)' = Held(q) /\ Unseen(q)' = Unseen(q)
                       /\ Unpaid(q)' = Unpaid(q) /\ PaidFrom(q)' = PaidFrom(q)
  BY <1>2 DEF Held, Unseen, Unpaid, PaidFrom
<1>4. AtHome'
  BY <1>2 DEF Prudence, AtHome
<1>5. ObservationsInOrder'
  BY <1>2, <1>3 DEF Prudence, ObservationsInOrder
<1>6. AnnouncedIsThere'
  BY <1>3 DEF Prudence, AnnouncedIsThere
<1>7. ReservedIsHeld' /\ UnseenIsHeld' /\ UnpaidIsCovered'
  BY <1>2, <1>3 DEF Prudence, ReservedIsHeld, UnseenIsHeld, UnpaidIsCovered
<1> QED
  BY <1>4, <1>5, <1>6, <1>7 DEF Prudence

(* A newer observation has seen at least what the recorded one had.        *)
LEMMA PrudenceRecorded ==
  ASSUME OInv, Prudence, NEW r \in Route, NEW o \in announced[r], RecordLiquidity(r, o)
  PROVE  Prudence'
<1>1. routes \in [Route -> RouteRecord] /\ announced \in [Route -> SUBSET Observation]
  BY DEF OInv, OTypeOK
<1>2. /\ o.nonce > routes[r].observation.nonce
      /\ routes' = [routes EXCEPT ![r] = Observed(@, o)]
      /\ UNCHANGED <<announced, outbox, vault, paid, rash>>
  BY DEF RecordLiquidity, CanObserve
<1>3. \A q \in Route : /\ routes'[q].observation = IF q = r THEN o ELSE routes[q].observation
                       /\ routes'[q].reservations = routes[q].reservations
                       /\ routes'[q].reserved = routes[q].reserved
                       /\ routes'[q].executor = routes[q].executor
  BY <1>1, <1>2 DEF Observed, RouteRecord
<1>4. \A q \in Route : /\ Held(q)' = Held(q)
                       /\ Unpaid(q)' = Unpaid(q) /\ PaidFrom(q)' = PaidFrom(q)
  BY <1>2, <1>3 DEF Held, Unpaid, PaidFrom
<1>5. AtHome'
  BY <1>2, <1>3 DEF Prudence, AtHome
<1>6. ObservationsInOrder'
  BY <1>2, <1>3, <1>4 DEF Prudence, ObservationsInOrder
<1>7. AnnouncedIsThere'
  BY <1>2, <1>4 DEF Prudence, AnnouncedIsThere
<1>8. ReservedIsHeld' /\ UnpaidIsCovered'
  BY <1>2, <1>3, <1>4 DEF Prudence, ReservedIsHeld, UnpaidIsCovered
<1>9. routes[r].observation.seen \subseteq o.seen
  <2>1. CASE routes[r].observation = NoObservation
    BY <2>1 DEF NoObservation
  <2>2. CASE routes[r].observation \in announced[r]
    BY <1>1, <1>2, <2>2 DEF Prudence, ObservationsInOrder, Observation
  <2> QED
    BY <2>1, <2>2 DEF Prudence, ObservationsInOrder
<1>10. \A q \in Route : Unseen(q)' \subseteq Unseen(q)
  BY <1>2, <1>3, <1>9 DEF Unseen
<1>11. UnseenIsHeld'
  BY <1>2, <1>4, <1>10 DEF Prudence, UnseenIsHeld
<1> QED
  BY <1>2, <1>5, <1>6, <1>7, <1>8, <1>11 DEF Prudence

(* What is announced is in the vault, and has seen every payout so far.    *)
LEMMA PrudenceAnnounced ==
  ASSUME OInv, Prudence, NEW r \in Route, Announce(r)
  PROVE  Prudence'
<1> DEFINE o == [nonce |-> Cardinality(announced[r]) + 1, amount |-> vault[r].balance,
                 seen |-> PaidFrom(r)]
<1>1. announced \in [Route -> SUBSET Observation] /\ IsFiniteSet(announced[r])
  BY DEF OInv, OTypeOK, AnnouncedFinite
<1>2. /\ announced' = [announced EXCEPT ![r] = @ \cup {o}]
      /\ UNCHANGED <<routes, outbox, vault, paid, rash>>
  BY DEF Announce
<1>3. /\ o.nonce = Cardinality(announced[r]) + 1 /\ o.amount = vault[r].balance
      /\ o.seen = PaidFrom(r)
  OBVIOUS
<1> HIDE DEF o
<1>4. \A q \in Route : /\ Held(q)' = Held(q) /\ Unseen(q)' = Unseen(q)
                       /\ Unpaid(q)' = Unpaid(q) /\ PaidFrom(q)' = PaidFrom(q)
  BY <1>2 DEF Held, Unseen, Unpaid, PaidFrom
<1>5. /\ Cardinality(announced[r]) \in Nat
      /\ \A p \in announced[r] : p.nonce \in 1 .. Cardinality(announced[r])
  BY <1>1, FS_CardinalityType DEF Prudence, ObservationsInOrder
<1>6. o \notin announced[r]
  BY <1>3, <1>5
<1>7. /\ announced'[r] = announced[r] \cup {o}
      /\ \A q \in Route \ {r} : announced'[q] = announced[q]
  BY <1>1, <1>2
<1>8. Cardinality(announced'[r]) = Cardinality(announced[r]) + 1
  <2>1. Cardinality(announced[r] \cup {o}) = Cardinality(announced[r]) + 1
    BY <1>1, <1>6, FS_AddElement
  <2> QED
    BY <1>7, <2>1
<1>9. ObservationsInOrder'
  <2> DEFINE InOrder(q, known) ==
               /\ routes[q].observation \in known \cup {NoObservation}
               /\ \A p \in known :
                    /\ p.nonce \in 1 .. Cardinality(known)
                    /\ p.seen \subseteq PaidFrom(q)
                    /\ \A s \in known : p.nonce <= s.nonce => p.seen \subseteq s.seen
  <2>2. \A q \in Route \ {r} : InOrder(q, announced'[q])
    BY <1>7 DEF Prudence, ObservationsInOrder
  <2>3. InOrder(r, announced'[r])
    <3>1. \A p \in announced[r] :
            /\ p.nonce \in 1 .. Cardinality(announced[r])
            /\ p.seen \subseteq PaidFrom(r)
            /\ \A s \in announced[r] : p.nonce <= s.nonce => p.seen \subseteq s.seen
      BY DEF Prudence, ObservationsInOrder
    <3>2. \A p \in announced[r] : p.nonce < o.nonce
      BY <1>3, <1>5
    <3>3. \A p \in announced'[r] : p.nonce \in 1 .. Cardinality(announced'[r])
      BY <1>3, <1>5, <1>7, <1>8
    <3>4. \A p \in announced'[r] : p.seen \subseteq PaidFrom(r)
      BY <1>3, <1>7, <3>1
    <3>5. \A p, s \in announced'[r] : p.nonce <= s.nonce => p.seen \subseteq s.seen
      BY <1>3, <1>5, <1>7, <3>1, <3>2
    <3>6. routes[r].observation \in announced'[r] \cup {NoObservation}
      BY <1>7 DEF Prudence, ObservationsInOrder
    <3> QED
      BY <3>3, <3>4, <3>5, <3>6
  <2>4. \A q \in Route : InOrder(q, announced'[q])
    <3> HIDE DEF InOrder
    <3> QED
      BY <2>2, <2>3
  <2>5. \A q \in Route : routes'[q].observation = routes[q].observation
    BY <1>2
  <2> QED
    BY <1>4, <2>4, <2>5 DEF ObservationsInOrder
<1>10. AnnouncedIsThere'
  <2>1. SUFFICES ASSUME "withdrawal" \notin rash, NEW q \in Route, NEW p \in announced'[q]
                 PROVE  p.amount <= vault[q].balance + Worth(PaidFrom(q) \ p.seen)
    BY <1>2, <1>4 DEF AnnouncedIsThere
  <2>2. CASE q = r /\ p = o
    <3>1. PaidFrom(r) \ o.seen = {}
      BY <1>3
    <3>2. vault[r].balance \in Nat
      BY DEF OInv, OTypeOK
    <3> QED
      BY <1>3, <2>2, <3>1, <3>2, WorthType
  <2>3. CASE p \in announced[q]
    BY <2>1, <2>3 DEF Prudence, AnnouncedIsThere
  <2> QED
    BY <1>7, <2>2, <2>3
<1>11. AtHome' /\ ReservedIsHeld' /\ UnseenIsHeld' /\ UnpaidIsCovered'
  BY <1>2, <1>4 DEF Prudence, AtHome, ReservedIsHeld, UnseenIsHeld, UnpaidIsCovered
<1> QED
  BY <1>2, <1>9, <1>10, <1>11 DEF Prudence

(* A payout is published against an observation that leaves room for every *)
(* payout it has not seen: those are what counts as reserved.              *)
LEMMA PrudenceExecuted ==
  ASSUME OInv, Prudence, NEW a \in Signed, ExecuteSettlement(a)
  PROVE  Prudence'
<1> DEFINE r == a.route
<1>1. /\ routes \in [Route -> RouteRecord] /\ r \in Route /\ a.settlement \in Settlement
      /\ a.executor \in Executor /\ a.amount \in Nat /\ a.amount # 0
      /\ outbox \subseteq Signed /\ IsFiniteSet(outbox)
  BY SignedType DEF OInv, OTypeOK, Prudence
<1>2. /\ a.settlement \notin hub.settlements
      /\ routes[r].executor = a.executor
      /\ routes[r].observation.amount >= routes[r].reserved + a.amount
      /\ routes' = [routes EXCEPT ![r] = Reserved(@, a.settlement, a.amount)]
      /\ outbox' = outbox \cup {a}
      /\ UNCHANGED <<announced, vault, paid, rash>>
  BY DEF ExecuteSettlement, Replayed, CanReserve, Available
<1> HIDE DEF r
<1>3. \A b \in outbox : b.settlement # a.settlement /\ b # a
  BY <1>2 DEF OInv, PublishedIsConsumed
<1>4. /\ routes'[r].observation = routes[r].observation
      /\ routes'[r].executor = routes[r].executor
      /\ routes'[r].reserved = routes[r].reserved + a.amount
      /\ routes'[r].reservations = [routes[r].reservations EXCEPT ![a.settlement] = a.amount]
      /\ \A q \in Route \ {r} : routes'[q] = routes[q]
  BY <1>1, <1>2 DEF Reserved, RouteRecord
<1>5. paid[a] = 0 /\ a.route = r
  BY <1>3 DEF OInv, PaidIsMarked, OTypeOK, r
<1>6. routes'[r].reservations[a.settlement] = a.amount
  BY <1>1, <1>4 DEF RouteRecord
<1>7. \A b \in outbox : b.route = r =>
        routes'[r].reservations[b.settlement] = routes[r].reservations[b.settlement]
  BY <1>1, <1>3, <1>4, SignedType DEF RouteRecord
<1>8. Held(r)' = Held(r) \cup {a} /\ \A q \in Route \ {r} : Held(q)' = Held(q)
  <2>1. Held(r)' = {b \in outbox \cup {a} :
                     b.route = r /\ routes'[r].reservations[b.settlement] = b.amount}
    BY <1>2 DEF Held
  <2>2. Held(r)' = Held(r) \cup {a}
    BY <1>5, <1>6, <1>7, <2>1 DEF Held
  <2>3. \A q \in Route \ {r} : Held(q)' = Held(q)
    BY <1>2, <1>4, <1>5 DEF Held
  <2> QED
    BY <2>2, <2>3
<1>9. Unseen(r)' \subseteq Unseen(r) \cup {a} /\ \A q \in Route \ {r} : Unseen(q)' = Unseen(q)
  BY <1>2, <1>4, <1>5 DEF Unseen
<1>10. /\ \A q \in Route : PaidFrom(q)' = PaidFrom(q)
       /\ Unpaid(r)' = Unpaid(r) \cup {a} /\ \A q \in Route \ {r} : Unpaid(q)' = Unpaid(q)
  BY <1>2, <1>5 DEF PaidFrom, Unpaid
<1>11. IsFiniteSet(outbox')
  BY <1>1, <1>2, FS_AddElement
<1>12. AtHome'
  <2>1. VaultOf[a.executor] = r
    BY <1>1, <1>2, OnwardAssumption DEF Prudence, AtHome
  <2>2. \A q \in Route : routes'[q].executor = routes[q].executor
    BY <1>4
  <2> QED
    BY <1>2, <1>5, <2>1, <2>2 DEF Prudence, AtHome
<1>13. ObservationsInOrder'
  <2>1. \A q \in Route : routes'[q].observation = routes[q].observation
    BY <1>4
  <2> QED
    BY <1>2, <1>10, <2>1 DEF Prudence, ObservationsInOrder
<1>14. AnnouncedIsThere'
  BY <1>2, <1>10 DEF Prudence, AnnouncedIsThere
<1>15. ReservedIsHeld'
  <2>1. /\ Held(r) \in SUBSET Signed /\ IsFiniteSet(Held(r)) /\ a \notin Held(r)
        /\ Worth(Held(r)) = routes[r].reserved
    BY <1>1, <1>3, Finite DEF Prudence, ReservedIsHeld
  <2>2. Worth(Held(r) \cup {a}) = a.amount + Worth(Held(r))
    BY <2>1, WorthWith
  <2>3. routes'[r].reserved = Worth(Held(r)')
    BY <1>1, <1>4, <1>8, <2>1, <2>2, WorthType
  <2>4. \A q \in Route \ {r} : routes'[q].reserved = Worth(Held(q)')
    BY <1>4, <1>8 DEF Prudence, ReservedIsHeld
  <2> QED
    BY <2>3, <2>4 DEF ReservedIsHeld
<1>16. UnseenIsHeld'
  BY <1>2, <1>8, <1>9 DEF Prudence, UnseenIsHeld
<1>17. UnpaidIsCovered'
  <2>1. SUFFICES ASSUME rash = {} PROVE Worth(Unpaid(r) \cup {a}) <= vault[r].balance
    BY <1>1, <1>2, <1>10 DEF Prudence, UnpaidIsCovered
  <2> DEFINE o == routes[r].observation
             left == PaidFrom(r) \ o.seen
  <2>2. /\ Unpaid(r) \in SUBSET Signed /\ IsFiniteSet(Unpaid(r)) /\ a \notin Unpaid(r)
        /\ left \in SUBSET Signed /\ IsFiniteSet(left)
        /\ Held(r) \in SUBSET Signed /\ IsFiniteSet(Held(r))
    BY <1>1, <1>3, Finite
  <2>3. Unseen(r) = Unpaid(r) \cup left /\ Unpaid(r) \cap left = {}
    <3>1. PaidFrom(r) \subseteq outbox /\ paid \in [Signed -> Nat]
      BY <1>1, Finite DEF OInv, OTypeOK
    <3> QED
      BY <1>1, <3>1 DEF Unseen, Unpaid, PaidFrom
  <2>4. Worth(Unseen(r)) = Worth(Unpaid(r)) + Worth(left)
    <3> HIDE DEF left
    <3> QED
      BY <2>2, <2>3, WorthOfUnion
  <2>5. Unseen(r) \subseteq Held(r)
    BY <1>1, <2>1 DEF Prudence, UnseenIsHeld
  <2>6. Worth(Unseen(r)) <= Worth(Held(r))
    BY <2>2, <2>5, WorthOfPart
  <2>7. Worth(Held(r)) = routes[r].reserved
    BY <1>1 DEF Prudence, ReservedIsHeld
  <2>8. o \in Observation /\ vault[r].balance \in Nat /\ routes[r].reserved \in Nat
    BY <1>1 DEF RouteRecord, OInv, OTypeOK
  <2>9. o.amount # 0
    BY <1>1, <1>2, <2>8 DEF Observation
  <2>10. o \in announced[r]
    BY <1>1, <2>9 DEF Prudence, ObservationsInOrder, NoObservation
  <2>11. o.amount <= vault[r].balance + Worth(left)
    BY <1>1, <2>1, <2>10 DEF Prudence, AnnouncedIsThere
  <2>12. Worth(Unpaid(r) \cup {a}) = a.amount + Worth(Unpaid(r))
    BY <2>2, WorthWith
  <2>13. /\ Worth(Unpaid(r)) \in Nat /\ Worth(left) \in Nat
         /\ Worth(Unseen(r)) \in Nat /\ Worth(Held(r)) \in Nat /\ o.amount \in Nat
    <3>1. Unseen(r) \in SUBSET Signed /\ IsFiniteSet(Unseen(r))
      BY <1>1, Finite
    <3> HIDE DEF left
    <3> QED
      BY <2>2, <2>8, <3>1, WorthType DEF Observation
  <2>14. o.amount >= routes[r].reserved + a.amount
    BY <1>2
  <2> HIDE DEF o, left
  <2> QED
    BY <1>1, <2>4, <2>6, <2>7, <2>8, <2>11, <2>12, <2>13, <2>14
<1> QED
  BY <1>11, <1>12, <1>13, <1>14, <1>15, <1>16, <1>17 DEF Prudence

(* A release takes away one payout's reservation, which is rash unless the *)
(* observation has seen it.                                                *)
LEMMA PrudenceReleased ==
  ASSUME OInv, Prudence, NEW a \in Signed, ReleaseReservation(a)
  PROVE  Prudence'
<1> DEFINE r == a.route
<1>1. /\ routes \in [Route -> RouteRecord] /\ r \in Route /\ a.settlement \in Settlement
      /\ a.amount \in Nat /\ a.amount # 0 /\ outbox \subseteq Signed
  BY SignedType DEF OInv, OTypeOK
<1>2. /\ paid[a] > 0 /\ routes[r].reservations[a.settlement] = a.amount
      /\ a.amount <= routes[r].reserved
      /\ routes' = [routes EXCEPT ![r] = Released(@, a.settlement, a.amount)]
      /\ rash' = IF a \in routes[r].observation.seen THEN rash ELSE rash \cup {"release"}
      /\ UNCHANGED <<announced, outbox, vault, paid>>
  BY DEF ReleaseReservation, CanRelease
<1>3. a.route = r
  OBVIOUS
<1> HIDE DEF r
<1>4. a \in outbox /\ \A b \in outbox \ {a} : b.settlement # a.settlement
  BY <1>2 DEF OInv, PaidIsMarked, OneMessage
<1>5. /\ routes'[r].observation = routes[r].observation
      /\ routes'[r].executor = routes[r].executor
      /\ routes'[r].reserved = routes[r].reserved - a.amount
      /\ routes'[r].reservations = [routes[r].reservations EXCEPT ![a.settlement] = 0]
      /\ \A q \in Route \ {r} : routes'[q] = routes[q]
  BY <1>1, <1>2 DEF Released, RouteRecord
<1>6. /\ routes'[r].reservations[a.settlement] # a.amount
      /\ \A b \in outbox \ {a} : b.route = r =>
           routes'[r].reservations[b.settlement] = routes[r].reservations[b.settlement]
  BY <1>1, <1>4, <1>5, SignedType DEF RouteRecord
<1>7. Held(r)' = Held(r) \ {a} /\ a \in Held(r) /\ \A q \in Route \ {r} : Held(q)' = Held(q)
  <2>1. Held(r)' = {b \in outbox : b.route = r /\ routes'[r].reservations[b.settlement] = b.amount}
    BY <1>2 DEF Held
  <2>2. Held(r)' = Held(r) \ {a}
    BY <1>6, <2>1 DEF Held
  <2>3. \A q \in Route \ {r} : Held(q)' = Held(q)
    BY <1>2, <1>5 DEF Held
  <2> QED
    BY <1>2, <1>3, <1>4, <2>2, <2>3 DEF Held
<1>8. \A q \in Route : routes'[q].observation = routes[q].observation
  BY <1>5
<1>9. \A q \in Route : /\ Unseen(q)' = Unseen(q) /\ Unpaid(q)' = Unpaid(q)
                       /\ PaidFrom(q)' = PaidFrom(q)
  BY <1>2, <1>8 DEF Unseen, Unpaid, PaidFrom
<1>10. AtHome'
  <2>1. \A q \in Route : routes'[q].executor = routes[q].executor
    BY <1>5
  <2> QED
    BY <1>2, <2>1 DEF Prudence, AtHome
<1>11. ObservationsInOrder'
  BY <1>2, <1>8, <1>9 DEF Prudence, ObservationsInOrder
<1>12. rash \subseteq rash' /\ ("withdrawal" \in rash' => "withdrawal" \in rash)
  BY <1>2
<1>13. AnnouncedIsThere'
  BY <1>2, <1>9, <1>12 DEF Prudence, AnnouncedIsThere
<1>14. ReservedIsHeld'
  <2>1. /\ Held(r) \in SUBSET Signed /\ IsFiniteSet(Held(r))
        /\ Held(r) \ {a} \in SUBSET Signed /\ IsFiniteSet(Held(r) \ {a})
        /\ Worth(Held(r)) = routes[r].reserved
    BY <1>1, Finite DEF Prudence, ReservedIsHeld
  <2>2. Worth(Held(r)) = a.amount + Worth(Held(r) \ {a}) /\ Worth(Held(r) \ {a}) \in Nat
    BY <1>7, <2>1, WorthWithout, WorthType
  <2>3. routes'[r].reserved = Worth(Held(r)')
    BY <1>1, <1>5, <1>7, <2>1, <2>2
  <2>4. \A q \in Route \ {r} : routes'[q].reserved = Worth(Held(q)')
    BY <1>5, <1>7 DEF Prudence, ReservedIsHeld
  <2> QED
    BY <2>3, <2>4 DEF ReservedIsHeld
<1>15. UnseenIsHeld'
  <2>1. SUFFICES ASSUME "release" \notin rash', NEW q \in Route PROVE Unseen(q) \subseteq Held(q)'
    BY <1>9 DEF UnseenIsHeld
  <2>2. a \in routes[r].observation.seen /\ Unseen(q) \subseteq Held(q)
    BY <1>2, <1>12, <2>1 DEF Prudence, UnseenIsHeld
  <2>3. a \notin Unseen(r)
    BY <1>2, <2>2 DEF Unseen, OInv, OTypeOK
  <2> QED
    BY <1>7, <2>2, <2>3
<1>16. UnpaidIsCovered'
  BY <1>2, <1>9, <1>12 DEF Prudence, UnpaidIsCovered
<1> QED
  BY <1>2, <1>10, <1>11, <1>13, <1>14, <1>15, <1>16 DEF Prudence

(* A payment takes from its vault what it takes off the unpaid payouts,    *)
(* and no announcement so far has seen it.                                 *)
LEMMA PrudenceDelivered ==
  ASSUME OInv, Prudence, NEW a \in Signed, Deliver(a)
  PROVE  Prudence'
<1> DEFINE r == a.route
<1>1. /\ a \in outbox /\ a.nonce \notin used[a.executor] /\ VaultOf[a.executor] = r
      /\ vault[r].balance >= a.amount
      /\ vault' = [vault EXCEPT ![r].balance = @ - a.amount]
      /\ paid' = [paid EXCEPT ![a] = @ + 1]
      /\ UNCHANGED <<routes, announced, outbox, rash>>
  BY DEF Deliver, Prudence, AtHome
<1>2. /\ r \in Route /\ a.route = r /\ a.amount \in Nat
      /\ vault \in [Route -> [balance : Nat, funded : Nat, executor : Executor]]
      /\ paid \in [Signed -> Nat] /\ outbox \subseteq Signed
  BY SignedType DEF OInv, OTypeOK
<1> HIDE DEF r
<1>3. paid[a] = 0 /\ paid'[a] = 1 /\ \A b \in Signed \ {a} : paid'[b] = paid[b]
  BY <1>1, <1>2 DEF OInv, PaidIsMarked
<1>4. /\ vault'[r].balance = vault[r].balance - a.amount /\ vault'[r].balance \in Nat
      /\ \A q \in Route \ {r} : vault'[q].balance = vault[q].balance
      /\ \A q \in Route : vault[q].balance \in Nat
  BY <1>1, <1>2
<1>5. /\ PaidFrom(r)' = PaidFrom(r) \cup {a} /\ a \notin PaidFrom(r)
      /\ \A q \in Route \ {r} : PaidFrom(q)' = PaidFrom(q)
  BY <1>2, <1>3 DEF PaidFrom
<1>6. /\ Unpaid(r)' = Unpaid(r) \ {a} /\ a \in Unpaid(r)
      /\ \A q \in Route \ {r} : Unpaid(q)' = Unpaid(q)
  BY <1>1, <1>2, <1>3 DEF Unpaid
<1>7. \A q \in Route : Held(q)' = Held(q) /\ Unseen(q)' \subseteq Unseen(q)
  BY <1>1, <1>2, <1>3 DEF Held, Unseen
<1>8. AtHome' /\ ReservedIsHeld' /\ UnseenIsHeld'
  BY <1>1, <1>7 DEF Prudence, AtHome, ReservedIsHeld, UnseenIsHeld
<1>9. \A q \in Route : PaidFrom(q) \subseteq PaidFrom(q)'
  BY <1>5
<1>10. ObservationsInOrder'
  BY <1>1, <1>9 DEF Prudence, ObservationsInOrder
<1>11. AnnouncedIsThere'
  <2>1. SUFFICES ASSUME "withdrawal" \notin rash, NEW q \in Route, NEW o \in announced[q]
                 PROVE  o.amount <= vault'[q].balance + Worth(PaidFrom(q)' \ o.seen)
    BY <1>1 DEF AnnouncedIsThere
  <2>2. o.amount <= vault[q].balance + Worth(PaidFrom(q) \ o.seen)
    BY <2>1 DEF Prudence, AnnouncedIsThere
  <2>3. CASE q = r
    <3> DEFINE left == PaidFrom(r) \ o.seen
    <3>1. o.seen \subseteq PaidFrom(r)
      BY <2>3 DEF Prudence, ObservationsInOrder
    <3>2. PaidFrom(r)' \ o.seen = left \cup {a} /\ a \notin left
      BY <1>5, <3>1
    <3>3. left \in SUBSET Signed /\ IsFiniteSet(left)
      BY <1>2, Finite
    <3>4. Worth(left \cup {a}) = a.amount + Worth(left) /\ Worth(left) \in Nat
      <4> HIDE DEF left
      <4> QED
        BY <3>2, <3>3, WorthWith, WorthType
    <3>5. o.amount \in Nat
      BY DEF OInv, OTypeOK, Observation
    <3>6. o.amount <= vault[r].balance + Worth(left)
      BY <2>2, <2>3
    <3>7. Worth(PaidFrom(r)' \ o.seen) = a.amount + Worth(left)
      BY <3>2, <3>4
    <3> HIDE DEF left
    <3>8. o.amount <= vault'[r].balance + Worth(PaidFrom(r)' \ o.seen)
      BY <1>2, <1>4, <3>4, <3>5, <3>6, <3>7
    <3> QED
      BY <2>3, <3>8
  <2>4. CASE q # r
    BY <1>4, <1>5, <2>2, <2>4
  <2> QED
    BY <2>3, <2>4
<1>12. UnpaidIsCovered'
  <2>1. SUFFICES ASSUME rash = {}, NEW q \in Route
                 PROVE  Worth(Unpaid(q)') <= vault'[q].balance
    BY <1>1 DEF UnpaidIsCovered
  <2>2. Worth(Unpaid(q)) <= vault[q].balance
    BY <2>1 DEF Prudence, UnpaidIsCovered
  <2>3. CASE q = r
    <3>1. /\ Unpaid(r) \in SUBSET Signed /\ IsFiniteSet(Unpaid(r))
          /\ Unpaid(r) \ {a} \in SUBSET Signed /\ IsFiniteSet(Unpaid(r) \ {a})
      BY <1>2, Finite
    <3>2. Worth(Unpaid(r)) = a.amount + Worth(Unpaid(r) \ {a}) /\ Worth(Unpaid(r) \ {a}) \in Nat
      BY <1>6, <3>1, WorthWithout, WorthType
    <3> DEFINE rest == Worth(Unpaid(r) \ {a})
    <3>3. a.amount + rest <= vault[r].balance /\ rest \in Nat
      BY <2>2, <2>3, <3>2
    <3>4. Worth(Unpaid(r)') = rest
      BY <1>6
    <3> HIDE DEF rest
    <3>5. rest <= vault'[r].balance
      BY <1>2, <1>4, <3>3
    <3> QED
      BY <2>3, <3>4, <3>5
  <2>4. CASE q # r
    BY <1>4, <1>6, <2>2, <2>4
  <2> QED
    BY <2>3, <2>4
<1> QED
  BY <1>1, <1>8, <1>10, <1>11, <1>12 DEF Prudence

(* The remaining steps touch the vaults' balances alone, or nothing that   *)
(* this invariant is about.                                                *)
LEMMA PrudenceElsewhere ==
  ASSUME OInv, Prudence,
         UNCHANGED <<routes, announced, outbox, paid>>,
         rash \subseteq rash',
         \A r \in Route : vault'[r].balance \in Nat,
         "withdrawal" \notin rash' => \A r \in Route : vault'[r].balance >= vault[r].balance
  PROVE  Prudence'
<1>1. \A r \in Route : /\ Held(r)' = Held(r) /\ Unseen(r)' = Unseen(r)
                       /\ Unpaid(r)' = Unpaid(r) /\ PaidFrom(r)' = PaidFrom(r)
  BY DEF Held, Unseen, Unpaid, PaidFrom
<1>2. AtHome' /\ ReservedIsHeld' /\ UnseenIsHeld'
  BY <1>1 DEF Prudence, AtHome, ReservedIsHeld, UnseenIsHeld
<1>3. ObservationsInOrder'
  BY <1>1 DEF Prudence, ObservationsInOrder
<1>4. AnnouncedIsThere'
  <2>1. SUFFICES ASSUME "withdrawal" \notin rash', NEW r \in Route, NEW o \in announced[r]
                 PROVE  o.amount <= vault'[r].balance + Worth(PaidFrom(r) \ o.seen)
    BY <1>1 DEF AnnouncedIsThere
  <2>2. o.amount <= vault[r].balance + Worth(PaidFrom(r) \ o.seen)
    BY <2>1 DEF Prudence, AnnouncedIsThere
  <2>3. PaidFrom(r) \ o.seen \in SUBSET outbox
    BY Finite
  <2>4. Worth(PaidFrom(r) \ o.seen) \in Nat
    BY <2>3, Finite, WorthType
  <2>5. /\ o.amount \in Nat /\ vault[r].balance \in Nat /\ vault'[r].balance \in Nat
        /\ vault'[r].balance >= vault[r].balance
    BY <2>1 DEF OInv, OTypeOK, Observation
  <2> QED
    BY <2>2, <2>4, <2>5
<1>5. UnpaidIsCovered'
  <2>1. SUFFICES ASSUME rash' = {}, NEW r \in Route
                 PROVE  Worth(Unpaid(r)) <= vault'[r].balance
    BY <1>1 DEF UnpaidIsCovered
  <2>2. Worth(Unpaid(r)) <= vault[r].balance
    BY <2>1 DEF Prudence, UnpaidIsCovered
  <2>3. Worth(Unpaid(r)) \in Nat
    BY Finite, WorthType
  <2>4. /\ vault[r].balance \in Nat /\ vault'[r].balance \in Nat
        /\ vault'[r].balance >= vault[r].balance
    BY <2>1 DEF OInv, OTypeOK
  <2> QED
    BY <2>2, <2>3, <2>4
<1> QED
  BY <1>2, <1>3, <1>4, <1>5 DEF Prudence

LEMMA PrudenceKept == OInv /\ Prudence /\ [Next]_vars => Prudence'
<1> SUFFICES ASSUME OInv, Prudence, [Next]_vars PROVE Prudence'
  OBVIOUS
<1>1. vault \in [Route -> [balance : Nat, funded : Nat, executor : Executor]]
  BY DEF OInv, OTypeOK
<1>2. ASSUME NEW r \in Route, NEW enabled \in BOOLEAN, ConfigureRoute(r, enabled)
      PROVE  Prudence'
  BY <1>2, PrudenceConfigured DEF ConfigureRoute
<1>3. ASSUME NEW r \in Route, NEW e \in Executor, NEW enabled \in BOOLEAN,
             ConfigureSettlementRoute(r, e, enabled)
      PROVE  Prudence'
  BY <1>3, PrudenceConfigured DEF ConfigureSettlementRoute
<1>4. ASSUME NEW r \in Route, Fund(r)
      PROVE  Prudence'
  <2>1. /\ vault'[r].balance = vault[r].balance + 1
        /\ \A q \in Route \ {r} : vault'[q] = vault[q]
    BY <1>1, <1>4 DEF Fund
  <2>2. UNCHANGED <<routes, announced, outbox, paid, rash>>
    BY <1>4 DEF Fund
  <2>3. \A q \in Route : vault'[q].balance \in Nat /\ vault'[q].balance >= vault[q].balance
    BY <1>1, <2>1
  <2> QED
    BY <2>2, <2>3, PrudenceElsewhere
<1>5. ASSUME NEW r \in Route, NEW n \in 1 .. vault[r].balance, Withdraw(r, n)
      PROVE  Prudence'
  <2>1. /\ vault'[r].balance = vault[r].balance - n
        /\ \A q \in Route \ {r} : vault'[q] = vault[q]
    BY <1>1, <1>5 DEF Withdraw
  <2>2. UNCHANGED <<routes, announced, outbox, paid>> /\ rash' = rash \cup {"withdrawal"}
    BY <1>5 DEF Withdraw
  <2>3. \A q \in Route : vault'[q].balance \in Nat
    BY <1>1, <2>1
  <2> QED
    BY <2>2, <2>3, PrudenceElsewhere
<1>6. ASSUME \/ \E r \in Route : \/ \E o \in announced[r] : Lapse(r, o)
                                 \/ \E e \in Executor : SetExecutor(r, e)
             \/ \E a \in Signed, c \in Chain : DeadlinePasses(c, a)
             \/ \E value \in BOOLEAN : SetPaused(value)
             \/ UNCHANGED vars
      PROVE  Prudence'
  <2>1. UNCHANGED <<routes, announced, outbox, paid, rash>>
    BY <1>6 DEF Lapse, SetExecutor, DeadlinePasses, SetPaused, vars
  <2>2. \A q \in Route : vault'[q].balance = vault[q].balance
    <3>1. CASE \E r \in Route, e \in Executor : SetExecutor(r, e)
      BY <1>1, <3>1 DEF SetExecutor
    <3>2. CASE UNCHANGED vault
      BY <3>2
    <3> QED
      BY <1>6, <3>1, <3>2 DEF Lapse, DeadlinePasses, SetPaused, vars
  <2>3. \A q \in Route : vault'[q].balance \in Nat /\ vault'[q].balance >= vault[q].balance
    BY <1>1, <2>2
  <2> QED
    BY <2>1, <2>3, PrudenceElsewhere
<1> QED
  BY <1>2, <1>3, <1>4, <1>5, <1>6, PrudenceRecorded, PrudenceAnnounced, PrudenceExecuted,
     PrudenceReleased, PrudenceDelivered DEF Next

(* The vault of a route can pay all that was published against it, as long *)
(* as its owner withdraws nothing and no payout is released before an      *)
(* observation has seen it: through every order of observations,           *)
(* reservations, messages, lapses and reconfigurations.                    *)
THEOREM PrudentIsBacked == Spec => []BackedWhenPrudent
<1>1. Spec => []Prudence
  BY PrudenceAtFirst, PrudenceKept, OnwardInductive, PTL DEF Spec
<1> QED
  BY <1>1, CoveredIsBacked, OnwardInductive, PTL

-----------------------------------------------------------------------------
(* The direct lane.  What was paid is what the hub has marked, and the     *)
(* lane's total counts each payment once, at its amount.                   *)
PaidDirectly == {a \in DirectSigned : lanePaid[a] > 0}

DirectRecord ==
  [enabled : BOOLEAN, executor : Executor \cup {None},
   observation : [nonce : Nat, amount : Nat, seen : SUBSET DirectSigned],
   reservations : [Settlement -> Nat], reserved : Nat]

DirectTypeOK ==
  /\ lane \in DirectRecord
  /\ laneFresh \in BOOLEAN
  /\ laneHub \in [settlements : SUBSET Settlement, nonces : SUBSET DirectNonce]
  /\ laneLate \subseteq DirectSigned
  /\ laneVault \in [balance : Nat, funded : Nat, executor : Executor]
  /\ lanePaid \in [DirectSigned -> Nat]

DirectPaidIsMarked ==
  \A a \in PaidDirectly :
    /\ lanePaid[a] = 1
    /\ a.settlement \in laneHub.settlements
    /\ a.nonce \in laneHub.nonces
    /\ lane.reservations[a.settlement] = a.amount

DirectPaidApart ==
  \A a, b \in PaidDirectly : a.settlement = b.settlement \/ a.nonce = b.nonce => a = b

DirectTotal ==
  /\ IsFiniteSet(PaidDirectly)
  /\ lane.reserved = SumFunctionOnSet([a \in DirectSigned |-> a.amount], PaidDirectly)

DirectInv == DirectTypeOK /\ DirectPaidIsMarked /\ DirectPaidApart /\ DirectTotal

-----------------------------------------------------------------------------
LEMMA DirectSignedType ==
  ASSUME NEW a \in DirectSigned
  PROVE  /\ a.settlement \in Settlement
         /\ a.nonce \in DirectNonce
         /\ a.executor \in Executor
         /\ a.amount \in Nat
BY DirectAssumption DEF DirectAuthorization

(* What the payouts made sum to is the invariant's total.                  *)
LEMMA DirectTotalIsPaid ==
  ASSUME DirectInv
  PROVE  PaidStaysReserved
<1> DEFINE amounts == [a \in DirectSigned |-> a.amount]
           paidOut == [a \in PaidDirectly |-> a.amount * lanePaid[a]]
<1>1. \A a \in PaidDirectly : a \in DirectSigned /\ a.amount \in Int /\ lanePaid[a] = 1
  BY DirectSignedType DEF DirectInv, DirectPaidIsMarked, PaidDirectly
<1>2. \A a \in PaidDirectly : paidOut[a] = amounts[a]
  BY <1>1
<1>3. SumFunctionOnSet(paidOut, PaidDirectly) = SumFunctionOnSet(amounts, PaidDirectly)
  <2> HIDE DEF amounts, paidOut
  <2> QED
    BY <1>2, SumAgrees DEF DirectInv, DirectTotal
<1>4. SumFunction(paidOut) = SumFunctionOnSet(paidOut, PaidDirectly)
  BY DEF SumFunction
<1>5. lane.reserved = SumFunction([a \in PaidDirectly |-> a.amount * lanePaid[a]])
  BY <1>3, <1>4 DEF DirectInv, DirectTotal
<1>6. \A a \in PaidDirectly : lane.reservations[a.settlement] = a.amount
  BY DEF DirectInv, DirectPaidIsMarked
<1>7. \A a, b \in PaidDirectly :
        a.settlement = b.settlement \/ a.nonce = b.nonce => a = b /\ lanePaid[a] = 1
  BY DEF DirectInv, DirectPaidIsMarked, DirectPaidApart
<1> HIDE DEF paidOut, amounts
<1>8. PaidStaysReserved <=>
        /\ lane.reserved = SumFunction([a \in PaidDirectly |-> a.amount * lanePaid[a]])
        /\ \A a \in PaidDirectly : lane.reservations[a.settlement] = a.amount
        /\ \A a, b \in PaidDirectly :
             a.settlement = b.settlement \/ a.nonce = b.nonce => a = b /\ lanePaid[a] = 1
  BY Zenon DEF PaidStaysReserved, PaidDirectly
<1> QED
  BY <1>5, <1>6, <1>7, <1>8, Zenon

THEOREM DirectInitHolds == DirectInit => DirectInv
<1> SUFFICES ASSUME DirectInit PROVE DirectInv
  OBVIOUS
<1> USE DirectAssumption DEF DirectInit
<1>1. DirectTypeOK
  <2>1. lane \in DirectRecord
    BY DEF DirectRecord, NewRoute, NoObservation
  <2>2. laneVault \in [balance : Nat, funded : Nat, executor : Executor]
    OBVIOUS
  <2> QED
    BY <2>1, <2>2 DEF DirectTypeOK
<1>2. PaidDirectly = {}
  BY DEF PaidDirectly
<1>3. DirectPaidIsMarked /\ DirectPaidApart
  BY <1>2 DEF DirectPaidIsMarked, DirectPaidApart
<1>4. IsFiniteSet(PaidDirectly)
  BY <1>2, FS_EmptySet
<1>5. lane.reserved = 0
  BY DEF NewRoute
<1>6. DirectTotal
  BY <1>2, <1>4, <1>5, SumOfNone DEF DirectTotal
<1> QED
  BY <1>1, <1>3, <1>6 DEF DirectInv

(* A payout that is made is new to the hub, so it adds its own amount.     *)
LEMMA DirectPayoutStep ==
  ASSUME DirectInv, NEW a \in DirectSigned, ExecuteDirectSettlement(a)
  PROVE  DirectInv'
<1> USE DEF DirectInv
<1> DEFINE amounts == [b \in DirectSigned |-> b.amount]
<1>1. /\ a.settlement \in Settlement /\ a.nonce \in DirectNonce /\ a.amount \in Nat
      /\ \A b \in DirectSigned : b.amount \in Nat
  BY DirectSignedType
<1>2. /\ a.settlement \notin laneHub.settlements /\ a.nonce \notin laneHub.nonces
      /\ laneVault.balance >= a.amount
      /\ lane' = Reserved(lane, a.settlement, a.amount)
      /\ laneHub' = [laneHub EXCEPT !.settlements = @ \cup {a.settlement},
                                    !.nonces = @ \cup {a.nonce}]
      /\ laneVault' = [laneVault EXCEPT !.balance = @ - a.amount]
      /\ lanePaid' = [lanePaid EXCEPT ![a] = @ + 1]
      /\ UNCHANGED <<laneFresh, laneLate>>
  BY DEF ExecuteDirectSettlement, DirectReplayed
<1>3. a \notin PaidDirectly /\ lanePaid[a] = 0
  BY <1>2 DEF DirectPaidIsMarked, PaidDirectly, DirectTypeOK
<1>4. PaidDirectly' = PaidDirectly \cup {a}
  BY <1>2, <1>3 DEF PaidDirectly, DirectTypeOK
<1>5. /\ lane.reservations \in [Settlement -> Nat] /\ lane.reserved \in Nat
      /\ lane'.reservations = [lane.reservations EXCEPT ![a.settlement] = a.amount]
      /\ lane'.reserved = lane.reserved + a.amount
  BY <1>2 DEF Reserved, DirectTypeOK, DirectRecord
<1>6. DirectTypeOK'
  <2>1. lane' \in DirectRecord
    <3> DEFINE reservations == [lane.reservations EXCEPT ![a.settlement] = a.amount]
               reserved == lane.reserved + a.amount
    <3>1. reservations \in [Settlement -> Nat] /\ reserved \in Nat
      BY <1>1, <1>5
    <3>2. lane' = [lane EXCEPT !.reservations = reservations, !.reserved = reserved]
      BY <1>2 DEF Reserved
    <3> HIDE DEF reservations, reserved
    <3> QED
      BY <3>1, <3>2 DEF DirectTypeOK, DirectRecord
  <2>2. laneHub' \in [settlements : SUBSET Settlement, nonces : SUBSET DirectNonce]
    BY <1>1, <1>2 DEF DirectTypeOK
  <2>3. laneVault' \in [balance : Nat, funded : Nat, executor : Executor]
    BY <1>1, <1>2 DEF DirectTypeOK
  <2>4. lanePaid' \in [DirectSigned -> Nat]
    BY <1>2 DEF DirectTypeOK
  <2> QED
    BY <1>2, <2>1, <2>2, <2>3, <2>4 DEF DirectTypeOK
<1>7. \A b \in PaidDirectly : b.settlement # a.settlement /\ b.nonce # a.nonce
  BY <1>2 DEF DirectPaidIsMarked
<1>8. DirectPaidIsMarked'
  <2> SUFFICES ASSUME NEW b \in PaidDirectly \cup {a}
               PROVE  /\ lanePaid'[b] = 1
                      /\ b.settlement \in laneHub'.settlements
                      /\ b.nonce \in laneHub'.nonces
                      /\ lane'.reservations[b.settlement] = b.amount
    BY <1>4 DEF DirectPaidIsMarked
  <2>1. CASE b = a
    BY <1>1, <1>2, <1>3, <1>5, <2>1 DEF DirectTypeOK
  <2>2. CASE b # a
    <3>1. b \in DirectSigned /\ b.settlement \in Settlement
      BY <2>2, DirectSignedType DEF PaidDirectly
    <3>2. /\ lanePaid[b] = 1 /\ b.settlement \in laneHub.settlements /\ b.nonce \in laneHub.nonces
          /\ lane.reservations[b.settlement] = b.amount /\ b.settlement # a.settlement
      BY <2>2, <1>7 DEF DirectPaidIsMarked
    <3> QED
      BY <1>2, <1>5, <2>2, <3>1, <3>2 DEF DirectTypeOK
  <2> QED
    BY <2>1, <2>2
<1>9. DirectPaidApart'
  BY <1>4, <1>7 DEF DirectPaidApart
<1>10. DirectTotal'
  <2>1. \A b \in PaidDirectly \cup {a} : amounts[b] \in Int
    BY <1>1 DEF PaidDirectly
  <2>2. amounts[a] = a.amount
    OBVIOUS
  <2> HIDE DEF amounts
  <2>3. IsFiniteSet(PaidDirectly)
    BY DEF DirectTotal
  <2>4. SumFunctionOnSet(amounts, PaidDirectly \cup {a})
          = amounts[a] + SumFunctionOnSet(amounts, PaidDirectly)
    BY <1>3, <2>1, <2>3, SumWith
  <2>5. IsFiniteSet(PaidDirectly \cup {a})
    BY <2>3, FS_AddElement
  <2>6. SumFunctionOnSet(amounts, PaidDirectly) = lane.reserved
    BY DEF DirectTotal, amounts
  <2>7. lane'.reserved = SumFunctionOnSet(amounts, PaidDirectly \cup {a})
    BY <1>1, <1>5, <2>2, <2>4, <2>6
  <2> QED
    BY <1>4, <2>5, <2>7 DEF DirectTotal, amounts
<1> QED
  BY <1>6, <1>8, <1>9, <1>10

(* Every other step leaves the payments and the lane's reservations alone. *)
LEMMA DirectOtherStep ==
  ASSUME DirectInv, DirectTypeOK',
         UNCHANGED <<lane.reservations, lane.reserved, laneHub, lanePaid>>
  PROVE  DirectInv'
<1>1. PaidDirectly' = PaidDirectly
  BY DEF PaidDirectly
<1> QED
  BY <1>1 DEF DirectInv, DirectPaidIsMarked, DirectPaidApart, DirectTotal

THEOREM DirectStepHolds == DirectInv /\ [DirectNext]_directVars => DirectInv'
<1> SUFFICES ASSUME DirectInv, [DirectNext]_directVars PROVE DirectInv'
  OBVIOUS
<1> USE DEF DirectInv
<1>1. ASSUME NEW e \in Executor, NEW enabled \in BOOLEAN, ConfigureDirectRoute(e, enabled)
      PROVE  DirectInv'
  <2>1. /\ lane'.reservations = lane.reservations /\ lane'.reserved = lane.reserved
        /\ DirectTypeOK' /\ UNCHANGED <<laneHub, lanePaid>>
    BY <1>1 DEF ConfigureDirectRoute, Configured, DirectTypeOK, DirectRecord
  <2> QED
    BY <2>1, DirectOtherStep
<1>2. CASE ObserveLocalLiquidity
  <2> DEFINE o == [nonce |-> lane.observation.nonce + 1, amount |-> laneVault.balance,
                   seen |-> {a \in DirectSigned : lanePaid[a] > 0}]
  <2>1. o \in [nonce : Nat, amount : Nat, seen : SUBSET DirectSigned]
    BY DEF DirectTypeOK, DirectRecord
  <2>2. /\ lane' = [lane EXCEPT !.observation = o] /\ laneFresh' = TRUE
        /\ UNCHANGED <<laneHub, laneLate, laneVault, lanePaid>>
    BY <1>2 DEF ObserveLocalLiquidity, Observed
  <2> HIDE DEF o
  <2>4. lane'.reservations = lane.reservations /\ lane'.reserved = lane.reserved
    BY <2>2 DEF DirectTypeOK, DirectRecord
  <2>5. lane' \in DirectRecord
    BY <2>1, <2>2 DEF DirectTypeOK, DirectRecord
  <2>3. /\ lane'.reservations = lane.reservations /\ lane'.reserved = lane.reserved
        /\ DirectTypeOK'
    BY <2>2, <2>4, <2>5 DEF DirectTypeOK
  <2> QED
    BY <2>2, <2>3, DirectOtherStep
<1>3. CASE ObservationLapses
  BY <1>3, DirectOtherStep DEF ObservationLapses, DirectTypeOK
<1>4. CASE FundDirect
  <2>1. laneVault' \in [balance : Nat, funded : Nat, executor : Executor]
    <3> DEFINE balance == laneVault.balance + 1
               funded == laneVault.funded + 1
    <3>1. balance \in Nat /\ funded \in Nat
      BY DEF DirectTypeOK
    <3>2. laneVault' = [laneVault EXCEPT !.balance = balance, !.funded = funded]
      BY <1>4 DEF FundDirect
    <3> HIDE DEF balance, funded
    <3> QED
      BY <3>1, <3>2 DEF DirectTypeOK
  <2>2. UNCHANGED <<lane, laneFresh, laneHub, laneLate, lanePaid>>
    BY <1>4 DEF FundDirect
  <2> QED
    BY <2>1, <2>2, DirectOtherStep DEF DirectTypeOK
<1>5. ASSUME NEW n \in 1 .. laneVault.balance, WithdrawDirect(n)
      PROVE  DirectInv'
  BY <1>5, DirectOtherStep DEF WithdrawDirect, DirectTypeOK
<1>6. ASSUME NEW e \in Executor, SetDirectExecutor(e)
      PROVE  DirectInv'
  BY <1>6, DirectOtherStep DEF SetDirectExecutor, DirectTypeOK
<1>7. ASSUME NEW a \in DirectSigned, DirectDeadlinePasses(a)
      PROVE  DirectInv'
  BY <1>7, DirectOtherStep DEF DirectDeadlinePasses, DirectTypeOK
<1>8. CASE UNCHANGED directVars
  BY <1>8, DirectOtherStep DEF directVars, DirectTypeOK
<1> QED
  BY <1>1, <1>2, <1>3, <1>4, <1>5, <1>6, <1>7, <1>8, DirectPayoutStep DEF DirectNext

(* The invariant of the direct lane holds throughout.                      *)
THEOREM DirectInductive == DirectSpec => []DirectInv
BY DirectInitHolds, DirectStepHolds, PTL DEF DirectSpec

(* What the direct lane has reserved is exactly what it has ever paid, and *)
(* no settlement and no nonce is paid twice.                               *)
THEOREM DirectPaidReserved == DirectSpec => []PaidStaysReserved
BY DirectTotalIsPaid, DirectInductive, PTL

-----------------------------------------------------------------------------
(* Admission of destination routes.  The invariant adds to the types what  *)
(* ties a route's tally to the accounts that voted, and votes to a window. *)
TallyIsVoters ==
  \A r \in Destination : destinations[r].voteCount = Cardinality(hasVoted[r])

VotesInWindow ==
  \A r \in Destination : \A v \in hasVoted[r] :
    /\ Proposed(r)
    /\ votedAt[r][v] \in destinations[r].proposedAt .. destinations[r].votingEndsAt

ActiveIsDue ==
  \A r \in Destination : destinations[r].active =>
    Proposed(r) /\ destinations[r].voteCount >= Quorum /\ now >= destinations[r].activationAt

AInv == AdmissionTypeOK /\ TallyIsVoters /\ VotesInWindow /\ ActiveIsDue

(* A route without a proposal has neither votes nor activity.              *)
LEMMA UnproposedIsBlank ==
  ASSUME AInv, NEW r \in Destination, ~Proposed(r)
  PROVE  hasVoted[r] = {} /\ destinations[r].voteCount = 0 /\ ~destinations[r].active
<1>1. hasVoted[r] = {}
  BY DEF AInv, VotesInWindow
<1>2. destinations[r].voteCount = 0
  BY <1>1, FS_EmptySet DEF AInv, TallyIsVoters
<1>. QED BY <1>1, <1>2 DEF AInv, ActiveIsDue

(* The constructor leaves every route blank.                               *)
LEMMA InitAdmission == AdmissionInit => AInv
<1>. SUFFICES ASSUME AdmissionInit PROVE AInv
  OBVIOUS
<1>1. AdmissionTypeOK
  BY DEF AdmissionInit, AdmissionTypeOK, DestinationRecord, Proposed
<1>2. TallyIsVoters
  BY FS_EmptySet DEF AdmissionInit, TallyIsVoters
<1>3. VotesInWindow
  BY DEF AdmissionInit, VotesInWindow
<1>4. ActiveIsDue
  BY DEF AdmissionInit, ActiveIsDue
<1>. QED BY <1>1, <1>2, <1>3, <1>4 DEF AInv

(* Proposing starts a blank route's window at the current block.           *)
LEMMA ProposeKeeps ==
  ASSUME AInv, NEW p \in Proposals, ProposeRoute(p)
  PROVE  AInv'
<1>. USE AdmissionAssumption
<1>1. p.route \in Destination /\ p.terms \in Terms /\ ~Proposed(p.route)
  BY DEF ProposeRoute, Open
<1>2. hasVoted[p.route] = {}
  BY <1>1, UnproposedIsBlank
<1>3. /\ destinations \in [Destination -> DestinationRecord]
      /\ now \in Nat \ {0} /\ now' = now /\ hasVoted' = hasVoted /\ votedAt' = votedAt
      /\ destinations' = [destinations EXCEPT ![p.route] = NewProposal(p.terms)]
  BY DEF AInv, AdmissionTypeOK, ProposeRoute
<1>4. NewProposal(p.terms) \in DestinationRecord
  BY <1>1, <1>3 DEF NewProposal, DestinationRecord
<1>5. AdmissionTypeOK'
  BY <1>1, <1>3, <1>4 DEF AInv, AdmissionTypeOK, Proposed, NewProposal
<1>6. TallyIsVoters'
  BY <1>1, <1>2, <1>3, FS_EmptySet DEF AInv, TallyIsVoters, NewProposal
<1>7. VotesInWindow'
  BY <1>1, <1>2, <1>3 DEF AInv, VotesInWindow, Proposed
<1>8. ActiveIsDue'
  BY <1>1, <1>3 DEF AInv, ActiveIsDue, Proposed, NewProposal
<1>. QED BY <1>5, <1>6, <1>7, <1>8 DEF AInv

(* A vote adds one account, which had not voted, and one to the tally.     *)
LEMMA VoteKeeps ==
  ASSUME AInv, NEW r \in Destination, NEW v \in Voter, VoteForRoute(r, v)
  PROVE  AInv'
<1>. USE AdmissionAssumption
<1>1. /\ destinations \in [Destination -> DestinationRecord]
      /\ hasVoted \in [Destination -> SUBSET Voter]
      /\ votedAt \in [Destination -> [Voter -> Nat]]
      /\ now \in Nat \ {0} /\ now' = now
      /\ hasVoted' = [hasVoted EXCEPT ![r] = @ \cup {v}]
      /\ destinations' = [destinations EXCEPT ![r].voteCount = @ + 1]
      /\ votedAt' = [votedAt EXCEPT ![r][v] = now]
      /\ Proposed(r) /\ now <= destinations[r].votingEndsAt /\ v \notin hasVoted[r]
  BY DEF AInv, AdmissionTypeOK, VoteForRoute
<1>2. AdmissionTypeOK'
  <2>1. destinations' \in [Destination -> DestinationRecord]
    <3>. DEFINE counted == [destinations[r] EXCEPT !.voteCount = @ + 1]
    <3>1. destinations' = [destinations EXCEPT ![r] = counted]
      BY <1>1
    <3>2. destinations[r] \in DestinationRecord
      BY <1>1
    <3>3. counted \in DestinationRecord
      BY <3>2 DEF DestinationRecord
    <3>. HIDE DEF counted
    <3>. QED BY <1>1, <3>1, <3>3
  <2>2. hasVoted' \in [Destination -> SUBSET Voter] /\ votedAt' \in [Destination -> [Voter -> Nat]]
    BY <1>1
  <2>3. ASSUME NEW q \in Destination
        PROVE  /\ destinations'[q].proposedAt = destinations[q].proposedAt
               /\ destinations'[q].votingEndsAt = destinations[q].votingEndsAt
               /\ destinations'[q].activationAt = destinations[q].activationAt
    BY <1>1 DEF DestinationRecord
  <2>. QED BY <1>1, <2>1, <2>2, <2>3 DEF AInv, AdmissionTypeOK, Proposed
<1>3. TallyIsVoters'
  <2>1. IsFiniteSet(hasVoted[r])
    BY <1>1, FS_Subset
  <2>2. Cardinality(hasVoted[r] \cup {v}) = Cardinality(hasVoted[r]) + 1
    BY <1>1, <2>1, FS_AddElement
  <2>. QED BY <1>1, <2>2 DEF AInv, TallyIsVoters, DestinationRecord
<1>4. VotesInWindow'
  BY <1>1 DEF AInv, AdmissionTypeOK, VotesInWindow, Proposed, DestinationRecord
<1>5. ActiveIsDue'
  BY <1>1 DEF AInv, AdmissionTypeOK, ActiveIsDue, Proposed, DestinationRecord
<1>. QED BY <1>2, <1>3, <1>4, <1>5 DEF AInv

(* Activity is switched on when it is due, and off at any time.            *)
LEMMA SwitchKeeps ==
  ASSUME AInv, NEW r \in Destination, ActivateRoute(r) \/ DeactivateRoute(r)
  PROVE  AInv'
<1>. USE AdmissionAssumption
<1>1. PICK on \in BOOLEAN :
        /\ destinations' = [destinations EXCEPT ![r].active = on]
        /\ Proposed(r)
        /\ on => destinations[r].voteCount >= Quorum /\ now >= destinations[r].activationAt
  BY DEF ActivateRoute, DeactivateRoute
<1>2. /\ now' = now /\ hasVoted' = hasVoted /\ votedAt' = votedAt
      /\ destinations \in [Destination -> DestinationRecord]
  BY DEF AInv, AdmissionTypeOK, ActivateRoute, DeactivateRoute
<1>3. AdmissionTypeOK'
  BY <1>1, <1>2 DEF AInv, AdmissionTypeOK, DestinationRecord, Proposed
<1>4. TallyIsVoters'
  BY <1>1, <1>2 DEF AInv, TallyIsVoters, DestinationRecord
<1>5. VotesInWindow'
  BY <1>1, <1>2 DEF AInv, VotesInWindow, Proposed, DestinationRecord
<1>6. ActiveIsDue'
  BY <1>1, <1>2 DEF AInv, ActiveIsDue, Proposed, DestinationRecord
<1>. QED BY <1>3, <1>4, <1>5, <1>6 DEF AInv

(* Time only makes what was due more so.                                   *)
LEMMA TickKeeps == AInv /\ (Tick \/ UNCHANGED admissionVars) => AInv'
<1>. SUFFICES ASSUME AInv, Tick \/ UNCHANGED admissionVars PROVE AInv'
  OBVIOUS
<1>1. /\ now \in Nat \ {0} /\ now' \in Nat \ {0} /\ now' >= now
      /\ destinations' = destinations /\ hasVoted' = hasVoted /\ votedAt' = votedAt
      /\ destinations \in [Destination -> DestinationRecord]
  BY DEF AInv, AdmissionTypeOK, Tick, admissionVars
<1>2. AdmissionTypeOK'
  BY <1>1 DEF AInv, AdmissionTypeOK, Proposed, DestinationRecord
<1>3. TallyIsVoters' /\ VotesInWindow'
  BY <1>1 DEF AInv, TallyIsVoters, VotesInWindow, Proposed
<1>4. ActiveIsDue'
  BY <1>1 DEF AInv, ActiveIsDue, Proposed, DestinationRecord
<1>. QED BY <1>2, <1>3, <1>4 DEF AInv

(* The inductive invariant holds throughout.                               *)
THEOREM AdmissionInductive == AdmissionSpec => []AInv
<1>1. AInv /\ [AdmissionNext]_admissionVars => AInv'
  BY ProposeKeeps, VoteKeeps, SwitchKeeps, TickKeeps DEF AdmissionNext
<1>. QED BY InitAdmission, <1>1, PTL DEF AdmissionSpec

(* What the contract stores is well formed, and a proposal's times agree.  *)
THEOREM AdmissionTypeCorrect == AdmissionSpec => []AdmissionTypeOK
<1>1. AInv => AdmissionTypeOK
  BY DEF AInv
<1>. QED BY <1>1, AdmissionInductive, PTL

(* A route is active only after a quorum of different accounts voted for   *)
(* it in its window and the delay passed, however the guardian and the     *)
(* voters interleave, for any quorum and any delays.                       *)
THEOREM AdmittedByQuorum == AdmissionSpec => []AdmittedByVote
<1>1. AInv => AdmittedByVote
  <2>. SUFFICES ASSUME AInv, NEW r \in Destination, destinations[r].active
                PROVE  /\ Cardinality({v \in Voter : votedAt[r][v] \in
                            destinations[r].proposedAt .. destinations[r].votingEndsAt}) >= Quorum
                       /\ now >= destinations[r].proposedAt + VotingPeriod + ActivationDelay
    BY DEF AdmittedByVote
  <2>. DEFINE InTime == {v \in Voter :
                 votedAt[r][v] \in destinations[r].proposedAt .. destinations[r].votingEndsAt}
  <2>. USE AdmissionAssumption
  <2>1. /\ destinations[r] \in DestinationRecord /\ now \in Nat
        /\ Proposed(r) /\ destinations[r].voteCount >= Quorum /\ now >= destinations[r].activationAt
    BY DEF AInv, AdmissionTypeOK, ActiveIsDue
  <2>2. hasVoted[r] \subseteq InTime
    BY DEF AInv, AdmissionTypeOK, VotesInWindow
  <2>3. IsFiniteSet(InTime)
    <3>1. InTime \subseteq Voter
      OBVIOUS
    <3>. HIDE DEF InTime
    <3>. QED BY <3>1, FS_Subset
  <2>4. Cardinality(hasVoted[r]) <= Cardinality(InTime) /\ Cardinality(InTime) \in Nat
    <3>. HIDE DEF InTime
    <3>. QED BY <2>2, <2>3, FS_Subset, FS_CardinalityType
  <2>5. destinations[r].voteCount = Cardinality(hasVoted[r])
    BY DEF AInv, TallyIsVoters
  <2>6. Cardinality(InTime) >= Quorum
    <3>. HIDE DEF InTime
    <3>. QED BY <2>1, <2>4, <2>5 DEF DestinationRecord
  <2>7. now >= destinations[r].proposedAt + VotingPeriod + ActivationDelay
    BY <2>1 DEF AInv, AdmissionTypeOK, DestinationRecord
  <2>. QED BY <2>6, <2>7
<1>. QED BY <1>1, AdmissionInductive, PTL

(* A proposal's terms are never replaced, and its tally stands once voting *)
(* has closed.                                                             *)
THEOREM ProposalsStand == AdmissionSpec => ProposalStands
<1>1. AInv /\ [AdmissionNext]_admissionVars =>
        \A r \in Destination : Proposed(r) =>
          /\ destinations'[r].terms = destinations[r].terms
          /\ now > destinations[r].votingEndsAt
               => destinations'[r].voteCount = destinations[r].voteCount
  <2>. SUFFICES ASSUME AInv, [AdmissionNext]_admissionVars, NEW r \in Destination, Proposed(r)
                PROVE  /\ destinations'[r].terms = destinations[r].terms
                       /\ now > destinations[r].votingEndsAt
                            => destinations'[r].voteCount = destinations[r].voteCount
    OBVIOUS
  <2>. USE AdmissionAssumption
  <2>1. destinations \in [Destination -> DestinationRecord] /\ now \in Nat
    BY DEF AInv, AdmissionTypeOK
  <2>2. CASE \E p \in Proposals : ProposeRoute(p)
    <3>1. PICK p \in Proposals : ProposeRoute(p)
      BY <2>2
    <3>2. p.route # r
      BY <3>1 DEF ProposeRoute, Open
    <3>. QED BY <2>1, <3>1, <3>2 DEF ProposeRoute
  <2>3. CASE \E q \in Destination : \E v \in Voter : VoteForRoute(q, v)
    <3>1. PICK q \in Destination : \E v \in Voter : VoteForRoute(q, v)
      BY <2>3
    <3>2. /\ destinations' = [destinations EXCEPT ![q].voteCount = @ + 1]
          /\ now <= destinations[q].votingEndsAt
      BY <3>1 DEF VoteForRoute
    <3>. QED BY <2>1, <3>2 DEF DestinationRecord
  <2>4. CASE \E q \in Destination : ActivateRoute(q) \/ DeactivateRoute(q)
    <3>1. PICK q \in Destination : ActivateRoute(q) \/ DeactivateRoute(q)
      BY <2>4
    <3>2. \E on \in BOOLEAN : destinations' = [destinations EXCEPT ![q].active = on]
      BY <3>1 DEF ActivateRoute, DeactivateRoute
    <3>. QED BY <2>1, <3>2 DEF DestinationRecord
  <2>5. CASE Tick \/ UNCHANGED admissionVars
    BY <2>5 DEF Tick, admissionVars
  <2>. QED BY <2>2, <2>3, <2>4, <2>5 DEF AdmissionNext
<1>. QED BY <1>1, AdmissionInductive, PTL DEF AdmissionSpec, ProposalStands
=============================================================================
