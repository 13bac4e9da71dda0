# TLA+ specification of the TrustLink Pay / TSN settlement services

TrustLink Pay lets a sender pay a recipient known by a TIN (transfer identity
number).  The sender signs a message and a deposit transaction in the browser;
everything after that is done by the services of the Transfer Settlement Network
(TSN) under `tsn-protocol/services`, on behalf of both, asynchronously, by
processes that share nothing but a document store and HTTP.  Behind them stand
on-chain programs: the custody of tokens (TCAP), the registry of TINs, the
escrow of settlements, and the contracts of the payout lanes.  This directory
specifies those services and programs: what they may do to a payment, an asset
or an identity in which order, whatever is lost, delayed, repeated or restarted
on the way.

## 1. Inventory

| Part | Source | State it keeps | Operations |
|---|---|---|---|
| Receiver work queue | `tsn-receiver/lib/store.ts`, `app/api/**/work` | one Firestore document per piece of work: status, stateVersion, two leases, verification, result, authorization | `receive`, `lease` (requeue, query, claim), `attachCrankerAuthorization`, `transition` |
| Node verification worker | `tsn-node/server.py` 2684-2917 | a wake event, a failure count, the nonce store | wake, drain, verify, consume a nonce, report a verdict |
| Cranker daemon | `tsn-cranker-op-daemon/scripts/cranker.ts` | a session, nothing about work | poll, submit and confirm a deposit, settle, create TINs, report |
| Wake channel | `tsn-receiver/lib/node-wake.ts`, `cranker-wake.ts` | none | a hint after a commit |
| Cranker authentication | `tsn-receiver/lib/cranker-auth.ts` | challenges, sessions with a counter, rate buckets | challenge, session, authenticate, prune |
| Node state store | `tsn-receiver/lib/node-state-store.ts` | hashes of strings | get, set, hset, `consume_once`, delete |
| Local store | `tsn-receiver/lib/local-firestore.ts` | one JSON file and a lock file | read, mutate under the lock, take a stale lock over, compact at start |
| Payout lane | `tsn-crosschain/contracts`: registry, hub, proof consumer, executor, vault | routes with their observation and reservations, consumed settlements and nonces, a vault | configure, observe, execute, deliver, pay, release |
| Direct lane | `tsn-crosschain/contracts/creditcoin` | the same on one chain | configure, observe, execute |
| Route admission | `DestinationRegistry.sol` | proposals, votes | propose, vote, activate, deactivate |
| Anchor, exit attestation, test token | `SepoliaAnchor.sol`, `TinExitAttestedASC.sol`, `USDSET.sol` | maps written once per key | record, mint |
| Cross-chain and Attestcoin workers | `tsn-crosschain/worker`, `tsn-node/attestcoin_worker.py` | job state | anchor, prove, execute |
| Epoch archive, Node HTTP API | `tsn-node/server.py` | epoch number, archives | close, read |
| TCAP program | `programs/tcap-protocol` | per asset: entry, governance policy, reserve, vault, funding root; per TIP: account, liability, exit permits | register, migrate, approve, activate, halt, revoke, retire; deposit, fund, credit, consume, debit, pay out |
| TIN registrar | `programs/transfer-identity-protocol` | staging accounts, registry, recovery accounts, the route tree | stage, append a chunk, finalize, create, close |
| Escrow program | `programs/tsn` | epoch treasuries and ledgers, settlement vouchers, claim slots, Cranker vaults with shares | fund, vouch, pay, refund, close; fund and withdraw shares |
| GPRU program and circuits | `programs/gpru` | - | proofs over fields |
| RPC gateway | `tsn-rpc-gateway` | provider health, cache | route, fail over, retry |
| Backend: private reads | `backend/app/{api/tsn/privacy,db/tsn-privacy}`, verifiers of `tsn-sdk` | challenges, devices, private sessions, proof nonces in SQL | challenge, register, revoke, open a session, read |
| Backend: accounts and payment records | the rest of `backend/app` | users, one-time passwords, payments in SQL | login, payment records, webhooks |
| Frontend, SDKs, docs, demos | `frontend`, `tsn-protocol/sdks`, ... | - | not modelled |

How they interact: a sender's payment enters the Receiver over HTTP and is made
durable together with its settlement in one transaction; the Receiver then sends
the Node a wake that carries no data.  The Node, which sleeps between wakes,
leases work from the Receiver until none is left, verifies each piece and
reports VERIFIED or REJECTED under its lease.  A Cranker polls for VERIFIED
work, submits the sender's presigned deposit to Solana, polls for confirmation
and reports CONFIRMED or FAILED under its lease.  A confirmed payment makes its
settlement eligible, and the Receiver wakes the Node again.

A TIN operation goes through the same queue.  Its Cranker sends one transaction
when the creation fits a packet, else a staging account is filled by a sequence
of transactions that anybody may repeat, and finalized by one that carries the
owner's signature.  The TCAP program holds the tokens: a deposit makes a
liability that is pending, a credit settles it on a TIP, an exit is debited in
one instruction and paid in a later one; governance opens, pauses and retires
the asset meanwhile.  In the escrow program a funder fills an epoch treasury,
the Mother vouches for a slot, and one permit pays the recipient from a
Cranker's vault, which the treasury reimburses, or refunds the sender.

Beside the payments, the backend serves private receipts: the owner of a TIN
authorizes the key of a device, the device opens a session, and each read carries
a proof of the key.

What is hard: every one of these calls can be lost before or after it took
effect; leases run out under slow holders; the lease request is a sequence of
queries and transactions in which anything may happen in between; the Node's
nonce store is in another transaction than its verdict; and the Node only works
when woken.

Cross-chain, a settlement is authorized by the Node's signature, executed on the
hub by anyone, which reserves capacity on the route and publishes a message; the
message travels to the executor on the destination, which pays from a vault.
The capacity of a route is what the vault announced, proved and recorded later.
The direct lane does all of this in one transaction.  On Solana an instruction
is atomic, but anybody may call it in any order, repeat it, and transfer tokens
into an account that a record mirrors; what one instruction decides in one
account another reads from a second.  The backend's routes have no transaction
around their statements: what one read may be gone before the next.

What makes each part correct:

- Receiver: one holder at a time; outcomes only from the lease that runs; what is
  acknowledged or finished stays; a settlement waits for its funding and exists
  once; a stale view of a document never passes for the current one.
- Node and Cranker: what is recorded as confirmed landed; what passes every check
  is accepted, once per signed nonce; what was accepted is finished; a wake is
  never lost.
- Authentication: a challenge opens one session; the requests of a session run in
  order, once; a call that is repeated after a refusal did not run before.
- Local store: what is acknowledged is in the file for good; every request ends.
- Payout and direct lane: a settlement is paid at most once; an unpaid one keeps
  its reservation; what is published can be paid.
- Route admission: a route is active only by the votes of its window and after
  its delay; what was proposed is not replaced.
- TCAP: deposits only under a policy that accepts them; every liability is owed
  to somebody and covered; an authorization changes a TIP once; what is retired
  stays so.
- TIN registrar: what is created is what its owner signed, all accounts or none;
  the root commits to every route; what is reported created is there.
- Private reads: a challenge registers one device; a revoked key reads nothing
  more; a read was granted by the owner and asked for by the key; a proof runs once.
- Escrow: a slot is resolved once, as its voucher says; a treasury holds what it
  owes; shares are worth what the vault can pay.

## 2. Plan

Written so far, in the order of the plan:

1. `Receiver`, `WorkLifecycle` (its abstract specification), `ReceiverLifecycle`
   (the refinement).
2. `Pipeline`: Node, Cranker, wake and chain around `Receiver`, which it extends;
   `ReceiverProofs`, about these four.
3. `LiquidityRegistry` (operators on a route record that both lanes use),
   `OnwardSettlement`, `DirectSettlement`.
4. `RouteAdmission`; `LaneProofs`, about both lanes and the admission.
5. `CrankerAuth`, `AuthProofs`.
6. `LocalLock`, `LockProofs`.
7. `TipRouteTree`, `TinRegistrar`, `TinOperation` (the daemon around the
   registrar, which it extends), `TinProofs`.
8. `TcapGovernance`, `TcapReserve` (which extends it), `TcapCustody` (the
   abstract specification), `TcapProofs`.
9. `CrankerVault` (operators on a vault), `EpochTreasury`, `EscrowProofs`.
10. `PrivateSessions`, with its proofs in `AuthProofs`.
11. `SumLemmas`: sums over finite sets and induction, for the proofs of 3, 7, 8
    and 9.

Next, in this order:

12. Settlements in `Pipeline`, once the Node authorizes them: today its prover
    fails closed, and every settlement a Node leases is rejected.
13. The Cranker of `TinOperation` under the leases of `Receiver`, whose reports
    it abstracts to the first one that counts.
14. The queue limits: fifty arbitrary rows per query, and what fills them.
15. Rate-limit buckets; threshold receipts for nonces; the Attestcoin worker.
16. Backend: one-time passwords, session codes, payment records and webhooks.

Every safety invariant and every action property that a run checks is proved, and
so are both refinements.  Theorems planned: that a registrar instruction which
fails changes no account of another intent; that the daemon's plan, carried out,
ends in a creation; the queue's theorems over again for the models of 12 to 14.

The project keeps its runs to a dozen, each with a question of its own.  A type
invariant, and an invariant that is proved and that a deeper one implies or
rests on, is left to the proofs; differences from the documents that the models
settle by themselves are told in section 4 without a run.

## 3. Modules and the code

One action stands for one atomic step of the code: a Firestore transaction, a
query outside a transaction, a call between services, an EVM transaction, a
file system call.  Definitions are mapped to lines in `PROJECT.json`.  A
definition whose comment starts with "Slip" is a plausible mistake in the one
below it; no specification uses it, and the runs must notice it when it takes
the place of the definition it varies.  Variables marked "history" exist for
the properties.  No step of the code reads one, save that a report comes from
among the leases its caller was told it holds (`grants`) and a worker keeps what
it was just told; otherwise a guard reads one only to stop its counting at a
bound or, in a step of the environment, to say how long a holder may take.

### Receiver, WorkLifecycle, ReceiverLifecycle

`work` is the Firestore collection; `call` the lease requests in progress, each
going through requeue (query, then one transaction per stale document), pick
(query, and the look-up of the funding), claim (transaction) and, for a
settlement and a Cranker, authorization.  `Receive`, `AttachAuthorization`,
`NodeReport` and `CrankerReport` are one transaction each.

- Time is one flag per lease, set at any moment by `ExpireLease`.
- `Legacy` are the references that may already be stored, from before a payment
  was stored together with its settlement; every choice of them and of their
  bodies is an initial state.
- A document's id names its submitter's reference; a settlement's id is a hash
  of reference and commitment, modelled as the pair.
- The limit of fifty rows and the sort by `receivedAt` are abstracted: any
  eligible row may be picked.  The daemons ask for every kind, so the filter by
  kind is left out.  `getWorkForNode` re-reads a document without a decision.
- A lost answer is a grant nobody uses.  `grants` and `acks` are histories; the
  reports draw their lease and version from `grants`, since a worker can only
  quote a lease it was told of.
- What the Node answers when asked to authorize a settlement is bound to the
  lease it was asked under; the transaction compares it with the document's.
- Encryption, redaction and compaction of payloads are left out.

`WorkLifecycle` promises: judged once, executed once, held by one, in order, and
settled after funded.  `ReceiverLifecycle` maps statuses to its stages and the
lease owner to its holder.

### Pipeline

Extends `Receiver` by the loops of its workers: `Ask` to `ReportVerdict` for the
Node, `Send` to `ReportFailed` for the Cranker, `Land` for the chain.  What
the environment does to them - loses a request or an answer, fails a look-up,
stops a process, delays a holder past its lease - costs one of `Faults`.

- Only payments; a settlement a Node leases is rejected, as the fail-closed
  prover of the current code has it.
- The Node and its worker are sequential, with one lease request open.
- A wake reaches the first reachable Node, or nobody.  The Cranker polls.
- `consume_once`, the verdict and the report are separate steps: a Node may
  stop, or lose an answer, between any two.
- Look-ups are modelled by their outcome: a check passes, fails, or throws.

### LiquidityRegistry, OnwardSettlement, DirectSettlement

`LiquidityRegistry` holds the registry's functions as operators on one route's
record, shared by the two lanes (the direct registry repeats the code).
`OnwardSettlement` adds hub, message channel, executors and vaults: `outbox` is
every message ever published, deliverable any number of times in any order;
`late` the authorizations whose deadline passed on each chain; `announced` what
the destination emitted, `lapsed` what expired before or after it was recorded.
An observation carries `seen`, a history of the payouts made before it.  What
the owners may do but should not is possible and remembered in `rash`: a
withdrawal, or the release of a payout that the recorded observation has not
seen.  That what was published can be paid holds of the code only as long as
there was neither (`BackedWhenPrudent`).

- A deadline is noted only where it is still looked at: on Creditcoin until the
  authorization is executed, on the destination from then on.
- One vault per route.  What an executor checks of network and token is in its
  identity.  `validUntil` and deadlines are one flag each; the code's `<=` and
  `<` differ only at equality.
- The proof of an observation is external: a proved observation was announced.
- Fees, ownership, and the replacement of hub, emitter, signer and proof
  consumer are left out.  `NoObservation` is never expired but offers nothing.
- The lanes are contracts of their own that share no variable.  `MCPayoutLanes`
  composes them for one run, in which either is followed while the other does
  nothing.

### CrankerAuth

`challenge` and `session` are the two collections, `daemon` the state of
`receiverRequest` and its cached session, `requests`, `handlers` and `answers`
the network and the Receiver's work in progress.  `Prune` is the query,
`CreateChallenge` also deletes what the query found (`doomed`).

- One key, one daemon that restarts without memory.  Signatures, tokens and the
  look-up of accounts succeed.  A query returns what is stale at one moment;
  its limit of 100 is above every instance.
- The clock is read before the transaction (`Verdict` fixed on arrival): with
  repeated messages a call may then run twice, so `CallRunsOnce` speaks of the
  behaviours in which nothing was `repeated` (a history), and `RunsInOrder` of
  all.

### PrivateSessions

`issued` and `spent` are the challenges of `tsn_owner_authorization_nonces_v1`,
`devices`, `sessions` and `consumed` the rows of the tables of devices, sessions
and proof nonces, `over` the sessions past `expires_at`, and `serving` the requests
at work: one action is one SQL statement with the checks that follow it.
`revoking` is `revokeAuthorizedDevice` between its two statements.

- A refusal, a failing statement and a crash are one step, `Refuse`, possible at
  any time: they leave the rows as they are.  What a request does before its
  first statement touches nothing and is part of that statement's action.
- The signing and the encryption key of a device, both UNIQUE, are one key; a
  proof's signature is its key, a session's token its id.  The audience and the
  network are one, and the owner's signature and the look-up of the TIN's owner
  succeed.  A proof that has expired is refused like any other.
- `revokeAuthorizedDevice` is exported and called by nothing in the repository:
  its caller is the environment.  Devices are registered without an expiry.
- Receipts and the envelopes of their keys are written by nothing in the backend:
  `Serve` stands for the query, `tin` for the TIN whose receipts it returns.

### RouteAdmission

The four transactions and `Tick`.  After the guardian deactivated a route,
anybody may activate it again; the code and the documents say nothing else.

### LocalLock

`file` is the set of mutations the JSON file holds; `pc` where each request is
between `open` and `unlink`; `lock.owner` a history that only `Age` consults, to
let only the locks of stopped processes grow old unless `MayStall`.  A
"process" is one loaded copy of the module: its promise chain is its own.  What
`stat` said and the later `unlink` are separate steps.  Crashes are bounded by
`CrashBound`.  `robbed` is a history: whether a lock file was ever removed while
the request that created it was still at work.

### TipRouteTree, TinRegistrar, TinOperation

`TinRegistrar` has one action per instruction of the program that changes state;
`apply` is shared by the creation in one packet and by `finalize`.  `RSpec` lets
any caller call anything.  `TinOperation` extends it by the daemon: `Plan` is the
sequence of transactions of one creation, `crank` the work of each Cranker and
the state of its transaction, `adrift` the transactions nobody waits for any
more, which land late or expire.

- An intent fixes its hash, so fields and blobs are "approved" (what the owner
  signed) or "other"; what `owner_intent_hash` covers is all of them.  The
  program takes the expiry from the staged fields, which are the intent's when
  the hash agrees.
- The tree's hash is a pair: `poseidon2` and the reduction of inputs to the field
  are taken to be injective.  Routes from `Before` are leaves nobody looks up.
- The account of the root is made with the first route; until then `routes` is
  the empty root it will be made with.  `Shifted` is the leaf count shifted right
  by each level, `Width` the leaves of a subtree of each height, so that
  `Capacity` is `u32::MAX` at the program's depth of 32.
- `Succeeds` is the simulation before sending and the execution on the chain; a
  failed transaction changes nothing.
- Leases are in `Receiver`: here a piece of work may be leased again until it has
  a report, and the first report stands.
- `init_program` and the read-only look-up are left out.  `close_expired` may be
  called by anybody; no code calls it, so the rent of staging accounts stays.

### TcapGovernance, TcapReserve, TcapCustody

One asset.  `TcapGovernance` has its policy, entry, reserve and vault, and every
instruction that governs them; `TcapReserve` extends it by deposits, funding
claims, TIPs, credits and exits.  `exiting`, `seeded` and `changes` are
histories: exits debited and not paid, liabilities that governance carried over,
and how often a TIP's sequence number was used.  `TcapCustody` is what custody
promises - what leaves was owed, what is owed is held or was promised - and
`CustodyKept` the refinement.

- An asset starts absent or as the closed instructions of the first version may
  have left it (`LegacyEntry`, `LegacyReserve`).
- `MintDrifts` is the issuer changing a mint's extensions, `Donate` anybody
  transferring tokens into the vault.
- An asset deprecated by the first version may be migrated and activated: only
  `deprecated_irreversible` is for good.  A credit makes a consumed TIP usable
  again; its number is new all the same.
- A donation blocks deposits and activation until a sync or a payout rewrites
  the record.  No code schedules the payout of an exit: nothing is claimed of
  when it comes.
- Left out: signers, `config.paused` and `registry.frozen` (no exposed
  instruction sets them), the minimum version, slot windows, seals, the
  comparison of nullifiers, layout and custody-graph migrations,
  `register_tsn_authorization_v1`, the settlement-policy flags (always false) and
  the closed instructions.

### CrankerVault, EpochTreasury

`CrankerVault` has the share arithmetic of `fund_cranker` and
`withdraw_cranker_funds` as operators on one vault; `EpochTreasury` has the
instructions, with a treasury and ledger per mint, a voucher (`SettlementDna`)
per slot and a claim per mint and slot.  `vouchers` keeps every voucher a slot
ever had, since a permit signed for an old one still exists; only the last is in
the account.  `paid` is a history.

- The amount, vault and expiry of a permit are those of the voucher it was
  signed for; vouchers whose Cranker, vault and mint disagree never pay and are
  left out.  The mint of a refund is decided by the permit, not by the voucher.
- `epoch_id` is 0 in all code, so a closed treasury opens again at its address.
- `Donate` sends tokens to a vault or a treasury; it blocks withdrawals or the
  close.
- Left out: initialisation and migration of the Mother escrow, intents (their
  consumer is not exposed), statistics and action fees, verifier lamports and
  account rent, and the `register_tcap_*` wrappers, which pass on to TCAP.
  `reserved_liquidity` is never written, `total_withdrawn` never read.

## 4. What the runs show

| Run | Question | Bounds | Result |
|---|---|---|---|
| `receiver` | does every interleaving of two lease requests, reports, requeues and resubmissions keep the queue's promises, and implement `WorkLifecycle`, also for a payment stored without its settlement? | 1 reference, 2 bodies, 1 Node, 2 Crankers, 2 signatures, 2 requests; leases expire below version 6 | holds |
| `pipeline` | is CONFIRMED true, every refusal reasoned, accepted work finished, a wake heeded? | 2 payments, one with a bad message, 2 faults, failure limit 3 | holds |
| `pipeline_nonce` | is a signed authorization accepted once by two Nodes? | 2 payments with one nonce, 1 fault | holds |
| `false_failure` | is a deposit seen confirmed never recorded as failed? | 1 fault | violated |
| `lanes` | to another network: is a settlement paid once, reserved until paid, lost once late, and backed by the vault under prudent owners? on Creditcoin: is it paid once per settlement and nonce, and still reserved? | 2 settlements, 3 authorizations, 2 executors; 2 observations and 2 tokens, or 3 and 3 | holds |
| `auth` | do sessions run in order, does a challenge open one, is only a lapsed session refused, and does a call run once? | 3 nonces and sessions, 2 calls, 2 repeated messages | holds |
| `admission` | is a route active only by the votes of its window? | 2 routes, 3 accounts, quorum 2, window 2, delay 1, 8 blocks | holds |
| `local` | does the lock serialize the writes of two processes, one of which stops, unless a lock is removed from under its holder? and is every request answered? | 2 processes, 2 writes, 1 read, 1 crash, stalls | holds |
| `tcap` | do deposits follow the policy, liabilities and claims stay counted and chained, is an authorization used once, retirement for good, custody kept? | 1 depositor, 2 fundings, 2 TIPs and 1 of the first version, 2 exits, 2 tokens, 2 sequence numbers | holds |
| `tin` | is what is created what its owner signed, whole and once, the root right, a confirmation true, staging never undone? | 3 intents, 2 owners, 2 lookup commitments, 2 Crankers, a blob of 2 chunks, depth 2, 0 or 2 earlier routes, 1 transaction adrift | holds |
| `escrow` | is a slot resolved once, as vouched, from a treasury that is backed, and are shares worth their tokens? | 2 mints, 1 slot, 1 vault, 2 funders, 2 vouchers, amounts and funds up to 2, fee 1, 2 ticks | holds |
| `private` | does a revoked key read nothing more, and was every read granted by the owner and asked for by the key that opened the session? | 2 TINs, 2 devices, 2 keys, 2 challenges, 1 session, 2 proof nonces, 2 requests at a time | holds |

Why the bounds are enough: two actors and two documents are what each of the
races needs; three versions make a lease, a lease taken again and a late report
of the first (`ExpiryBound` 6 leaves room for both queues of a document); two
faults cover a fault and a fault of the recovery.  `FailureLimit` is 3 in the
runs so that two faults stay below it, as five stay below the six of the code.
`ObservationBound` and `SupplyBound`
let an observation be replaced and the vault be funded again; `TimeBound` is
past the window and delay of a proposal made when one window has already
closed.  In `tcap` two tokens let a
deposit meet a donation, and one exit be debited while another waits; two TIPs
are a TIP and the successor of its consumption.  In `tin` an intent meets another
of the same lookup commitment and a third of its owner, a staged creation one in
a packet, and the tree both a left and a right leaf at each level and its
capacity; `TimeBound` 1 lets every intent lapse.  In `escrow` a voucher is
replaced once, a treasury that can pay meets one that can only refund, and two
ticks reach past a lease made at the start.  In `private` a session of one
device meets the proof of another, a challenge two authorizations, and a read a
revocation that stopped half-way; the two proof nonces are the session's and the
read's.  Bodies, Crankers, signatures and requests are symmetric in `receiver`,
nonces, sessions and calls in `auth`, identifiers, TIPs and nonces in `tcap`,
Crankers in `tin`, everything but the permissions in `private`; no run with a
liveness property uses symmetry.  `CHECK_DEADLOCK FALSE` is set where the system may
stop for good: when no more is submitted, signed or called, or a bound is used
up.  In `escrow` the switch of private settlement
can always be turned and in `private` what expired can expire again, and deadlock
is checked.

### Fairness

`FairPSpec` assumes of each service only that it keeps running: the Node's loop,
the Cranker's loop, the Receiver serving a request that reached it, the chain
deciding a deposit within its blockhash's life, and a lease running out.  No
one is obliged to submit, and no fault has to happen or to stop happening other
than by its bound.  Weak fairness of a whole loop suffices because each is
sequential.  `FairSpec` of `LocalLock` assumes that the event loop runs what is
ready and that ten seconds pass.  The other runs check safety.

### Where code and documents differ

| Run | What the code does | What is said |
|---|---|---|
| `false_failure` | any error after a deposit confirmed, also a lost answer to its report, is answered by reporting FAILED | `store.ts:260-265`: reports are repeated instead of "turning a successful on-chain submission into a false failure" |

More differences follow from what the models show, without a run of their own:

- Any exception while verifying is reported as REJECTED, for good (`Resolve`,
  `ReportVerdict`): a look-up that failed, or the nonce this very payment
  consumed before a crash or a lost answer.  So `NoVerdictWithoutReason` speaks
  only of behaviours without a fault, while
  `docs/tsn-receiver-verification-settlement.md:36-48` has work rejected when a
  check fails.
- A release frees capacity as soon as a payout was seen, against an observation
  that may be from before it (`ReleaseReservation`): the same tokens are counted
  twice, which is why `BackedWhenPrudent` is conditioned by `rash`.
  `tsn-crosschain/docs/creditcoin-integration.md:27-28` says that "stale liquidity
  cannot silently remain valid".
- A lock file older than thirty seconds is removed by path after a separate
  `stat` (`FindStale`, `ClearStale`): of two requests that both saw it stale, the
  second removes the lock the first has just taken, and an acknowledged write may
  be overwritten.  `LockSerializes` is conditioned by `robbed` for that reason,
  while `docs/team/operations/receiver-storage-modes.md:32` says "Each write must
  be serialized".
- The direct creation of a TIN ignores the error that `confirmTransaction`
  returns (`cranker.ts:1038`) and then looks the registry account up
  (`Confirms`, `Finish`).  When another intent registered the same lookup
  commitment, a creation that failed on the chain is reported CONFIRMED; the
  staged path is stricter, and `ConfirmedIsCreated` says what each path
  promises.  `docs/identity-and-tin.md:44` ties revealing a TIN to "the final
  Solana creation transaction is confirmed".
- After a donation `actual_assets` is less than the vault's balance until a sync
  or a payout; `docs/dip/DIPIngress-design.md:23` says that it "always equals" it.
- A share of a Cranker's vault is always worth one token (`WithdrawableInFull`):
  fees are counted but bring in no token.  The comment at
  `fund_cranker.rs:86-87` has deposits "participate pro-rata in both gains and
  losses".
- A refund needs the authorization of the slot's voucher to be running
  (`Refundable`): once it has expired the Mother must vouch anew before anything
  can be refunded.  `docs/tsn-mother-escrow-dna.md:15` only asks for a refund
  permit.

- Stale Node leases are requeued only when a Node asks for work, and a Node asks
  only when woken (`BeginLease`, `WakeUp`): a Node whose report was lost drains
  the queue and sleeps, and the work stays NODE_VERIFYING until some later
  submission.  `docs/service-coordination-and-quota.md:148` says "Wake failure
  never deletes work. Stale leases are requeued by the Receiver".  For the same
  reason the loss of the wake itself leaves a payment RECEIVED.
- Six failures in a row end the Node's drain with work queued
  (`AfterFailure`);
  line 42 of the same document says that it "drains eligible work after a wake
  and sleeps when the queue is empty".  `WakeIsHeeded` is checked below that
  limit.
- SUBMITTED is final: `FinishedStays` counts it among the finished statuses and
  is proved, since the report gives up the lease a later one needs.  The Receiver's
  README lists `... -> SUBMITTED -> CONFIRMED`.  No daemon reports SUBMITTED.
- A device registered again under its id with other permissions is answered
  `deviceAuthorized: true` (`InsertDevice`, second case), and keeps the permissions
  it had (`authorized-devices.ts:40-46`).
- A session opened while its device is revoked, or left by a revocation that
  stopped between its statements, stays `active` in its table until it expires
  (`InsertSession`, `RevokeFails`); revoking again does not reach it, as the first
  statement finds no active device.  `RevokedIsRefused` holds because every read
  looks at the device again.
- The direct lane never releases: by `PaidStaysReserved` what is reserved is all
  that was ever paid, and it is subtracted from an observed balance that no
  longer holds it.  The lane's capacity only shrinks, while the registry's
  comment promises "the current local vault balance as a time-bounded capacity".

## 5. What is proved

For every value of the constants that satisfies the module's assumption:

| Module | Inductive invariant | Theorems |
|---|---|---|
| `ReceiverProofs`, about `Receiver` | `IInv`: the queue's invariants and `KindsMatch` (which documents are settlements), `CallsCoherent` (what a request may rely on after its reads), `GrantsCoherent` (what an old grant can still do) | `TypeCorrect`, `ExclusiveHolders`, `SettlementsWait`, `SettledOnce`, `AttestedFirst`, `FreshAuthorizations`, `AcksStand`, `FinishedForever`, `OutcomesOfRunningLeases`, `VersionsFence`, `QueueImplementsLifecycle` |
| `ReceiverProofs`, about `Pipeline` | `PInv`: `IInv`, types, `WorkersCoherent` (each worker acts on a lease it was given), `NoncesSpentOnce`, `NoLuckNeeded` (what is true as long as nothing went wrong), and the properties | `PipelineInductive`, `PipelineIsQueue`, `ConfirmedOnlyIfLanded`, `NoAuthorizationReplayed`, `VerdictsHaveReasons`, `PipelineExclusive` |
| `LaneProofs`, about `OnwardSettlement` | `OInv`: types, `PublishedIsConsumed`, `OneMessage`, `PaidIsMarked`, `UnpaidIsReserved`; and `Prudence`: observations come in order, what is reserved is the sum of what is held, what the last observation has not seen is still held, the vault covers what is unpaid | `OnwardInductive`, `PaidAtMostOnce`, `UnpaidStaysReserved`, `ExpiredIsLost`, `PrudentIsBacked` |
| `LaneProofs`, about `DirectSettlement` | `DirectInv`: types, what was paid is marked, settlements and nonces are apart, what is reserved is the sum of what was paid | `DirectInductive`, `DirectPaidReserved` |
| `LaneProofs`, about `RouteAdmission` | `AInv`: types, `TallyIsVoters`, `VotesInWindow`, `ActiveIsDue` | `AdmissionInductive`, `AdmittedByQuorum`, `ProposalsStand` |
| `AuthProofs`, about `CrankerAuth` | `AuthInv`: types, `RanIsCounted`, `RunsInOrder`, `MintedIsSpent`, `OneSessionPerChallenge`; and `CallInv`: requests seen were sent, a call is sent again only when refused, a request is delivered once unless repeated, what ran was answered so, what is stale had lapsed | `AuthInductive`, `SessionsRunInOrder`, `ChallengesAreSpent`, `CallInductive`, `RefusedHadLapsed`, `CallsRunAtMostOnce` |
| `AuthProofs`, about `PrivateSessions` | `PrivateInv`: types, `KeysOnce`, `DevicesGranted`, `OneDevicePerChallenge`, `NoncesCounted`, `SessionsOpened`, `HandlersOK`, and the properties | `PrivateInductive`, `ChallengesRegisterOnce`, `RevokedAreRefused`, `ReadsAreGranted`, `ProofsRunAtMostOnce` |
| `TcapProofs` | `TInv`: types, `EntryFollowsPolicy` (what the entry's and the reserve's flags say of the policy), `VaultAfterReserve`, `VaultCoversRecord`, `ClaimsChained`, `UsedIsReached` (numbers used are at most the TIP's) | `TInvariant`, `DepositsFollow`, `RecordCovered`, `ClaimsStayChained`, `ChangedOnce`, `RetiredStays`, `CustodyRefined`, `VaultBacked`, `LiabilitiesStayCounted` |
| `TinProofs` | `RInv` of the registrar under any calls: types, `OwnerApproved`, `CreatedTogether`; `OInv` adds the daemon's state; `CInv`: a creation whose last transaction was confirmed is registered; `CommitInv`: root, leaf count and frontier are those of the leaves | `RegistrarSound`, `OwnersApproved`, `CreationsWhole`, `ConfirmationsHold`, `StagedOnlyGrows`, `RegistrarRoot`, `RootIsOfAllRoutes` |
| `EscrowProofs` | `EInv`: `SlotInv`, `TreasuryInv`, `VaultInv` (each vault at par and divided among its funders), `SwitchTypes` | `EscrowInvariant`, `ResolvedOnce`, `PaidByVoucher`, `TreasuriesBacked`, `FundersWithdrawInFull` |
| `LockProofs` | `FileInv` (answers and file agree) with either `LockInv` (whoever is at work created the lock file that is there) or `QueueInv` (one mutation of a process at a time) | `LockTypeCorrect`, `SharedIsSerialized`, `AloneIsSerialized` |
| `SumLemmas` | - | lemmas only: induction over the subsets of a finite set and up to a number, sums of functions over sets |

Types are part of each invariant; where a module has a `...TypeCorrect` it states
them.

Why the strengthenings are needed.  `HolderExclusive` is not inductive: an old
grant must not match a document it could still change, which is what
`GrantsCoherent` says through versions.  `SettlementAfterFunding` is checked
outside the transaction, so a request between pick and claim must be known to
rest on a confirmed funding, and CONFIRMED to be final.  `PaidOnce` is kept by
three machines - the hub consumes settlements, a message carries its nonce,
the executor consumes nonces - and the invariant links them.  An active route's
quorum is a count; `TallyIsVoters` says whom it counts, `VotesInWindow` when
they voted.  The two theorems of the local store share `FileKept`, which only
assumes that no two writers are between reading and writing, and give two
reasons for it: a lock nobody is robbed of, or a single process's queue; when
two processes rob each other of the lock neither holds.  Deposits read the entry
and never the policy, so `DepositsFollowPolicy` needs every instruction to keep
the two in step, which is `EntryFollowsPolicy`.  The claim slot of a payout and
that of a refund may be different accounts: `SlotInv` ties both to the one
voucher, which is what is consumed.  `TreasuryBacked` and `WithdrawableInFull` rest
on the reimbursement being part of the payout.  A read rests on three
reads made at three moments: `HandlersOK` says what each leaves a request with
that no later step can take back, and `KeysOnce` that the device whose key opened
the session, the one whose key signed the read and the one found active are one
row.

`Pipeline` only does to the queue what `Receiver` allows: `PipelineIsQueue` says
so of every step, and the queue's theorems hold of the whole.  A Node may stop
between consuming a nonce and reporting, so a nonce that is used belongs to one
acceptance that is recorded or may still be (`NoncesSpentOnce`); that a Cranker
says CONFIRMED only after its deposit landed is in `WorkersCoherent`, since the
report comes later and possibly under a lease taken again.

`BackedWhenPrudent` compares a vault with a sum over messages in flight, across
two chains.  A reservation is taken against an observation that knows some
payouts and not others: as long as the owners are prudent, the payouts the last
observation has not seen still hold their reservation (`UnseenIsHeld`), so what
is free by the record is free in the vault.  A call runs once because a request
that was refused with 401 was refused of a session that had lapsed, which no
later step makes fresh again; `CallInv` follows the copies of a call from the
daemon to the answers.

The route tree is proved for every depth and every number of leaves.  `Commits`
says of the account: the leaf count is the number of leaves, the root is the
root of the complete tree over them, and at each level at which the next leaf
falls into a right subtree the frontier holds the left sibling.  `AppendCommits`
is that appending keeps it, by going up the path: the node reached at a level is
the subtree of the longer tree there, as what is right of it is empty
(`EmptySubtree`) and what is left of it is as before (`SubtreeKept`).

Sums and levels need induction, and no theorem with an operator as parameter can
be used here: the predicate is encoded as the set of what satisfies it
(`SubsetInduction`, `UpTo`), and that a recursive function satisfies its
equations is proved for each (`Halves`, `Paths`, `Rows` and their like).

The refinement `QueueImplementsLifecycle` maps every transaction of the Receiver
to one step of `WorkLifecycle` - `Admit` of a payment with its settlement, `Take`,
`GiveBack`, `Judge` or `Finish` of one piece of work - or to none; that a
settlement's funding is confirmed when it is taken, although it was looked up
before, comes from `CallsCoherent` and from CONFIRMED being final.  The
refinement `CustodyRefined` goes step by step as well: a deposit is a `Take`, a
donation a `Donate`, the liabilities that governance carries over a `Promise`, a
payout a `PayOut`, and every other instruction, the debit of an exit included,
leaves what is held and what is owed alone.

Assumptions: `ReceiverAssumption` (owners of the two queues are different, null
is none of them), `PipelineAssumption` (each worker has one lease request, as its
loop is sequential), `OnwardAssumption`, `DirectAssumption`, `AuthAssumption`,
`PrivateAssumption`, `AdmissionAssumption` (finitely many accounts),
`LockAssumption`, `GovernanceAssumption` and `ReserveAssumption` (finitely many
TIPs), `RegistrarAssumption`, `OperationAssumption` and `DepthAssumption`,
`EscrowAssumption`, `FunderAssumption` (finitely many funders) and
`NoneAssumption`; TLC evaluates each in its runs.  The sets that a sum is taken
over are finite because their members are named by addresses of 32 bytes; that
finitely many messages were published and payouts made is not assumed but part of
`Prudence` and `DirectInv`.
`AloneIsSerialized` assumes that there is one process; `SharedIsSerialized`
assumes nothing more, and states `LockSerializes`, which `robbed` conditions.

Only model-checked: liveness under fairness, which the prover does not reach
(`AcceptedIsFinished`, `WakeIsHeeded`, `EveryRequestAnswered`).  `NoFalseFailure`
is false of the code.

Only proved: the invariants and action properties of the modules that no run
lists.  `ProposalStands`, `OneDevicePerChallenge` and `ProofsRunOnce` are such: each
holds because one field of one row is written once, the last two although several
requests are at work at the same time.

## 6. Not modelled

The frontend, SDKs and the mempool UI keep no state of the system.  The RPC
gateway ranks providers by measured latency, without a correctness claim of its
own.  The zero-knowledge circuits and signatures are arithmetic and
cryptography out of a model checker's reach; they are taken to be sound.  The
anchor, exit attestation and test token keep maps written once per key.  The
epoch archive rewrites a hash of intents that the current code never fills.
The cross-chain and Attestcoin workers poll external services and keep their
jobs in memory.  The backend's one-time passwords, session codes and payment
records are single rows read and updated, and planned last.  What each modelled
program leaves out is listed with its module in section 3.
