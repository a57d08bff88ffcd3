# Vehicle lifecycle management: TLA+ models, checks and proofs

The repository runs a vehicle from its manufacture to the scrap yard: six Solidity
contracts hold titles, liens, fines, insurance and emission certificates; a
TypeScript backend mirrors them in a database and submits the transactions of
government offices, banks and police stations; a web front end shows the mirror
and lets citizens sign their own transactions. This directory holds TLA+ models of
the core, the configurations TLC checks, and proofs TLAPS checks.

## 1. Inventory

### On chain

Every transaction is atomic and the chain orders them all, so the concurrency
is between *callers*: any account may send any transaction at any moment, and
what one contract checked may be changed in another before it is used.

| Part | State | Operations | Correct when |
| --- | --- | --- | --- |
| `OwnershipToken.sol` | RTOs, trade certificates, titles (`owns`), their NFT, the transfer request and its flag | `register`, `initTransfer`, `acceptTransfer`, `cancelTransfer`, `approveTransfer`, `deactivateVehicle`, `attachPendingLoan`, `clearPendingLoan`, administration | title moves only to a buyer who agreed to the present owner's request; title, NFT and passport agree |
| `DigitalVehiclePassport.sol` (DVP) | manufacturers, scrap centres, passports, dealer, scrap authorisation | `manufacture`, `assignToDealer`, `activateVehicle`, `authorizeScrap`, `scrapVehicle`, administration | a vehicle is scrapped once, by the centre its owner chose, with nothing owed and nothing left behind |
| `LoanContract.sol` | banks, wallets, loans, `dvpToLoan` | `registerLoan` (new car, used car, title loan), `cancelPendingLoan`, `systemActivatePendingLoan`, `refinanceLoan`, `issueNOC`, administration | one lien a vehicle, owed by its owner, that survives until the bank clears it |
| `ChallanContract.sol` | police stations, fines, two counters a title | issue, pay, cancel, admin cancel, cancel all | the counters the other contracts read equal what the fines say |
| `InsuranceToken.sol` | insurers, policies, current policy of a title | issue, claim, mark expired, terminate | the current policy is the only one in force |
| `PUCToken.sol` | test centres, certificates, current certificate | issue, mark expired, terminate | a failed test never replaces a valid certificate |

Three transactions call through several contracts: `register` (title, loan's
borrower, passport), `approveTransfer` (insurance, emissions, fines and loan are
read; the title moves; a pending loan is activated) and `scrapVehicle` (loan, fines and
transfer are read; title, policy, certificate and fines are ended). All authority is
by role; `SYSTEM_ROLE` lets one contract call another and is granted by the
deployment script.

### Off chain

| Part | State | Hard behaviour |
| --- | --- | --- |
| Indexer (`modules/indexer`) | one cursor a contract, mirror rows | catch-up then live listeners, reconnection, handlers that swallow errors, events handled concurrently |
| Reconciliation worker (`jobs/reconciliation.*`) | `BlockchainTransaction` rows | replays or rolls back what the indexer missed, races with it, is not atomic |
| Safe governance (`modules/admin`, `jobs/safe-execution.*`) | proposals, signatures, queue | concurrent signatures, shared nonces, cancelled while queued, retries after success |
| Payment gateway (`modules/payment`) | order and reference of a challan | repeated webhooks, a payment whose transaction reverts |
| Operator services (rto, bank, police, insurance, puc, mfg, scrap, gov, b2b-entity) | mirror rows, pending transactions | check the mirror, submit, then store: a crash in between |
| Front end (`hooks`, pages) | a cache of query results | changes by others, fetches that land late, keys invalidated by hand |
| Process (`index.ts`, `worker-manager.ts`) | server, workers, connections | signals that meet requests, streams and jobs |
| Entity registry (`modules/b2b-entity`) | institutions, their on-chain ids | a proposal a change, several may register one entity, events missed |
| Transaction submission (`lib/blockchain.manager.ts`) | none: a gas estimate and a hash | the hash exists before anything is stored |
| Citizen and dealer services | reads of the mirror, one registration request | what they read may be older than the chain |
| Auth and token services, `lib/api.ts` | sessions, reset codes, one tab's renewal, citizens' nonces and sign-ins | four awaits of a reset beside logins; calls that share one renewal; a sign-in sent twice |
| Notifications | tabs under routing ids, Redis channels | tabs that open and close, one name cut two ways |
| E-mail, HTTP layer, layout | none of the life cycle | |

`PROJECT.json` lists every component with its status, and every hazard with the
line where it bites and the properties that cover it.

## 2. The contract modules

| Module | Models |
| --- | --- |
| `VehicleLib` | block time, expiry, register/toggle of an entity, `SYSTEM_ROLE` grants |
| `OwnershipToken`, `DigitalVehiclePassport`, `LoanContract`, `ChallanContract`, `InsuranceToken`, `PUCToken` | the contract of that name: its storage as variables, one action per external function |
| `VehicleSystem` | the composition: the three transactions above, the next-state relation over all callers, every property |
| `TitleLedger` | the abstract promise about titles (grant, offer, agree, withdraw, convey, scrap) |
| `MCVehicleSystem` | the symmetry set and the bounds of the runs |
| `VehicleSystem_proofs` | the theorems |

An external function is one action. Its `onlyRole` modifiers and `revert`s are the
guard (a reverted transaction changes nothing), its storage writes the primed
variables, and calls into other contracts are operators of their modules, so that
`approveTransfer` and `scrapVehicle` are one step each, as the chain executes them.
Views (`isLoanCleared`, `isInsuranceValid`, ...) are operators. Guards shared by
several functions have a name (`MayLend`, `MayScrap`), and so do those a mutant
breaks.

Abstractions. Addresses are model values; each role has a set of accounts.
VINs, hashes, amounts of loans, tenure, coverage and premium are left out because no guard reads
them; the amounts of fines are kept because a counter adds them up. Token ids and passport ids are
separate: vehicles are model values and titles numbers given in order of
registration, so a check that uses the wrong kind of id is visible. History
appears once: `authorizedBy` records who designated the scrap centre, the
`owner` field of the event `ScrapAuthorized`; no guard reads it.
Time is a counter that only moves forward; `XferWindow` stands for thirty days.

Bounds are in the guards and named: `MaxTime`, `MaxTokens`, `MaxXfers`,
`MaxBanks`, `MaxLoans`, `MaxChallans`, `MaxPolicies`, `MaxCerts`, `MaxClaims` (the
contract's own limit of 50, scaled down), `MaxPolicyDuration`, `MaxTradeCert` (the contract's limits on
durations, scaled down). `AdminScope` chooses which entities a run starts unregistered
and lets the administrator register and toggle; all others are registered and active
from the start, a state the program reaches by administrator transactions alone.

No fairness is assumed of the contracts: nothing obliges an account to send a
transaction, so only safety is claimed of them.

## 3. Properties of the contracts

Invariants: `TypeOK`; `LoanFollowsTitle` (an active loan on a registered vehicle is
owed by the present owner of an active title); `NoHiddenLoan` (every active loan is the
one the checks look at); `TitleConsistent` (title, NFT and passport agree);
`TransferCurrent` (a request exists exactly while its flag says so and names the
present owner); `ScrappedIsClean` (nothing is left on a scrapped vehicle);
`CountersExact`; `OneCurrentDocument`.

Action properties: `LienHolds` (no step moves or scraps a vehicle under an active
lien), `FinancedTransferCarriesLien` (a vehicle sold under a pending loan leaves
with that lien on the buyer), `InactiveBankGainsNoLien`.

Refinement: `ImplementsLedger`, the specification of `TitleLedger` under the mapping
that `VehicleSystem` states.

`title` checks `TypeOK`, `LoanFollowsTitle`, `TitleConsistent`, `TransferCurrent` and the refinement; `loans` checks `NoHiddenLoan` and the
action properties; `compliance` checks the other three.

| Run | Bounds | Shows |
| --- | --- | --- |
| `title` | 1 vehicle over times 0..2, or 2 vehicles at one moment whose titles may be minted in either order (`VehicleOrMoment`, which names what each case leaves out); 2 citizens, 2 requests, 1 loan, 1 fine, 1 policy without claims, 1 certificate | all six contracts together, with expiry of requests and documents; operations on one vehicle never reach the other, though ids differ; the ledger refinement |
| `loans` | 2 wallets, 2 bank ids, 3 loans, 1 vehicle | loans before and after registration, refinancing, pending loans, banks toggled at any time, a wallet registered twice |
| `compliance` | 2 vehicles, 2 stations and 2 fines of 2 amounts at one moment, or 1 vehicle, 2 insurers, 3 policies and 2 certificates over times 0..2 (`OneTopic`) | the counters stay exact, whoever settles and in any order; documents replaced, failed, expired, marked and terminated |
| `scrap_consent`, `deployed` | as small as shows the case | the disagreements below that name them |

Why they are enough: two citizens are the parties of a transfer, and a third behaves
as the first after it sold; one vehicle and its title suffice for every property
that names one vehicle, and a second one catches crossed ids; three
loans allow an old lien, its refinancing and a new one; three moments of time let a
request made at the first wait through the second and expire at the third, and a policy expire and be
replaced. The proofs below do not depend on these bounds.
`CHECK_DEADLOCK FALSE` is used because the bounded system stops when its counters are used up.

### Disagreements between the code and its own words

* `scrap_consent`: a scrap authorisation survives the sale of the vehicle, so the
  centre a former owner chose may scrap the buyer's car; `DigitalVehiclePassport.sol:89` and `:322`
  say the owner must have designated it.
* `deployed`: the deployment script never grants `SYSTEM_ROLE` on OwnershipToken to
  LoanContract, so a loan can not be attached to a transfer; the test set-up grants it.

One more is modelled but has no run of its own: `regBank` accepts a wallet it already
knows and overwrites its bank id, so loans of the old id can not be cleared any more
(`RegBank`; reached in `loans`, whose properties hold nevertheless).

The passing runs use the grants of the test set-up (`TestGrants`), under which more
can happen.

## 4. Safe governance

`SafeGovernance` models the part of the backend that speaks for the government on
chain: `admin.service.ts`, the `safe-execution` queue and worker, and what the
reconciliation sweep and the indexer do for Safe executions. `Council` states what all of it promises. `MCSafeGovernance` adds the symmetry
of proposals and members and the bound of the `governance` run.

The hard part is that nothing here is atomic: a handler reads, awaits, writes and
awaits again, while other requests, the worker, the sweep and the indexer write the same
rows. So a handler is as many actions as it has awaits that matter:

| Code | Actions |
| --- | --- |
| `createProposal` | `Propose` (the nonce stored may be older than the Safe's present one) |
| `signProposal` | `SignRead`, `SignStore`, `SignMark`, `SignEnqueue`, with what was read kept in `signing` |
| `cancelProposal` | `CancelRead`, `CancelWrite` |
| `executeProposalFallback` | `Fallback` |
| worker, `executeSafeTxInternal` | `WorkerSkip` or `WorkerLoad`; `WorkerSend`, `WorkerSendUnseen`, `WorkerSendFails`; `WorkerRecord` (layer 1); `WorkerConfirm`, `WorkerReverted`, `WorkerWaitFails` (layer 2) |
| `worker.on('failed')` | `AttemptFails` (retry or exhausted), `MarkProposalAsFailed` |
| `reconcileTransactions` | `SweepPick`, `SweepSkip`, `SweepConfirm`, `SweepRevert`, `SweepRollBack`; `SweepRequeue` for stuck proposals |
| indexer, layer 3 | `IndexSuccess`, `IndexFailure` |
| Safe contract (external) | `MaySend`, `MineOk`, `MineFailed`, `MineReverted` |
| process, Redis | `Crash`, `LoseJob` |

`safeProposalId` is unique in the schema: `HasRow` and `Storable` carry that
constraint, on which several behaviours turn. Updates inside one Prisma transaction are one step. The
state of the proposal is `status`, of its `BlockchainTransaction` row `row`; `outcome`
and `executed` are the chain's truth, which no handler reads but by a receipt or event.

Abstractions: owners and threshold of the Safe do not change; wallets are members;
signatures are valid. A database error is a crash of the process. The ages the sweep asks of rows
are left out, so it may come at any time. The body of an indexer handler is one step: it is
one database transaction after one read. `Fallback` is one step because the job it adds waits any time.
An entity's own rows, which `handleSuccessfulReconciliation` replays after the status, are those of
`EntityRegistry`.

`SafeReportsFailure` chooses between the two behaviours a deployed Safe can have when
the call it makes reverts: revert with it, or use the nonce, emit `ExecutionFailure` and succeed (which one depends on the
Safe's version and the gas parameters of the transaction). `IndexerRuns`: `worker-init.ts:14` has
the start of the indexer commented out; the runs start it where that
makes the claim stronger to refute or repairs more, so no violation is due to its absence.

Fairness (`FairSpec`): a request being served goes on; the worker goes on with its job and BullMQ serves
waiting jobs in order (strong fairness of `TakeStep`, since the worker is busy between two of them);
blocks come; every sweep reads every pending row and the oldest stuck proposals (strong fairness of
`SweepPick` and `SweepRequeue`, since a sweep runs at concurrency 1). Nobody is obliged to
propose, sign, cancel or execute by hand. With more than ten stuck proposals the sweep's batch is full; the
run has one.

Properties. `QuorumQueued`: only a proposal with a quorum of *stored* signatures is queued,
processed or given a verdict, though requests count what they read before. `RecordsMatchChain`:
EXECUTED and MINED are claimed only of what took effect, whoever of the three recorders wrote it.
`OneExecutedPerNonce`: of proposals that share a nonce one at most is ever recorded as executed.
`ImplementsCouncil`: the whole implements the specification of `Council`, in which there are no requests, jobs, transactions or recorders: a proposal takes a turn, which does
not change once somebody has signed, passes at its turn, once, with enough signatures, and only what passed is shown executed (and may be taken back, as a late cancellation does).
`StoredHashIsRecorded` and `StuckIsRequeued` (liveness): what layer 1 and the stuck-proposal sweep promise.

| Run | Bounds | Shows |
| --- | --- | --- |
| `governance` | 2 proposals that may share a nonce, 2 members, threshold 2, 2 transactions, 2 attempts, a crash, a lost job; faults, retries and the indexer meet one proposal, and one at a time is being cancelled or given up (`FaultsStrikeOne`) | the safety properties, the inductive invariant and the refinement of `Council`, in every interleaving of both members, the worker, sweep and indexer |
| `recovery` | 1 proposal and 1 transaction, a Safe that reports failure | the two liveness properties |
| `quorum_unnoticed`, `executed_unrecorded` | as small as shows the case | the disagreements below that name them |

Two members are the least that can sign at once; two transactions give a first attempt and a
retry, the only case in which a row and a hash disagree; two attempts have a retry and a
last failure (the code has three, the middle one behaves as the first); one crash and one lost job
reach every state from which recovery starts.

### Disagreements between the code and its own words

* `quorum_unnoticed`: two members sign at once, each counts one signature too few, and the proposal stays
  PENDING with its quorum; `schema.prisma:858` says it becomes THRESHOLD_MET.
* `executed_unrecorded`: the hash of a second attempt cannot be stored, so an execution by it is never recorded, by worker, sweep or indexer;
  `admin.service.ts:318` says "Safe to continue".

Section 7 proves both for every instance.

Three more are behaviours of the model without a run of their own. A proposal cancelled after its
threshold is met is executed by the job that waits (`schema.prisma:158` says cancellation comes before the threshold).
The check of `cancelProposal` is one await older than its update, so EXECUTED may be overwritten with CANCELLED.
With a Safe that reports failure the receipt has status 1, so the worker marks EXECUTED
and the indexer ignores the failure (`indexer.service.ts:1733` says it is marked EXECUTION_FAILED).

## 5. The mirrors

Every operation of an office on a contract goes the same way, and `Relay` models that
way once:

| Code | Actions of `Relay` |
| --- | --- |
| a service's check, then `submitEntityTx` (`blockchain.manager.ts`) | `SubmitEntityTx`: the gas estimate refuses what would revert, the hash comes back before anything is stored |
| the repository call that stores the `PENDING` row with the domain rows | `StoreTx`; `StoreRefused` when the indexer already made a row of that hash (`txHash` is unique) |
| the chain (external) | `Mined`, `TxReverts` |
| an indexer handler: reads, writes the mirror, then `finalizeTx` | `ReadBy`, `AppliedBy`, `FinalizeTx`; `Swallowed` when it fails, `LoseEvent` when the event is missed |
| `reconcileTransactions`, receipt of status 0 | `SweepReverted`, then the roll-back, which ends with `RolledBack` |
| the same, status 1 | `FoundMined` with `Replayed`: one database transaction |
| the process | `Crash`: what was in hand is forgotten, events in hand are read again |
| `onDelete: Cascade` of `BlockchainTransaction` (`schema.prisma`) | `Cascaded`: when a roll-back deletes a domain row, the transaction rows that point to it go with it, and a request about to store another is refused |

Events are handled in any order, because the live handlers are asynchronous and not queued.
A crash also lets handled events be read again, which the cursor, advanced after the handler, allows;
the model lets any of them come again, the code only those the cursor had not passed.

Five modules extend `Relay`. Each has the chain's side as its contract's callers see it, the rows, and one action for every
service check, store, handler, replay and roll-back of its kind of record:

| Module | Record | From |
| --- | --- | --- |
| `ChallanMirror` | fines and payment orders; the webhook and its repetitions, `adminCancelChallan` through the Safe | police, gov and payment services |
| `LoanMirror` | loans of one vehicle; registration, transfer loan, refinancing, NOC | bank service |
| `DocumentMirror` | policies and certificates of one vehicle; issue, expiry, claims, termination by scrapping | insurance and puc services |
| `TitleMirror` | passport, title, registration request and transfer rows of one vehicle; citizens' own transactions, whose events (`echo`) have no row | mfg, dealer, rto and scrap services, citizen's wallet |
| `TradeCertMirror` | the certificate of one dealer | rto service |

The front end has two modules, its copy of these rows and the citizen's way to a session:

| Module | Code | Actions |
| --- | --- | --- |
| `SignIn` | `auth.service.ts` and `auth.controller.ts` for citizens, `Web3LoginButton`, `CitizenAadhaarLoginModal`, `UserContext`, `Web3Provider`, the KYC and ownership rows they read | wallet: `SwitchAccount`, `HandleSignIn`, `GetNonce`, `AskSignature`, `SendLogin`, `LoginCitizen`, `LoginCitizenAgain`, `NonceRefused`, `LoginDenied`, `LoginBreaks`, `NonceLapses`; Aadhaar: `HandleSubmit`, `FindOwnership`, `LoginCitizenAadhaar`, `NotVerified`; answers: `SetCookies`, `ClearNonce`, `Renew`, `GiveUp`, `RefetchUser`; `HandleLogout`, `LoggedOut`, `SessionEnds`, `VerifyKyc`, `VerifyCitizenProfile`, `VehicleChangesHands` |
| `Portal` | the TanStack queries and mutations of `hooks/use-*.ts`, the pages that use them, `NotificationProvider` | `Navigate`, `ServerReads`, `FetchLands`, `FetchFails`, `StaleTimePasses`, `Reconnects`, `Notice`, `OthersWrite`, `Mutate`, `ServerWrites`, `MutationSucceeds`, `MutationFails` |

The data of `Portal` are those of the code, table by table: the key of each query and the key each mutation's `onSuccess` invalidates, from the hook files; the
tables a query reads, from the repositories; the tables written by the time a mutation is answered, from the services; and the queries
and mutations of each page. `Dashboards` says which pages one user has. One query is watched at a time, since queries do not touch
each other. What is shown is told by the number of writes it has seen (`asOf`), so a fetch that read before a write and lands after it is visible. What
`invalidateQueries` does to a fetch under way is TanStack's and external: with data, the fetch is cancelled and asked again; a first
fetch is left to end. Notices may arrive or not; as the finding `notified` shows, at this commit they do not.

`SignIn` is one browser whose windows share cookies and wallet. Each step of an attempt is an action, because between any two of them another window may ask for
its own nonce, which overwrites the cookie, the wallet may select another account, and the nonce may lapse. The interceptor of `lib/api.ts` takes any 401 for an
expired access token and sends the login again after a renewal (`ClearNonce`, `Renew`): the one way the browser itself could send a nonce
twice. The server has another: it knows a nonce by a token it keeps no record of (`auth.controller.ts:95`, `token.service.ts:14`), and clearing the cookie at `:110` is a request to the browser,
so `LoginCitizenAgain` lets the request of any session be delivered again while the token lasts, with an answer the browser takes or does not wait for.

One vehicle or dealer is enough where no query reads the rows of two; `ChallanMirror` has several rows because fines are found by
id, order and hash.

Properties. The database may lag the chain, and does whenever an event is missed; it may
not *lead* it. `FinesMatchChain`: a fine shown PAID or CANCELLED is so on chain, although requests, repeated webhooks, handlers,
replays and roll-backs write it in any order. `LoansMatchChain`: a loan shown cleared or with its NOC is closed,
and one shown ACTIVE was created. `DocumentsMatchChain`: a document shown ended is
not in force. `ClaimsNotAhead`: no row counts more claims than were filed on its document, though events come in any order and twice, the sweep writes their totals again, and a
roll-back decrements a count that filing never incremented; a count may be too low, and is after a roll-back. It is claimed until the vehicle is scrapped, when a termination may take the row of another document. `TitleNotAhead`: vehicle, title, request and transfers show nothing the contracts have not done. `CertNotAhead`: a
dealer shown certified was certified once. They are as strong as the code is: that an ACTIVE loan is open, that a pending fine
is unpaid, or that a certificate shown active is active now, is not true of it (see below).
`OwnChangesAppear`: once a page shows a query that has been fetched, it shows what the user changed, on whatever page the change was made. Two exceptions are written into it:
`Unnoticed` lists the pairs of a mutation and a query that reads what it wrote and whose key no hook names, all of which wait for the stale time; and
`InTime` leaves out a change confirmed while a fetch that may have read the old rows can still land.
`PaymentKept`: a collected payment's reference is never lost, as `reconciliation.worker.ts:793` wants.
`SessionsRestOnSignatures`: the sessions opened on one nonce are one citizen's, all but one of them come of a request delivered again, none of what the browser repeats by itself, and every session goes back to a signature of its citizen, one by Aadhaar through the KYC of an earlier one.
`MissedIsReplayed` (liveness, in `backend`): a settlement, or a clearance, stored before its event was missed is found by the sweep and shown.

| Run | Bounds | Shows |
| --- | --- | --- |
| `mirrors` | one kind of record at a time (`focus`); 3 transactions, the third once the first is settled (2 for documents and titles); one crash or one lost event, and then one transaction fewer; 1 fine in 2 rows (in one, with a third transaction), 2 loans in 3 rows, 2 documents, of which one passes its end while both are of one kind, 2 owners, 1 transfer, 2 certificates; every dashboard, page and query of the front end, 2 writes; 2 accounts, the first session being of either, 2 windows, 2 nonces, 3 sessions | the safety properties in every interleaving of requests, chain, handlers, sweep and faults |

Two transactions are what it takes for one to overtake the other, a third for a fresh operation after
both; one fault reaches each state from which recovery starts; two rows of one fine are the row of the service and the row the indexer made.
Two writes are what it takes for a page to miss the first and show the second; one mutation of the user's is in hand at a time, a bound; most pages disable their button meanwhile, and others write at any moment.
A nonce of each of two windows is what it takes for one to overwrite the other's, and three sessions are a signed one, one by Aadhaar after it, and one of the
other account; `Faults` names what the run leaves out: one window at a time has a request on its way, one token or session ends, and the vehicle has an owner only once somebody passed KYC.
Titles start from any state of the vehicle a citizen's transactions may find, so two transactions suffice there.

### A disagreement without a run

`auth.controller.ts:106` says of the nonce "it must be one-time use!", and `auth.service.ts:124` relies on it to recognise a message that was signed before. The code does not keep it: a login request
delivered again within the five minutes of its token opens another session (`LoginCitizenAgain`, which the run `mirrors` takes). What the code does keep is what
`SessionsRestOnSignatures` says: the session is the same citizen's, and the browser does not send such a request by itself. A record of the nonces used would make the comment true; the property could then do
without its exception.

### Other behaviours

What the models show of the code beyond the properties; none of these contradicts a promise, so none has a run:

* a paid fine becomes payable again when a second, reverted payment is rolled back (`reconciliation.worker.ts`, `PAY_CHALLAN`); the
  order and reference stay, so nothing is collected twice by the same order;
* two trade-certificate revocations, or two assignments to a dealer, of which one reverts: the roll-back undoes the other's success, and
  the roll-back of a mint deletes the passport another mint succeeded with (`reconciliation.worker.ts:714`);
* `HandleVehicleReg` after `HandleVehicleScrapped` shows a scrapped vehicle as ACTIVE (`indexer.service.ts:672`);
* the replay of a registration creates the title, and fails at every sweep when the handler has made it (`reconciliation.worker.ts:335`);
* a PUC certificate whose event is handled before its request stores its row keeps two rows, one of which no later event finds;
* the comment at `reconciliation.worker.ts:539` leaves claims to the indexer, while the roll-back at `:820` decrements them;
* the RTO service approves transfers whose row has `sellerOK`, `buyerOK` and `ownTid` (`rto.service.ts:190`), which no handler
  sets, so a transfer is completed in the model by the wallet's `CompleteTransfer`;
* of the sign-in: two windows that ask for a nonce overwrite each other's cookie, and the refusal of one clears the other's; a window keeps showing the user
  it last asked for after another window signed in somebody else, the query cache is not cleared, and KYC submitted there is stored for the user of the
  cookies; an Aadhaar session counts as signed in by wallet while that account is selected;
* wallets are stored in lower case by the indexer and in mixed case by the replay (`reconciliation.worker.ts:317`), while
  `auth.repository.ts:55` counts on lower case; the models do without the case of an address;
* of the front end: the `NOC` page offers its operation for loans CLEARED with `nocIssued` false, which no handler leaves behind;
  `getGlobalAuditLogs` asks Prisma for a table the schema has not, so the audit page never gets data (`ServerReads`); the answer of
  `submitKyc` is put into the cache and a profile fetch under way overwrites it.

## 6. The backend by itself

`MCBackend` checks, one part at a time (`focus`), what goes on without a user:

| Module | Code | Actions |
| --- | --- | --- |
| `Indexer` | `indexer.service.ts`: `start`, catch-up, live listeners, `handleReconnect` | `Boot`, `CatchUp` in chunks contract by contract, `ScanFails`, `HandleLive`, `WriteCursor` (the upserts run side by side), `ConnectionError`, `HandleReconnect`, `StopProcess`; `Mine` is external |
| `Session` | auth and token services; `lib/api.ts` of one tab | account: `LoginChecked`, `IssueTokenPair`, `Logout`, `RequestPasswordReset`, `ResetChecked`, `UpdateMemberPassword`, `MarkOtpUsed`, `RevokeAllMemberTokens`, `ResetAborted`; tab: `SendCall`, `CallSettles`, `CallFails`, `Unauthorized`, `RefreshAccessToken`, `RefreshLost`, `OnRefreshComplete` |
| `Notification` | dispatcher, Redis channel, subscriber, SSE manager, tabs | `OpenStream`, `LeaveTab`, `OnClose`, `Notify`, `BroadcastTo` |
| `EntityRegistry` | `b2b-entity.service.ts`; the indexer's registration and toggle handlers; the sweep over executions | `CreateEntity`, `RetryEntityRegistration`, `ToggleEntityStatus`, `CreateProposal`, `ProposalRefused`, `ExecuteRegister`, `ExecuteToggle`, `HandleRegistration`, `HandleToggle`, `HandleExecutionSuccess`, `SweepExecution`, `MissEvent` |
| `Lifecycle` | `index.ts`, `worker-init.ts`, `worker-manager.ts`: one life of the process | `InitializeWorker`, `Listen`, `Dies`, `Accept`, `Answer`, `CloseTab`, `TakeJob`, `FinishJob`, `GracefulShutdown`, `ServerCloses`, `ClosesWorkers`, `ShutsDownAlready`, `WorkerCloses`, `WithTimeout`, `WorkersClosed`, `DisconnectDatabase`, `Exit`, `ForceExit` |

`Indexer` says how events reach a handler and leaves what the handler writes to the mirrors; the mirrors take from it that events come in any order, are
missed, or come twice. `Session` splits the reset at its four awaits, with logins and other
resets beside it, and the tab's interceptor at its call of `/auth/refresh`, so that calls sent before a renewal are refused after it.
`Lifecycle` has a stage of `gracefulShutdown` for each signal, since the handlers of SIGTERM and SIGINT run side by side and share the flag `shuttingDown`; the worker
of Safe executions is started but never added to the manager (`Tracked`), so no shutdown waits for it.
The handshake of `EntityRegistry` with `SafeGovernance` is by the proposal: here it is executed or ends.

Properties. `CaughtUp`: when the catch-up moves to the next contract, every event of the blocks it promised, from the cursor or the start of the window to the
last block it read, was given to its handler, whatever failed and restarted.
`ResetEndsSessions`: no session found by an ended reset is left (`auth.service.ts:107`).
`NoGhostTabs`: no closed stream stays among those written to. `OnChainIdRight`: the id stored for an institution is the one its contract gave it, whichever of several
proposals registered it. `DatabaseOutlivesWork`: the database is disconnected only after every request has ended and, with one signal and no worker that timed out, every job of a tracked worker. `RestartCatchesUp`, `CallsSettle` and `RegistrationBackFilled` (liveness): a restarted
indexer gets to what its cursor had not passed; every call of a tab ends, though calls share one renewal (that there is one at a time, `OneRefresh`, is proved and no run repeats it); a registration whose events were both missed is
filled in by the sweep. `ShutdownEnds` (liveness): a shutdown that finds no stream open ends by itself, whatever jobs hang and however many signals come; only an open stream, which `httpServer.close` waits for, needs the 30 s timer.

Fairness is weak throughout. Requests that have submitted, the chain, handlers and sweep go on (`FineFairness`, `LenderFairness`): a roll-back in hand, which keeps
the sweep from other rows, ends, so weak fairness is enough. The process is restarted, timers fire and
queries return or fail (`IndexerFairness`). The server answers, or axios gives up (`SessionFairness`).
The sweep runs every five minutes (`RegistryFairness`).
Requests are answered within their time limits, a worker is waited for 15 s, callbacks run; the 30 s timer has no fairness, nobody has to close a stream and no job has to end (`LifeFairness`). Nobody is obliged to log in, pay, propose or break anything.

| Run | Bounds | Shows |
| --- | --- | --- |
| `backend` | 2 transactions with a lost event; 1 contract, 3 blocks in chunks of one, a window of two, two faults of crash, broken socket and failed query; 2 sessions, 2 calls, 1 reset beside one call; 2 members, 2 tabs, 1 message; 2 entities of different kinds, 2 requests, 2 proposals, 2 missed events; 2 connections, 2 signals | the properties above under `FairSpec` |
| `notified` | 2 members, 2 tabs, 1 message | the disagreement below |

A chunk of one block with three blocks has every boundary the arithmetic of chunks can get wrong; two calls are the least that can share a
renewal; two entities of different kinds have equal on-chain ids; two connections are a request beside a stream, and the process handles two signals.

### Disagreements between the code and its own words

* `notified`: the controller registers a tab under the channel's whole name, and the subscriber looks it up without the prefix: a
  notification the subscriber hears reaches no tab; `redisSubscriber.ts:46` says it is pushed to the member.

Not contradicted by a promise, but shown by the models: blocks mined between reading `latestBlock` and binding the listeners are handled only
after the next restart; the cursor passes a block at its first event, so a crash may skip the rest of it; after a broken socket `start()` returns at once
because `isRunning` is still set (`indexer.service.ts:57`), though `:48` logs a reconnection; the toggle handler looks
entities up by on-chain id alone (`:377`) and may change an entity of another type; a registration whose event was missed
while `ExecutionSuccess` was handled is never filled in, since its row is not PENDING; a failed order stays on its challan (`payment.service.ts:47`); a login checked before a
reset may get its session after it; a second signal does not wait for the workers the first is closing, and the process may exit with a Safe execution in hand.

## 7. Proofs

### The contracts

`VehicleSystem_proofs` proves for every value of the constants that satisfies the
named assumptions of the modules:

* `TypeCorrect`: `Spec => []TypeOK`;
* `Inductive`: `Spec => []IInv`, and from it `LoanFollowsTitleAlways`,
  `NoHiddenLoanAlways`, `TitleConsistentAlways`, `TransferCurrentAlways`;
* the action properties `LienHoldsAlways`, `InactiveBankGainsNoLienAlways`,
  `FinancedTransferCarriesLienAlways`;
* `FullInductive`: `Spec => []FullInv`, and from it `ScrappedIsCleanAlways`,
  `OneCurrentDocumentAlways`, `CountersExactAlways`;
* `LedgerImplemented`: `Spec => ImplementsLedger`, the refinement of `TitleLedger`;
* `NothingAttachedAsDeployed`: with the grants of the deployment script, no transfer ever carries a pending loan. It states the finding
  `deployed` for every instance: only `attachPendingLoan` sets the flag, it asks for a role that script never gives `LoanContract`. The grants are fixed in the model: an administrator who grants the role by hand later ends this.

`IInv` is `TypeOK` with the four invariants and two conjuncts that make them
inductive. `PointersSound` says that `dvpToOwn` and `dvpToLoan` stay below their
counters and point back: without it a new title or loan could coincide with one already
pointed to. `FlagsSound` says that a signed request or one with a pending loan
exists, and that a loan with its NOC is closed: without it `approveTransfer`, which reads only
the signatures, might move a title with no request behind it. The four need each
other: `approveTransfer` keeps `LoanFollowsTitle` because the cleared-loan check
reads `dvpToLoan`, which by `NoHiddenLoan` shows every active loan, and because by
`TransferCurrent` the buyer it moves the title to is the borrower it names;
`deactivateVehicle` keeps `TransferCurrent` because `TitleConsistent` ties the
title to its passport. The proof has one lemma per transaction or group of
transactions that touch the same variables (`RegisterInv`, `ApproveInv`,
`ScrapInv`, `TransferStepInv`, ...), one frame lemma for those that touch none
(`OtherStepInv`), and combines them in `NextInv`. The action properties follow from the
invariant in the state before the step and a case analysis on the few
actions that move an owner or create a loan.

`FullInv` adds `ComplianceInv` to `IInv`. Scrapping reads the count of pending fines and the
two pointers, not the fines and documents themselves, so that nothing is left on a scrapped vehicle needs
`CountsExact` (the count is the cardinality of the fines unsettled: a decrement at zero never happens) and
`OneCurrentDocument` (the pointers name all that is in force). `RegistersSound` says that entries beyond the
counters are empty and that documents in force name a title that was minted: without it a new fine or policy might take the place of one
that counts. What is clean stays clean because every operation that could add to a
vehicle asks for an active title (`StaysClean`). The two lemmas about cardinality, one for a fine issued and one for a fine
settled (`IssueChallanCounts`, `SettleCounts`), use that a title has finitely many fines.

For the ledger each group of actions has a lemma that it is one ledger step, or none, of one vehicle:
`SameTitle` says that the ledger sees no change of a vehicle, `LedgerUpdate` that a step which writes the request of one
title changes that vehicle's offer only. `IInv` supplies what the abstract guards ask for: the owner the
request names is the present one, and nobody else's title or offer hangs on that title (`dvpToOwn` is one-to-one).

The assumptions are that the bounds and windows are natural numbers, that the amounts
of fines are positive, and that `Nobody` (the zero address) is not an account or a
vehicle. TLC evaluates them in every run.

`CountersExact` has a second half, `AmountsExact`: the pending amount is the sum over the unsettled fines. The sum is a fold of the community
modules, and the library's induction theorems, which take an operator, cannot be used on it. The proof is by minimal counterexample instead, from
`WFMin` and `NatLessThanWellFounded`, which take none: `TotalExists` says that for any amounts some function on the sets of fines adds them up
(`AddsUp`), since the least number of fines without one would get one from the number before it; `SumIsTotal` that the fold equals any such function, since a smallest
set on which they differ would differ from it without the member the fold takes first. `OwedOneMore` and `OwedSame` are then all that the
actions need: a fine adds its amount (`IssueChallanAmounts`), settling takes it off a total that was no smaller, so that the clamp never applies
(`SettleAmounts`), and scrapping, which asks for a title without pending fines, finds none to cancel (`ScrapFindsNoFine`).

### Safe governance

`SafeGovernance_proofs` proves, for any sets of proposals and members, any threshold and any bounds:

* `GovernanceInductive`: `Spec => []GovernanceInv`;
* `QuorumQueuedAlways`: `Spec => []QuorumQueued`;
* `OneExecutedPerNonceAlways`: `Spec => []OneExecutedPerNonce`;
* `RecordsMatchChainAlways`: `Spec => []RecordsMatchChain` for a Safe that reverts with its call. For one
  that reports failure it is false (see above);
* `CouncilImplemented`: `Spec => ImplementsCouncil`, the refinement of `Council`;
* `UnnoticedForGood`: once every member has signed a proposal that is still PENDING and none of their requests is left to count the
  signatures, it stays so until it is cancelled. It states the finding `quorum_unnoticed` for every instance;
* `StrandedForGood`: once the call of a proposal took effect by a transaction without a row, while the row of the proposal is of one that did not
  succeed, the proposal is never set EXECUTED. It states the finding `executed_unrecorded` for every instance.

`GovernanceInv` adds three conjuncts. `RequestsSound` says that what a signing request
read is at most what is stored, and that its own member has not signed: this is why a stale count still never
lets a proposal through, for the request's own signature makes the stored ones at least one more than it read
(a cardinality argument, so the members are assumed finite). `SendsSound` says that a transaction was sent for a proposal
with a quorum, and only successful ones are in `executed`; it justifies every verdict recorded later. `JobsSound` ties the job
and the sweep in hand to a transaction that was sent for their proposal. Signatures are only ever added, so
a quorum once reached stays. The lemmas follow the actors: requests, worker (send, wait), chain, sweep, indexer, crash;
`RecordExecutedSound`, `RecordFailedSound` and `SetFailedSound` are shared by the three recorders.

`OneExecutedPerNonce` needs `NoncesSound` beside it: a proposal that is signed, or being signed, exists and keeps its
nonce; the nonces of two proposals whose transactions the Safe accepted differ, because each is behind the Safe's own, which only moves forward; and EXECUTED stands
for an accepted transaction of that very proposal. The last part fails for a database that records by hash alone, so it rests on `SendsSound`. One lemma,
`NoncesKept`, covers every step that accepts no transaction; only `MineOk` and `MineFailed` are looked at by themselves.

The refinement uses both invariants. `Passed`, the proposals with an accepted transaction, is told by the transactions; a request adds exactly its own member's signature
(`RequestsSound`), the proposal it creates has none yet (`NoncesSound`), so a signed turn never changes; the Safe's acceptance is the council's `Pass`, which needs the quorum behind each transaction sent
(`SendsSound`) and that a proposal which passed is behind the Safe's nonce. Every other write of a status shows, or takes back, one proposal (`CouncilShows`), and whoever sets EXECUTED holds
a receipt or event of an accepted transaction (`RecordedPassed`). Unlike `RecordsMatchChain` this holds of a Safe that reports failure too: there what passed need not have taken effect.

`UnnoticedForGood` rests on `StillOpen`: no job, send or marked request is of a PENDING proposal, because what puts a proposal there first decides its
status, and nothing makes it PENDING again. TLC finds proposals in that state (it is how `quorum_unnoticed` fails), so the theorem is not empty. `StrandedForGood`
needs only `NoncesSound`: the nonce of such a proposal is used (`StrandedIsSpent`), so nothing more is sent or mined for it, and every recorder needs the row it does not have. TLC
reaches that state too.

Only model-checked: both liveness properties (liveness under fairness is out of the prover's reach).

### Fines, sessions, sign-in, notifications, entities, process, indexer

Each proof is for every value of the constants, with no bound on transactions, rows, members, tabs or entities. `Backend_proofs` holds those about the process,
the indexer, notifications, entities and institutions' sessions, `Frontend_proofs` those about the sign-in and the cache.

`ChallanMirror_proofs`: `FinesMatchChainAlways` and `PaymentKeptAlways`, from `FineInv`, which adds three conjuncts.
`LinkSound` ties a settlement's row to the challan its transaction names, `ChainSound` says that a mined settlement has
settled it on chain, and `PaySound` that only a row with an on-chain id is ever paid for. Without
`LinkSound` a replay, which writes the row a transaction links to, might settle another fine than the
chain did; without `ChainSound` the handlers, which write what the event says, would have nothing to stand on; `PaySound` keeps the roll-back of an issue, which
deletes its row, away from rows with a payment. One lemma per group of actions: requests, stores, chain, handlers, replays, roll-backs.

`Backend_proofs`, sessions: `OneRefreshAlways` and `ResetEndsSessionsAlways`, from `SessionInv`. `FlagSound` says that a renewal is in flight only
while `isRefreshing` is set and that there is at most one; `ResetSound` that what a reset
found is a set of sessions issued, all revoked once it has ended: sessions are never made valid again.

`Frontend_proofs`, sign-in: `SessionsRestOnSignaturesAlways`, from `SignInInv`. `NoncesApart` says that a nonce belongs to the attempt of one window. `AttemptSound` says
where an attempt can be once its nonce has opened a session: granted, refused by the login that stored its row and then broke, or on its way again with the cookie of
that nonce cleared and another, or none, carried, so that no second session can come of the attempt; `SetCookies`, `ClearNonce` and the overwriting of the cookie by another
window are what keeps it. A request delivered again (`AgainStep`) opens a session for an earlier one's citizen and uses no new nonce. That those who passed KYC have signed (`Signed`) is what a session by Aadhaar rests on.

`Backend_proofs`, notifications: `NoGhostTabsAlways`, from `SseInv`, whose `FiledUnderChannels` says under which names a tab may be filed; and from the same
conjunct `NothingShownAlways`, which states the finding `notified` for every instance: no tab is ever written a notification.

`Backend_proofs`, entities: `OnChainIdRightAlways`, which with the types is inductive as it stands: every write of an id,
by handler or sweep, copies the one the contract has at that moment, and a contract never renumbers.

`Backend_proofs`, process and indexer: `DatabaseOutlivesWorkAlways`, from `LifeInv`. `ServerFirst` says that a closed server has no connection and that every later stage of a shutdown found it closed;
`WorkersNext` that `shuttingDown` is set exactly when some signal is past asking the workers to close, so that a signal which is the only one
waited for them itself; signals are assumed finite, as the process handles two. `CaughtUpAlways`, from `IndexInv`: `PassedHandled` says which
blocks are behind a scan, contract by contract, chunk by chunk and log by log, and `ScanBehind` that blocks are only ever added after the
last one the scan read. `ChunkEnd` is the arithmetic of chunk boundaries, for any size of chunk. That the indexer's variables keep their types is a second invariant, `IndexFits`, because the
number of connections is a consequence of how often they fail: `ConnectionsPaid` counts the connections opened, one that a timer, a scan cut off or a process
that is down is about to open included, against the stops, the errors and twice the breaks, since a break may open two, one for the listener's error and one
when the scan it cut off fails.

### The mirrors

`Mirrors_proofs` proves `CertNotAheadAlways`, `TitleNotAheadAlways`, `DocumentsMatchChainAlways`, `ClaimsNotAheadAlways` and `LoansMatchChainAlways`, for any
numbers of transactions, rows, ids, crashes and lost events. The first part is about `Relay` alone: `RelayedTx` says what a step
that submits, mines and links nothing may do to a transaction, when the rows in `gone` are deleted (its function, id and result stay; a link may vanish, never
change; no event appears), and lemmas say that stores, handlers, replays, roll-backs, crashes and the cascade of a deletion are such steps. `EventsSound` (an
event is of a mined transaction) and `SweepSound` (the sweep rolls back what reverted) hold in every mirror. Each mirror then adds what the chain's side
tells its rows:

* certificates: `CertSound`, that whoever has a certificate to revoke was certified once;
* titles: `TitleSound`. A vehicle has an owner exactly while its status is ACTIVE or SCRAPPED; what was mined, and what an unhandled event of a
  citizen's wallet says, has happened and is not undone, because the contracts only move a vehicle onward;
* documents: `DocLinks` and `PapersSound`. At most one transaction issues a row, and the row's id is that document's or none yet, until a termination,
  which finds rows by status alone, writes another's: by then the vehicle is scrapped and nothing is in force. Only what the two pointers name is valid, so a document the
  handlers show ended because it was replaced is not in force;
* claims: `ClaimsInv`, on top of the invariant of documents. What an event carries is a total its document had (`TotalsSound`), so handlers and replays write no more than
  was filed, in any order and however often. How far the roll-backs take a count below zero is a matter of counting them: `ClaimsCounted` bounds the count from below by the number of claims of
  that row that were found FAILED and are rolled back (`TakenDown`), and the sweep, which never takes up a FAILED row again (`FailedStay`), adds to that set with every
  decrement. The set has at most `MaxTxs` members, which is the lower bound the type gives;
* loans: `LoanLinks` and `OneLien`. A vehicle has one active loan, so the loan a NOC or a refinancing meets is the only one open and closing it leaves every
  loan made before closed: the one of the row the request was made for, too, even if the transaction closed a newer one (`ClearSound`). A row's loan never changes
  until the row is deleted, and the deletion takes with it the transactions that point to it (`RegSound`).

The last needs the cascade: with the transaction rows of a deleted row left in place, `LoanInv` is not inductive. That is how the models came
to state the `onDelete: Cascade` of the schema, which an earlier version left out.

### The front end's cache

`Frontend_proofs` proves `OwnChangesAppearAlways` for any number of writes, in two parts. `HooksTell` is about the tables of `Portal` alone: on every dashboard, a
mutation that writes a table which a query of that dashboard reads names that query's key, or the beginning of it, or replaces its data, or the pair is one of
`Unnoticed`. It is proved dashboard by dashboard (`CitizenTells`, `GovTells`, ...), from the tables as sets of pairs. The second part is `PortalInv`, about one query of one
user. `Marked` says that what is cached from before the user's last write that the cache was told of is marked stale, and that no fetch which read
before that write will land: `invalidateQueries` asks again over a fetch under way. A first fetch, or one of a page that is no longer open, it leaves to
end, and what the user changed meanwhile is not due (`InTime`). `InHandTells` is where `HooksTell` is used: the mutation in hand invalidates or replaces what it
writes of the watched query. `Counted` orders the clock, the write in hand and the write due. The types of the cache need one fact
more, `ReadSoFar`: what is cached, or on its way, was read at a time that has been, so it never says it has seen more writes than there are.

### The runs as a whole

`MCMirrors` and `MCBackend` put independent parts side by side and let one move at a time. `MCMirrors_proofs` and `MCBackend_proofs` prove of these very specifications, for
any values of the constants, what TLC checks of them on small ones: `MirrorsTypeOKAlways` and `BackendTypeOKAlways` their type invariants, `MirrorsHoldAlways` and `BackendHoldsAlways` every other
invariant of the two runs, and `MirrorsKeepPayments` the action property. The invariant is, for the part in focus, that part's own inductive invariant, and
for every part its properties (`FocusInv`, `PartInv`): the parts share the transactions of `Relay`, so an invariant of one that speaks of transactions does not survive the steps
of another, but what is promised of rows and chain is told by a part's own variables, which nobody else writes (`OwnVariables`, `PartVariables`). The run's `Faults` play no part: the theorems hold without them.

### What stays with TLC

Seven liveness properties, since fairness and ENABLED are out of the prover's reach: `MissedIsReplayed`, `RestartCatchesUp`, `CallsSettle`, `RegistrationBackFilled`, `ShutdownEnds`,
`StoredHashIsRecorded` and `StuckIsRequeued`. Every invariant, every action property and both refinements that a run checks are theorems. Three theorems state
what no run repeats: the inductive invariant `IInv`, whose parts the runs check, `OneRefresh`, and what the findings say of every instance.

## 8. Not modelled

* Layout, form state and charts of the front end, and the pages where institutions sign in or change a password: much of the TypeScript, which keeps no life-cycle
  state. Of the front end, the query cache, the HTTP client, the citizen's sign-in and transactions and the notification stream are modelled.
* What lists, look-ups and profile reads of the services return: they change nothing, and `Portal` knows only which tables they read.
* The staff rows of `b2b-member`: single-row updates no other part reads but the login.
* E-mail: it only leaves the system. HTTP routing, validation, rate limits, error texts.
* Keys and nonces of signing wallets, gas, and the encoding of calls by `ethers`.
* The batch sizes of the sweep: it reads fifty pending rows at a time, and between that and the work on one of them the row may have changed; the models read a row when they work on it. And of the stuck proposals it takes the ten that were updated first, and queueing one again does not change its row
  (`reconciliation.worker.ts:134`), so ten whose jobs keep failing keep an eleventh waiting. With one proposal, as in `recovery`, this does not arise.
* The dealer's trade certificate expires in `OwnershipToken` but not in `TradeCertMirror`.
* `worker-init.ts:14` comments out the start of the indexer at this commit; the modules that contain it model it started.

## 9. What could be added

The models and proofs cover what the plan set out. Three things are left. The gap between the last block of the catch-up and the live listeners, and the skipped rest of a block, are behaviours of
`Indexer` with no property, because the code does not promise otherwise; should it be changed to close them, `CaughtUp` and `RestartCatchesUp` are the properties to strengthen. The converse of the
refinements, which steps of the ledger and the council the program can always take, is about ENABLED and out of the prover's reach. And the
composition of `EntityRegistry` with `SafeGovernance`, which meet in a proposal, is by that proposal's end alone.
