# Boarding-house API: TLA+ models and proofs

The repository is a Go HTTP API (gin, pgx, Postgres, an S3-compatible object store) with which
owners of boarding houses manage rooms and tenants, let rooms, bill the rent every month and
collect it. All shared state lives in Postgres tables and in the object store; any number of
requests run at once, each in a goroutine of its own, and nothing but the database's locks,
unique indexes and WHERE clauses orders them. That is what the models here are about: the
tables as variables, each operation as the steps it commits, in every order.

| file | what it is |
| --- | --- |
| `Tenancy.tla` | the core: rooms, tenants, onboarding, monthly billing, manual payment, gateway checkout |
| `ProofReview.tla` | composed with the core: a tenant uploads a proof of payment, the owner reviews it |
| `Dashboard.tla` | composed with the core: the owner's overview, several reads without a common snapshot |
| `TenantPortal.tla` | over the core: what the tenant's pages show |
| `Transactions.tla` | composed with the core: the transactions statement by statement, with row locks |
| `Leases.tla`, `LeaseRefinement.tla` | what the core promises, in three variables, and how its tables are read as that |
| `Calendar.tla` | billing periods on the real calendar |
| `Accounts.tla` | registration, logins, tokens, guards, portal access of tenants |
| `MCTenancy.tla`, `MCProofReview.tla`, `MCDashboard.tla`, `MCTransactions.tla`, `MCAccounts.tla` | values of the constants for TLC, with a `.cfg` per run |
| `TenancyProofs.tla` | types, owner isolation, what a step may do to the rows (the inductive base) |
| `TenancySafety.tla` | the safety theorems of the core |
| `TransactionsProofs.tla`, `TransactionsSafety.tla` | the inductive invariant of the transactions and what a statement does to it; what others do to it, the refinement of the core, who can be in a deadlock, and that nobody waits for nothing |
| `ReviewProofs.tla` | the review implements the core; its invariants |
| `ViewProofs.tla` | what is seen of the core: the tenant's pages agree, no onboarding is stuck, the overview loses no bill, the tables implement the abstract leases, also under interleaved transactions |
| `CalendarProofs.tla` | every billing period, for every month of every year |
| `AccountsProofs.tla` | one login per owner, sound guards, deleted tenants stay out |
| `PROJECT.json` | components, runs, mutants, source map, findings, hazards, theorems |

`tlc -config Tenancy_lease.cfg MCTenancy` checks a run, `tlapm TenancySafety.tla` a proof module.

## 1. Inventory

Layers: `handler` (HTTP, input binding) calls `service` (rules, transactions) calls `repository`
(one SQL statement per method). A service holds no state; a component's state is its tables.

| component | state | operations that change it | model |
| --- | --- | --- | --- |
| Room management | `rooms` | create, PATCH (any status), DELETE (check, then soft delete) | `Tenancy` |
| Tenant management | `tenants` | create, PATCH (`moved_out`, `cancelled`, e-mail, password), DELETE (soft) | `Tenancy`, `Accounts` |
| Onboarding | `room_assignments`, first row of `bills` | AssignRoom, Cancel | `Tenancy`, `Transactions` |
| Monthly billing | `bills` | GenerateMonthly (read, then transaction), MarkOverdue | `Tenancy`, `Transactions`, `Calendar` |
| Manual payment | `payments`, activation of assignment, tenant, room | RecordManual | `Tenancy`, `Transactions` |
| Gateway checkout | `payment_gateway_transactions`, `bills.status` | PayBill, createCheckout | `Tenancy`, `Transactions` |
| Proof review | `manual_payment_submissions`, objects | Submit, Cancel, Approve, Reject | `ProofReview` |
| Tenant portal reads | none | MyRoom, ListBills, GetBill, ListPayments | `TenantPortal`; `GetBill` in `ProofReview` |
| Dashboard | none | Overview (four reads and one of payments) | `Dashboard` |
| Authentication | `owners`, `owner_users`, `tenants.password_hash`, tokens | register, login, refresh | `Accounts` |
| Sample users, seed, server, configuration, health | `users` | template code, wiring | not modelled |

How they interact: every component writes `bills.status`; onboarding, payment, review approval
and room/tenant management all write `rooms.status` and `tenants.status`. A payment by either
way activates a pending assignment. Submissions hold a copy of the bill's amount, taken before
they are inserted. There are no callbacks, no queue and no background job in the repository:
monthly generation and overdue marking run when a request asks for them.

What is hard here:

* **Two requests for the same rows.** Most operations lock the rows they decide on
  (`SELECT ... FOR UPDATE`), so their transaction is one step. `RoomService.Delete`,
  `BillService.GenerateMonthly`, `manualPaymentService.Submit` and `DashboardService.Overview`
  read without a lock and act later: each is split at the point where others can run.
* **Locks taken in different orders.** Onboarding locks room, then tenant; a cancellation
  assignment, bills, room, tenant; a payment bill, tenant and room (by foreign keys), assignment,
  tenant, room. They can wait for each other in a circle, which Postgres breaks by aborting one.
* **Rules that rest on each other.** "One open checkout" is checked only for bills that are
  `gateway_pending`, so it rests on no bill returning from there (section 5); monthly runs bill assignments
  read earlier, so they rest on no operation ending an active assignment; "one tenancy per room"
  holds only through the assignments, since room statuses can be patched at will.
* **Accounts in two tables.** Registration inserts two rows; tenants' e-mails are unique without
  regard to case among the undeleted, but compared exactly at login; a refresh looks up nothing.
* **Failure in the middle.** Any transaction may lose its connection before COMMIT. Submit writes
  a row, an object and the row again; any of them, and the clean-up, may fail, and the owner may
  decide in between.
* **Boundaries.** Due days beyond the month's end, the day a bill becomes late, the moment a
  checkout expires, bill numbers that keep 32 bits of a UUID.

`PROJECT.json` lists each hazard at its line, with the property that would notice it or the
reason why none does yet.

## 2. The models

### Tenancy

A table is a function from row identities to rows or `Absent`. Bills are keyed by assignment and
month, which is the table's unique key; `payments` and `checkouts` hold the sequence of rows of a
bill, so that a second payment or checkout would be seen.

| action | code | kept of it |
| --- | --- | --- |
| `CreateRoom`, `PatchRoom` | `room_repository.go` Create, Update | owner scope, soft delete, status |
| `CheckRoomDelete`, `SoftDeleteRoom` | `room_service.go` Delete | the unlocked check and the later UPDATE, which looks at `deleted_at` alone |
| `CreateTenant`, `PatchTenant`, `DeleteTenant` | `tenant_repository.go` | the statuses PATCH accepts |
| `AssignRoom` | `onboarding_service.go` AssignRoom | locked checks, counts of live assignments, first bill, both status updates |
| `CancelOnboarding` | `onboarding_service.go` Cancel | cancels every bill still to be paid; frees the room |
| `ReadActiveAssignments`, `InsertMonthlyBills` | `bill_service.go` GenerateMonthly | the read outside the transaction; ON CONFLICT DO NOTHING; a taken bill number rolls the month back |
| `MarkOverdue` | `bill_service.go` MarkOverdue | unpaid and due before today |
| `RecordManual` | `payment_service.go` RecordManual | checks under lock, payment row, bill paid, activation on the first payment |
| `PayBill` | `tenant_portal_service.go` PayBill | reuse of an open checkout, a new one otherwise |
| `Tick` | the server's clock | a day passes |

A request that fails rolls back: it is the absence of a step. A scoped UPDATE that finds no row
fails its transaction, which is why `UpdateRoomStatus` and `UpdateTenantStatus` are guards too.

Abstractions: months and days are integers with a first and a last day per month (constants, any
calendar); names, numbers of rooms, notes, methods and references are left out; a checkout's
expiry is counted in days.

Nothing serialises the monthly runs of an owner, the scheduler's and a manual one for instance. What
a run has read is therefore kept in `billRuns` and never taken out: at any later moment any number
of runs, for any months, may insert from it. A run that fails is one that never does.

### ProofReview

`EXTENDS Tenancy` and adds submissions, requests under way (`uploads`, with the program counter
of `Submit`) and stored objects. `Submit` is split at every statement: `CheckBill`,
`InsertSubmission`, `PutProof` or `PutFails`, `SetProofURL`, `DeleteByID`, `EndUpload` (any later
error, or the server stopping). `CancelSubmission` and `Reject` are single guarded UPDATEs,
`Approve` is one transaction that settles the bill with `SettleInFull`, as `RecordManual` does.
`ProofQueriesRun` says whether the SQL of `GetBill` is one Postgres accepts: at this commit it is
not (section 5), and the other runs assume the query as it is meant.

### Dashboard

`EXTENDS Tenancy` and adds, for each owner, an overview request: `CountBills` (the summary, one
statement), then `ListBills` for each status in the code's order, or `AbortOverview`. A list is
the set of bills it ranges over. Statements of other requests come between any two.

### TenantPortal

Three state functions over the tables of `Tenancy`, no state of its own: `MyRoom`,
`ListTenantBills` and `ListPayments` are the rows that the WHERE clauses of
`tenant_portal_repository.go` select. `PortalPagesAgree` relates the three. At this commit the
SELECT of the bill list is refused by Postgres for the reason given in section 5 for `GetBill`;
`PayBill` finds its bill by the same WHERE clause in a statement that does run.

### Leases and LeaseRefinement

`Leases` states what onboarding, billing and payment together promise, in three variables: the
phase of each lease, its parties, and a ledger with one entry per lease and month. Its actions
are `Sign`, `Charge`, `Pay`, `Cancel`. `LeaseRefinement` reads the tables as those
(`pending_payment` as pending; unpaid, overdue and gateway_pending as due; cancelled bills as
void) and `ImplementsLeases` says that every behaviour of `Tenancy` is then one of `Leases`.
Statuses of rooms and tenants, soft deletion, owners and checkouts are invisible there.

### Transactions

`EXTENDS Tenancy`, whose tables hold what is committed, and adds for each connection of the pool
its open transaction, what it has written, and the row locks held. `Program` lists the statements
of each transaction in the order of the code; a step runs one.

| in the model | in the code and in Postgres |
| --- | --- |
| `Lock...` | the `...ForUpdate` methods of the repositories and the checks that follow them |
| `CountLive`, `Insert...`, `Update...`, `CancelBills` | the repository method of that statement |
| `TenantKey`, `RoomKey`, `AssignmentKey` | foreign-key checks that end an INSERT: KEY SHARE locks |
| `LockMode`, `Conflicts` | FOR UPDATE, NO KEY UPDATE, KEY SHARE and Postgres' table of their conflicts |
| `Found` | the WHERE clause, evaluated again when the lock is granted (READ COMMITTED) |
| `Commit`, `Rollback` | `tx.Commit`, `defer tx.Rollback` after any failing check or statement |
| `Lose` | the connection or the server is lost, or the request is given up |
| `BreakDeadlock` | Postgres aborts one transaction of a wait-for cycle |
| `Single` | statements outside a transaction: they wait for the locks on the rows they change |

`ActsAtomically` is the refinement: with every interleaving, rollback and loss the committed
tables change as `Tenancy!Spec` allows, where each operation is one step. So the models built on
`Tenancy`, which take a transaction as one step, lose nothing.

Abstractions. `Approve` runs the statements of `record` behind one more lock, that of the
submission, which no other transaction here takes, and is not repeated. `CancelBills` takes its
locks at once and `MarkOverdue` is one statement that waits for all of its rows; Postgres locks
row by row, which could only add waits. The two counts of onboarding are one step, since the
unique indexes behind them read the same rows. The clock does not advance while a checkout is
open: the code reads it once in `PayBill` and, with the sandbox provider, once more for the new
expiry, within the seconds of one transaction. KEY SHARE locks on `owners` are left out: nothing updates an owner.
A request that finds nothing at its first statement is the absence of a step.

A monthly run inserts for the assignments it has read one by one, in the order of `created_at`
(`ORDER BY`, `bill_repository.go:162`). The constant `CreatedAt` gives each assignment any moment,
the same one to several if they tie; among those Postgres may return any order (`BeginGenerate`).
Two runs of an owner may be open at once and meet on a bill or on a bill number, where the second
insert waits until the first run has ended.

### Calendar

`computeBillingPeriod` and `monthlyBillingPeriod` with Go's `time.Date` and `AddDate` as day
numbers, and a reference with the lengths of months. `Tenancy` is checked with the calendar of
2024 (`YearFirstDay`, `YearLastDay`) or with months of two days; its theorems hold for any.

### Accounts

Stands alone: tables `owners`, `owner_users`, the columns of `tenants` that concern portal
access, requests in progress, issued tokens, and a clock.

| action | code | kept of it |
| --- | --- | --- |
| `CreateOwner`, `CreateOwnerUser`, `CommitRegistration`, `AnswerRegistration`, `Crash` | `auth_service.go` Register | the transaction's two inserts, unique indexes, commit, signing after it; a crash between any two |
| `LoginOwner` | LoginOwner | one step: nothing changes or deletes an owner user |
| `CheckTenantLogin`, `AnswerTenantLogin` | LoginTenant | the lookup, then, after bcrypt, the signing |
| `RefreshOwner`, `RefreshTenant` | RefreshOwner, RefreshTenant | the kind of token and its claims; no lookup |
| `CreateTenant`, `UpdateTenant`, `DeleteTenant` | `tenant_service.go` behind `RequireOwner` | e-mail, password, the unique index on `lower(email)` of undeleted tenants |
| `Tick` | time | expired tokens are dropped |

Abstractions. Signatures are not modelled: a request carries a token that was issued. One value
of a password is enough, a wrong one being the absence of a step. A tenant's e-mail can be
replaced and not cleared, since the validator refuses an empty one. The status of an owner user
is `active` from the insert on, so the check for it never fails.

## 3. Runs

| run | instance | shows |
| --- | --- | --- |
| `lease` | 2 owners that use any identity, 2 rooms, 2 tenants, 2 leases, 1 month, rooms patched to available at will | types; no room or tenant is let twice; an active tenant has an active tenancy; each step on a lease sets that lease's room and no other; rows of two owners, payments and checkouts among them, are never joined; the tenant's pages agree; an onboarding with its room and tenant there is never stuck |
| `billing` | 1 room, 2 tenants, 2 leases, 2 months, 2 rents, 2 days | the monthly run's stale read is harmless; the first payment gates the tenancy; cancelled onboardings owe nothing; one full payment per paid bill; settled rows are final; refinement of `Leases` |
| `overview` | 1 lease, 2 months, due days 1 and 3, 5 days, 2 checkouts a bill | no outstanding bill falls between the lists; one open checkout at most; overdue only when late |
| `races` | 2 connections, 1 room, 1 tenant, 2 leases with colliding bill numbers, 2 months, 1 checkout a bill | what a transaction has checked holds until it commits; every deadlock has a payment or a monthly run in it; no group of transactions waits for itself unnoticed; refinement of `Tenancy!Spec` |
| `ends` | 2 connections, 2 months, 1 checkout, fairness; 2 active leases to bill, or 1 lease to come (`MCStarts`) | two monthly runs of an owner never wait in a circle; every transaction ends; types |
| `review` | 1 bill that is past its due day, 2 submissions, 2 tenants, 2 rents, 1 checkout | claims match bills; one pending claim; an approval is one payment; proofs exist; decisions are final; refinement of `Tenancy!Spec` |
| `sessions` | 2 owners, 2 users, 2 tenants, 2 spellings of one address, 2 connections, 3 instants | one login per owner; guards accept only tokens of existing accounts; a login finds one account; deleted tenants stay out |
| `delete_race`, `move_out`, `late_cleanup`, `stale_claim`, `submit_query` | one lease or bill | violations, section 5 |

Bounds: identities per table, `MaxToday` (days), `MaxCheckouts` (checkouts per bill), `MaxNow`
(instants of `Accounts`), `Txs` and `Conns` (requests at a time). Two of a kind is what a race for
one row needs; two leases of one room follow each other or collide; two months separate the first
bill from the monthly ones; a month has two days, so that due day 3 is clamped and every bill can
fall due, be checked out, let the checkout expire and be checked out again within five days. Two
connections are what every pair of transactions needs to meet, two monthly runs of one owner
included: in `races` on one bill, in `ends` on the bills of two leases, which each run enters one
after the other. That a third connection changes nothing is what the theorems add, which hold for
any finite number. `ends` starts after its first requests, in one of two states that the handlers
reach one request after the other: two active leases, whose tenants have been deleted since (which
ends nothing), so that runs and single statements are all that is left to do, or a cancelled lease
whose room and tenant are gone, so that one more lease, from the first month on (`MCFirstMonth`), is
let, paid, checked out and cancelled. Due dates may
lie before day 0, so that a bill is past due without the clock moving (`review`, `races`). Rooms
are patched to `available`, which can free a room that is let; `maintenance` only keeps onboardings
out. A refresh token of two instants outlives an access token of one, and both expire within the
three. The theorems of section 4 do not depend on any of these bounds. Symmetry is used for
identities, and for rents where they are only compared, and only for invariants, action properties
and refinements without fairness.

Every property has a mutant: a plausible slip in a mapped definition (an operator `Mut...` next
to it) under which TLC finds the property violated.

**Fairness.** Only `ends` assumes any. `SF(Execute(x))` for each connection: a handler that has
opened a transaction runs its statements without waiting for the client, and Postgres grants a
contended row to those that wait for it in their order, so a statement that can run again and
again is not passed over for ever; weak fairness would not do, since a lock can be taken and
released by others meanwhile. `WF` on `BreakDeadlock`: Postgres looks for a deadlock one second
(`deadlock_timeout`) after a wait begins. Requests, losses, patches and the clock are not fair.
Nothing is assumed of clients or of the daily jobs, which the repository leaves to an external
scheduler, and no liveness is claimed of them: an unpaid bill may never be marked overdue.

**Deadlock** of the model is checked in every run. Deadlock of the *program* is a state of
`Transactions` in which transactions wait for each other (`Cycle`). It can arise, between an
onboarding or a cancellation on one side and a payment or a monthly run on the other.
`LeaseSideNeverDeadlocks` says that onboardings, cancellations and checkouts alone never wait in a
circle, `MoneySideNeverDeadlocks` the same of payments, checkouts and monthly runs. Two runs of one
owner do wait for each other's bills; what keeps them from a circle is that both enter them in the
order of `created_at`, as the mutant that drops the order shows. Two exceptions are part of the
property, since the code has them: two assignments created at the same moment, whose order is
open, and two whose bill numbers collide. `NobodyWaitsInVain` says that waiting is never for
nothing: among transactions that wait only for each other, one has its locks and can go on, or some
form the circle that `BreakDeadlock` breaks. `EveryTransactionEnds` is what that comes to under
fairness; the request that a deadlock aborts answers 500 and has done nothing. The pool itself is
in no circle: no service asks for a second connection while it has a transaction open.

## 4. Proofs

All for every value of the constants, under the assumptions named in `Tenancy.tla`
(`CalendarAssumption`, `BoundsAssumption`, `StatusAssumption`, `AbsentAssumption`) and the like of
the composing modules (`Absent` is no row). Nothing is assumed of how many identities there are;
`PoolAssumption` says that the connections are finitely many (`MaxConns`, `database.go:18`),
`CreatedAtAssumption` that moments of creation are numbers.

1. `TenancyProofs`. `TypeOK` is not inductive: a monthly run writes bills from assignments it read
   earlier, which must exist and be their owner's. `OwnersNeverMix` covers payments and checkouts
   too (`MoneyLinked`). `Base == TypeOK /\ OwnersNeverMix /\
   MonthlyRunStaysValid` is (`BaseInvariant`). The argument goes through `AllKept`: a row keeps
   its owner and whom it refers to, an assignment never leaves `active`, and a row that appears
   refers to rows that are there. `StepShape` then says what a step is, whichever handler takes
   it: `Quiet`, `Assigned`, `Cancelled`, `Billed`, `Lapsed`, `Settled` or `Opened`. Later
   proofs split on these seven instead of on the handlers.
2. `TenancySafety`. Each safety invariant from `Base` and the step shapes, some with a
   strengthening: one payment of the *agreed* rent needs `RentAgreed`; one open checkout needs
   that every checkout but the last has expired (`OlderExpired`) and that a bill which is unpaid
   or overdue has never had one (`CheckoutMovesBill`, a fact of this code and against BR-027, see
   section 5). `RoomsFollow` is an action property and holds whatever rooms are patched to.
3. `ReviewProofs`. Every review step is a step of `Tenancy` or changes none of its variables, so
   `ReviewSpec => Spec` and every theorem above holds of the composition. Its own invariants need
   that an approved submission's bill is paid and no other submission of it approved.
4. `ViewProofs`. *Portal*: the tenant's pages agree, from `RoomAndTenantExclusive`,
   `CancelledOwesNothing` and `PaidOnceInFull`, without an induction of its own; and an onboarding
   whose room and tenant are there can be cancelled and paid (`PendingNeverStuck`), which is
   `StuckOnlyByDeletion` with the guards of the two actions in place of `ENABLED`. *Dashboard*:
   `NothingLost`: a counted bill that is still owed has been listed or
   has a status whose list is still ahead. It is preserved because the lists are read in the order
   in which bills move (`BillsMoveForward`). *Leases*: `Spec => ImplementsLeases`, from the shapes
   of step: `Assigned` is `Sign`, `Billed` is `Charge` of the one month it inserts for, `Settled` is
   `Pay`, `Cancelled` is `Cancel`, and the others change nothing that `Leases` sees.
   `FirstPaymentGatesTenancy` gives that a cancelled lease has taken no money,
   `CancelledOwesNothing` that a paid one is live.
5. `TransactionsProofs` and `TransactionsSafety`, for any number of connections. That the tables
   keep the invariants of the core rests on what each open transaction has read, locked and
   written, which the tables do not show. The inductive invariant is `TxInv`:
   * `Base`, and `Connections`: locks and writes belong to open transactions;
   * `LocksExclude`: no two transactions hold conflicting locks on a row;
   * `Apart`: two onboardings insert different rows;
   * `Progress(x)`: by the kind of transaction, for each statement behind it the locks it took,
     what it checked on them *still so*, and exactly the row versions it wrote, computed from the
     rows that are committed *now*.

   A statement that does not roll back keeps it (`StatementMoves`, by kind and statement). What
   others do keeps it because it leaves x `Undisturbed`: the rows x may write do not change, no
   lease appears on a room or tenant it has locked, no bill under a number it has entered, and the
   bills of a pending lease it has locked stay the ones to collect. A commit spares x since
   whatever it changes is `Covered` by locks of its own (`CommitUndisturbed`), a statement without
   a transaction since it waits for locks (`SingleUndisturbed`), a rollback since it changes no
   table. At COMMIT, `Progress` says that the versions written are those that `AssignRoom`,
   `CancelOnboarding`, `RecordManual`, `PayBill` or the insertion of a month's bills gives, and
   that its guard holds: `Transactions` implements `Tenancy` (`TransactionsAreAtomic`), and the
   safety theorems hold of it (`SafetyOfTransactions`), as does what is promised outside:
   `TransactionsImplementLeases` in `ViewProofs` composes the two refinements.

   For deadlocks, `LocksBehind` says that every lock was taken by a statement its holder is past.
   Payments and checkouts then wait only for transactions with a higher `MoneyRank`, and
   onboardings, cancellations and checkouts only for a higher `LeaseRank`; a transaction never
   waits for a row it has itself locked for update (`AgainHeld`). So a circle within the lease side
   is not closed (`LeaseSideDeadlockFree`), and one within the money side is a circle of monthly
   runs (`MoneySideClimbs`). A run waits for a run at a bill, or its number, that the other has
   entered and left behind (`NumbersEntered`, `RunWaits`). Without twins it is the same bill, and
   since both go in the order of `created_at`, the one that is waited for has come to a younger
   assignment (`RunsClimb`). In a circle one run would be at the oldest (`OldestOf`), and nobody
   can have left that behind: `RunCircle`, whence `MoneySideDeadlockFree`.

   Liveness itself is out of reach, the safety half of it is not (`NobodyWaits`): a transaction
   without its locks waits for one that is open (`BlockedWaits`, from `Connections`: no lock is
   left behind by an ended transaction). In a closed group without a granted one, take the smallest
   subgroup that waits within itself; it is a circle, for a member nobody waits for could be left
   out (`WaitingGroup`, by the well-foundedness of inclusion on finite sets).
6. `CalendarProofs`. For every year, month and day, by arithmetic.
7. `AccountsProofs`. `EveryOwnerHasOneLogin` is not inductive: two registrations in flight could
   commit the same address. `RegistrationsApart` says that what is promised to one is free and
   promised to no other. `EmailsApart` is what the unique index keeps, of which
   `LoginFindsOneAccount` is a consequence. The guards rest on `TokensNameAccounts`: a token, or
   a login that has been checked, names an account that exists, and accounts stay (`AccountsStay`).

The theorems to know are listed under `theorems` in `PROJECT.json`. Only model-checked:
`StuckOnlyByDeletion` as it stands, which speaks of `ENABLED` (its guards are proved, see 4), and
`EveryTransactionEnds`, which is liveness (both out of the prover's reach; what is proved of it is
`NobodyWaits`, see 5); the five violations
and the mutants. The inductive invariants were themselves model-checked on the instances of the
runs before they were proved.

## 5. Where code and documents differ

* `delete_race`: DELETE of a room checks its status, then soft-deletes without checking again; an
  onboarding in between leaves a removed room with a pending assignment, against
  `room_service.go:12`.
* `move_out`: PATCH of a tenant to `moved_out` leaves the active assignment, against BR-009
  (`docs/business-rules.md`).
* `late_cleanup`: the clean-up of a failed upload deletes a submission that has been approved in
  the meantime, against `docs/modules/10-manual-payment-proof.md`. This run and the next take
  the SQL of `Submit` as it is meant (`ProofQueriesRun`): at this commit the fault shown by
  `submit_query` answers 500 first and masks both.
* `stale_claim`: a submission is inserted for a bill that is no longer unpaid or overdue, against
  the same document. The theorems show the damage is limited: it can never be approved into a
  second payment.
* `submit_query`: `GetBill` selects columns of an alias its FROM clause does not declare, so no
  submission is ever created at this commit. The service tests use stubs and do not see it. The
  tenant's bill list and the INSERT of a submission have the same fault.

One more disagreement has no run, since the code has no step to show it with. BR-018 lets a
`gateway_pending` bill become overdue when its checkout expires, and BR-027 and the failure flow of
`docs/modules/09-payment-gateway.md` return it to unpaid or overdue when the gateway payment fails,
expires or is cancelled. No code does either: `MarkOverdue` takes unpaid bills alone, there is no
webhook, and a gateway transaction keeps the status it was inserted with. `OneOpenCheckout` (BR-021)
holds *because* of that: the unpaid and overdue branch of `PayBill` (`tenant_portal_service.go:98`)
does not look for an open checkout, and a bill that came back with its checkout still open, after a
failure reported for an earlier one for instance, would get a second. Code that adds the return must
close the checkout in the same transaction; in `TenancySafety` the proof of `OneCheckout` is where
that would show.

## 6. Not modelled, and what is next

Not modelled, with the reason:

* the seed command (fixed rows for development) and the template's `users` (nothing reads them);
* server wiring, configuration, health and logging;
* formatting, ordering and pagination of lists; names, notes, methods, references; the content
  checks of uploaded files;
* the dashboard's counts of rooms and tenants and its payments of the month: one statement each,
  which nothing else in the answer has to agree with;
* webhooks, payment by the gateway, move-out and expiry of checkouts: described in the documents,
  absent from the code.

Four hazards of `PROJECT.json` have no property, each with its note: the gateway transaction that
stays pending when its bill is paid by hand or cancelled, and the `gateway_pending` bill that is
never marked overdue (no step of the code depends on either); the onboarding whose tenant is deleted
and which can then be neither paid nor cancelled, and the pending submission without a proof (what
the code does, and nothing in the repository promises otherwise).

Next:

1. Liveness of a proof upload under fairness of its own remaining steps.
2. The onboarding part of `Accounts` and `Tenancy` over one table of tenants, so that a token's
   owner is the owner of `OwnersNeverMix`.
