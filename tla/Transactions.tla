---------------------------- MODULE Transactions ----------------------------
(***************************************************************************)
(* The database transactions of onboarding, cancellation, manual payment,  *)
(* checkout and monthly billing, one statement at a time, over the tables  *)
(* of Tenancy, which hold what is committed.                               *)
(*                                                                         *)
(* Postgres runs them at READ COMMITTED.  A statement sees committed rows; *)
(* what a transaction writes stays its own until COMMIT.  A statement that *)
(* needs a row lock another transaction holds waits, and reads the row     *)
(* again once it has the lock.  SELECT ... FOR UPDATE takes the lock       *)
(* "update", an UPDATE "no key update", and an INSERT "key share" on every *)
(* row its foreign keys name.  A check that fails, a statement that fails, *)
(* a lost connection and a deadlock all roll back (defer tx.Rollback).     *)
(*                                                                         *)
(* Manual approval of a submission runs the statements of "record" behind  *)
(* one more lock, that of the submission, which no other transaction here  *)
(* takes.  The statements outside a transaction (room and tenant           *)
(* management, MarkOverdue) are one step that waits until no transaction   *)
(* holds a lock on a row they change.                                      *)
(***************************************************************************)
EXTENDS Tenancy, FiniteSets

CONSTANTS
    Txs,       \* connections of the pool: each runs one transaction at a time
    CreatedAt  \* created_at of each assignment, at any moment and with ties

ASSUME PoolAssumption == IsFiniteSet(Txs)  \* MaxConns of the pool's configuration
ASSUME CreatedAtAssumption == CreatedAt \in [Assignments -> Nat]

VARIABLES
    txs,     \* the transaction open on each connection, or Absent
    locks,   \* the row locks held
    writes   \* what each transaction has written and not committed

txVars  == <<txs, locks, writes>>
allVars == <<vars, txVars>>

MutForgetTenant == [  \* mutant: onboarding updates the room and forgets the tenant
    assign   |-> <<"LockRoom", "LockTenant", "CountLive", "InsertAssignment", "InsertBill",
                   "UpdateRoom", "Commit">>,
    cancel   |-> <<"LockAssignment", "UpdateAssignment", "CancelBills", "UpdateRoom",
                   "UpdateTenant", "Commit">>,
    record   |-> <<"LockBill", "InsertPayment", "TenantKey", "RoomKey", "UpdateBill",
                   "LockAssignment", "UpdateAssignment", "UpdateTenant", "UpdateRoom", "Commit">>,
    checkout |-> <<"LockBill", "InsertCheckout", "TenantKey", "UpdateBill", "Commit">>,
    generate |-> <<"InsertMonthly", "TenantKey", "RoomKey", "AssignmentKey", "Commit">>]
MutTenantFirst == [  \* mutant: onboarding locks the tenant before the room
    assign   |-> <<"LockTenant", "LockRoom", "CountLive", "InsertAssignment", "InsertBill",
                   "UpdateRoom", "UpdateTenant", "Commit">>,
    cancel   |-> <<"LockAssignment", "UpdateAssignment", "CancelBills", "UpdateRoom",
                   "UpdateTenant", "Commit">>,
    record   |-> <<"LockBill", "InsertPayment", "TenantKey", "RoomKey", "UpdateBill",
                   "LockAssignment", "UpdateAssignment", "UpdateTenant", "UpdateRoom", "Commit">>,
    checkout |-> <<"LockBill", "InsertCheckout", "TenantKey", "UpdateBill", "Commit">>,
    generate |-> <<"InsertMonthly", "TenantKey", "RoomKey", "AssignmentKey", "Commit">>]
\* The statements of each transaction, in the order of the code.  The Key statements are
\* the foreign-key checks that end an INSERT.
Program == [
    assign   |-> <<"LockRoom", "LockTenant", "CountLive", "InsertAssignment", "InsertBill",
                   "UpdateRoom", "UpdateTenant", "Commit">>,
    cancel   |-> <<"LockAssignment", "UpdateAssignment", "CancelBills", "UpdateRoom",
                   "UpdateTenant", "Commit">>,
    record   |-> <<"LockBill", "InsertPayment", "TenantKey", "RoomKey", "UpdateBill",
                   "LockAssignment", "UpdateAssignment", "UpdateTenant", "UpdateRoom", "Commit">>,
    checkout |-> <<"LockBill", "InsertCheckout", "TenantKey", "UpdateBill", "Commit">>,
    generate |-> <<"InsertMonthly", "TenantKey", "RoomKey", "AssignmentKey", "Commit">>]

\* What a transaction sets the status of the rows it updates to.
StatusAfter == [
    assign   |-> [room |-> "reserved", tenant |-> "pending_payment"],
    cancel   |-> [room |-> "available", tenant |-> "pending_payment", assignment |-> "cancelled"],
    record   |-> [room |-> "occupied", tenant |-> "active", assignment |-> "active",
                  bill |-> "paid"],
    checkout |-> [bill |-> "gateway_pending"]]

\* An open transaction: its request, and the statement it runs next.
Tx ==
    [kind : {"assign"}, owner : Owners, bill : BillKeys, terms : Assignment, pc : 1 .. 8]
    \cup [kind : {"cancel"}, owner : Owners, lease : Assignments, pc : 1 .. 6]
    \cup [kind : {"record"}, owner : Owners, bill : BillKeys, amount : Rents, pc : 1 .. 10]
    \cup [kind : {"checkout"}, owner : Owners, tenant : Tenants, bill : BillKeys, pc : 1 .. 5]
    \cup [kind : {"generate"}, owner : Owners, run : BillRun, month : Months,
          todo : Seq(BillKeys), pc : 1 .. 5]

ASSUME NoTxAssumption == Absent \notin Tx

\* Rows that are locked; a bill number is the entry of the unique index an insert waits for.
RoomRow(r)        == <<"rooms", r>>
TenantRow(t)      == <<"tenants", t>>
AssignmentRow(a)  == <<"assignments", a>>
BillRow(b)        == <<"bills", b>>
NumberEntry(o, b) == <<"bill_number", <<o, BillNumber(b)>>>>

Row == {RoomRow(r) : r \in Rooms} \cup {TenantRow(t) : t \in Tenants}
       \cup {AssignmentRow(a) : a \in Assignments} \cup {BillRow(b) : b \in BillKeys}
       \cup {NumberEntry(o, b) : o \in Owners, b \in BillKeys}
Mode == {"key share", "no key update", "update"}
RowLock == [tx : Txs, row : Row, mode : Mode]

NoWrites == [rooms |-> <<>>, tenants |-> <<>>, assignments |-> <<>>, bills |-> <<>>,
             payments |-> <<>>, checkouts |-> <<>>]

\* Row versions: f holds one for some of the keys S, each of type T.
Versions(f, S, T) == DOMAIN f \subseteq S /\ \A k \in DOMAIN f : f[k] \in T
Put(f, k, v)      == [j \in DOMAIN f \cup {k} |-> IF j = k THEN v ELSE f[j]]
Overlay(old, f)   == [k \in DOMAIN old |-> IF k \in DOMAIN f THEN f[k] ELSE old[k]]

TxInit ==
    /\ Init
    /\ txs    = [x \in Txs |-> Absent]
    /\ locks  = {}
    /\ writes = [x \in Txs |-> NoWrites]

-----------------------------------------------------------------------------
(* Locks *)

\* Postgres' table of row lock conflicts: a key share lock conflicts with "update" alone.
Conflicts(m, n) == "update" \in {m, n} \/ "key share" \notin {m, n}

Open(x, kind) == txs[x] # Absent /\ txs[x].kind = kind
Label(x)      == IF txs[x] = Absent THEN "none" ELSE Program[txs[x].kind][txs[x].pc]

\* The rows the request of x is about: named in it, or in the row it has locked.
TheBill(x)  == IF Open(x, "generate") THEN Head(txs[x].todo) ELSE txs[x].bill
TheLease(x) == IF Open(x, "cancel") THEN txs[x].lease ELSE TheBill(x)[1]
TheRow(x)   ==
    CASE Open(x, "assign")                        -> txs[x].terms
      [] Open(x, "cancel") \/ Open(x, "generate") -> assignments[TheLease(x)]
      [] OTHER                                    -> bills[TheBill(x)]

\* The row that the next statement of x names passes its WHERE clause.
Found(x) ==
    LET o == txs[x].owner IN
    CASE Label(x) \in {"LockRoom", "UpdateRoom"}     -> RoomVisible(o, TheRow(x).room)
      [] Label(x) \in {"LockTenant", "UpdateTenant"} -> TenantVisible(o, TheRow(x).tenant)
      [] Label(x) = "LockAssignment"                 -> AssignmentOf(o, TheLease(x))
      [] Label(x) = "LockBill" ->
            IF Open(x, "checkout") THEN TenantBillOf(o, txs[x].tenant, TheBill(x))
                                   ELSE BillOf(o, TheBill(x))
      [] OTHER                                       -> TRUE

BillsToCancel(a) ==
    {b \in BillKeys : b[1] = a /\ bills[b] # Absent /\ bills[b].status \in Collectible}

MutLockMode ==  \* mutant: BillForUpdate without FOR UPDATE, a lock that stops no payer
    [LockRoom |-> "update", LockTenant |-> "update", LockAssignment |-> "update",
     LockBill |-> "key share", UpdateRoom |-> "no key update", UpdateTenant |-> "no key update",
     UpdateAssignment |-> "no key update", UpdateBill |-> "no key update",
     CancelBills |-> "no key update", TenantKey |-> "key share", RoomKey |-> "key share",
     AssignmentKey |-> "key share", InsertBill |-> "update", InsertMonthly |-> "update"]
\* The lock each statement takes.  An INSERT waits for another one that enters the same key
\* into a unique index, as two "update" locks on that key would.
LockMode ==
    [LockRoom |-> "update", LockTenant |-> "update", LockAssignment |-> "update",
     LockBill |-> "update", UpdateRoom |-> "no key update", UpdateTenant |-> "no key update",
     UpdateAssignment |-> "no key update", UpdateBill |-> "no key update",
     CancelBills |-> "no key update", TenantKey |-> "key share", RoomKey |-> "key share",
     AssignmentKey |-> "key share", InsertBill |-> "update", InsertMonthly |-> "update"]

\* What the next statement of x locks.
Target(x) ==
    CASE Label(x) \in {"LockRoom", "UpdateRoom", "RoomKey"} -> {RoomRow(TheRow(x).room)}
      [] Label(x) \in {"LockTenant", "UpdateTenant", "TenantKey"} -> {TenantRow(TheRow(x).tenant)}
      [] Label(x) \in {"LockAssignment", "UpdateAssignment", "AssignmentKey"} ->
            {AssignmentRow(TheLease(x))}
      [] Label(x) \in {"LockBill", "UpdateBill"} -> {BillRow(TheBill(x))}
      [] Label(x) = "CancelBills" -> {BillRow(b) : b \in BillsToCancel(TheLease(x))}
      [] Label(x) \in {"InsertBill", "InsertMonthly"} /\ bills[TheBill(x)] = Absent ->
            {NumberEntry(txs[x].owner, TheBill(x))}
      [] OTHER -> {}

Wants(x) ==
    IF Found(x) THEN {[tx |-> x, row |-> row, mode |-> LockMode[Label(x)]] : row \in Target(x)}
                ELSE {}

Blocks(l, w)   == l.tx # w.tx /\ l.row = w.row /\ Conflicts(l.mode, w.mode)
WaitsFor(x, y) == \E l \in locks, w \in Wants(x) : l.tx = y /\ Blocks(l, w)
Granted(x)     == \A l \in locks, w \in Wants(x) : ~Blocks(l, w)

\* Transactions of which each waits for one and is waited for by one.
Cycle(S) ==
    S # {} /\ \A x \in S : /\ txs[x] # Absent
                           /\ \E y \in S : WaitsFor(x, y)
                           /\ \E y \in S : WaitsFor(y, x)

-----------------------------------------------------------------------------
(* The life of a transaction.  A request that finds nothing at its first     *)
(* statement ends there, holding nothing: it is the absence of a step.       *)

Begin(x, tx) ==
    /\ txs[x] = Absent
    /\ txs' = [txs EXCEPT ![x] = tx]
    /\ UNCHANGED <<vars, locks, writes>>

\* A new row gets an identity that no other request has.
BeginAssign(x, row, a) ==
    /\ assignments[a] = Absent
    /\ \A y \in Txs : Open(y, "assign") => txs[y].bill[1] # a
    /\ RoomVisible(row.owner, row.room)
    /\ Begin(x, [kind |-> "assign", owner |-> row.owner, bill |-> <<a, row.start>>,
                 terms |-> row, pc |-> 1])

BeginCancel(x, o, a) ==
    AssignmentOf(o, a) /\ Begin(x, [kind |-> "cancel", owner |-> o, lease |-> a, pc |-> 1])

BeginRecord(x, o, b, amount) ==
    BillOf(o, b) /\ Begin(x, [kind |-> "record", owner |-> o, bill |-> b, amount |-> amount, pc |-> 1])

BeginCheckout(x, o, t, b) ==
    TenantBillOf(o, t, b) /\ Begin(x, [kind |-> "checkout", owner |-> o, tenant |-> t, bill |-> b, pc |-> 1])

MutBeginGenerate(x, run, m, todo) ==  \* mutant: lists the assignments in no order
    /\ run \in billRuns
    /\ \A b \in BillKeys : b \in run.seen \X {m} <=> \E i \in DOMAIN todo : todo[i] = b
    /\ \A i, j \in DOMAIN todo : i < j => todo[i] # todo[j]
    /\ Begin(x, [kind |-> "generate", owner |-> run.owner, run |-> run, month |-> m,
                 todo |-> todo, pc |-> 1])
\* A run that has read its assignments opens a transaction that inserts their bills of one
\* month, ORDER BY created_at.
BeginGenerate(x, run, m, todo) ==
    /\ run \in billRuns
    /\ \A b \in BillKeys : b \in run.seen \X {m} <=> \E i \in DOMAIN todo : todo[i] = b
    /\ \A i, j \in DOMAIN todo : i < j =>
          todo[i] # todo[j] /\ CreatedAt[todo[i][1]] <= CreatedAt[todo[j][1]]
    /\ Begin(x, [kind |-> "generate", owner |-> run.owner, run |-> run, month |-> m,
                 todo |-> todo, pc |-> 1])

MutEnd(x) ==  \* mutant: the connection goes back to the pool without a rollback
    /\ txs'    = [txs EXCEPT ![x] = Absent]
    /\ writes' = [writes EXCEPT ![x] = NoWrites]
    /\ UNCHANGED <<locks, deleting, billRuns, today>>
End(x) ==
    /\ txs'    = [txs EXCEPT ![x] = Absent]
    /\ locks'  = {l \in locks : l.tx # x}
    /\ writes' = [writes EXCEPT ![x] = NoWrites]
    /\ UNCHANGED <<deleting, billRuns, today>>

Rollback(x) == End(x) /\ UNCHANGED <<leases, money>>

\* A statement: it takes its locks, checks, writes, and the transaction goes on as "after";
\* a row not found or a check that fails rolls back.
Statement(x, label, check, new, after) ==
    /\ Label(x) = label
    /\ Granted(x)
    /\ \/ /\ Found(x) /\ check
          /\ txs'    = [txs EXCEPT ![x] = after]
          /\ locks'  = locks \cup Wants(x)
          /\ writes' = [writes EXCEPT ![x] = new]
          /\ UNCHANGED vars
       \/ ~(Found(x) /\ check) /\ Rollback(x)

Following(x) == [txs[x] EXCEPT !.pc = @ + 1]
Ending(x)    == [txs[x] EXCEPT !.pc = Len(Program[txs[x].kind])]
NextBill(x)  ==
    LET rest == Tail(txs[x].todo)
    IN  [txs[x] EXCEPT !.todo = rest, !.pc = IF rest = <<>> THEN Len(Program["generate"]) ELSE 1]

Lock(x, label, check)  == Statement(x, label, check, writes[x], Following(x))
Write(x, label, check, table, k, v) ==
    Statement(x, label, check, [writes[x] EXCEPT ![table] = Put(@, k, v)], Following(x))

-----------------------------------------------------------------------------
(* The statements *)

LockRoom(x)   == Lock(x, "LockRoom", rooms[TheRow(x).room].status = "available")
LockTenant(x) == Lock(x, "LockTenant", TRUE)
CountLive(x)  ==  \* two counts, of which the unique indexes of the insert are the last
    Lock(x, "CountLive", LiveInRoom(TheRow(x).room) = {} /\ LiveForTenant(TheRow(x).tenant) = {})

InsertAssignment(x) ==
    Write(x, "InsertAssignment", TRUE, "assignments", TheLease(x), TheRow(x))
InsertBill(x) ==
    Write(x, "InsertBill", ~NumberTaken(txs[x].owner, TheBill(x)),
          "bills", TheBill(x), NewBill(TheRow(x), TheBill(x)[2]))

UpdateRoom(x) ==
    LET r == TheRow(x).room IN
    Write(x, "UpdateRoom", TRUE, "rooms", r,
          [rooms[r] EXCEPT !.status = StatusAfter[txs[x].kind].room])
UpdateTenant(x) ==
    LET t == TheRow(x).tenant IN
    Write(x, "UpdateTenant", TRUE, "tenants", t,
          [tenants[t] EXCEPT !.status = StatusAfter[txs[x].kind].tenant])

\* Cancel goes on only with a pending assignment, a payment only then has more to update.
LockAssignment(x) ==
    LET pending == assignments[TheLease(x)].status = "pending_payment" IN
    Statement(x, "LockAssignment", Open(x, "cancel") => pending, writes[x],
              IF pending THEN Following(x) ELSE Ending(x))
UpdateAssignment(x) ==
    LET a == TheLease(x) IN
    Write(x, "UpdateAssignment", TRUE, "assignments", a,
          [assignments[a] EXCEPT !.status = StatusAfter[txs[x].kind].assignment])
CancelBills(x) ==
    Statement(x, "CancelBills", TRUE,
              [writes[x] EXCEPT !.bills =
                  [b \in BillsToCancel(TheLease(x)) |-> [bills[b] EXCEPT !.status = "cancelled"]]],
              Following(x))

LockBill(x) ==
    LET b == TheBill(x) IN
    Lock(x, "LockBill", IF Open(x, "record") THEN Payable(txs[x].owner, b, txs[x].amount)
                        ELSE NeedsCheckout(b) /\ Len(checkouts[b]) < MaxCheckouts)
InsertPayment(x) ==
    LET b == TheBill(x) IN
    Write(x, "InsertPayment", payments[b] = <<>>,
          "payments", b, Append(payments[b], PaymentFor(bills[b], txs[x].amount)))
InsertCheckout(x) ==
    LET b == TheBill(x) IN
    Write(x, "InsertCheckout", TRUE,
          "checkouts", b, Append(checkouts[b], NewCheckout(txs[x].owner, bills[b])))
UpdateBill(x) ==
    LET b == TheBill(x) IN
    Write(x, "UpdateBill", TRUE, "bills", b,
          [bills[b] EXCEPT !.status = StatusAfter[txs[x].kind].bill])

\* InsertBillIfAbsent: ON CONFLICT (room_assignment_id, billing_month) DO NOTHING.
InsertMonthly(x) ==
    LET b == TheBill(x) IN
    \/ bills[b] # Absent /\ Statement(x, "InsertMonthly", TRUE, writes[x], NextBill(x))
    \/ /\ bills[b] = Absent
       /\ Write(x, "InsertMonthly",
                /\ ~NumberTaken(txs[x].owner, b)
                /\ \A c \in DOMAIN writes[x].bills : BillNumber(c) # BillNumber(b),
                "bills", b, NewBill(TheRow(x), b[2]))
TenantKey(x)     == Lock(x, "TenantKey", TRUE)
RoomKey(x)       == Lock(x, "RoomKey", TRUE)
AssignmentKey(x) == Statement(x, "AssignmentKey", TRUE, writes[x], NextBill(x))

Commit(x) ==
    /\ Label(x) = "Commit"
    /\ rooms'       = Overlay(rooms, writes[x].rooms)
    /\ tenants'     = Overlay(tenants, writes[x].tenants)
    /\ assignments' = Overlay(assignments, writes[x].assignments)
    /\ bills'       = Overlay(bills, writes[x].bills)
    /\ payments'    = Overlay(payments, writes[x].payments)
    /\ checkouts'   = Overlay(checkouts, writes[x].checkouts)
    /\ End(x)

Execute(x) ==
    \/ LockRoom(x) \/ LockTenant(x) \/ CountLive(x) \/ InsertAssignment(x) \/ InsertBill(x)
    \/ UpdateRoom(x) \/ UpdateTenant(x)
    \/ LockAssignment(x) \/ UpdateAssignment(x) \/ CancelBills(x)
    \/ LockBill(x) \/ InsertPayment(x) \/ InsertCheckout(x) \/ UpdateBill(x)
    \/ Label(x) = "InsertMonthly" /\ InsertMonthly(x)
    \/ TenantKey(x) \/ RoomKey(x) \/ AssignmentKey(x)
    \/ Commit(x)

-----------------------------------------------------------------------------
(* What happens around the transactions *)

\* Statements that run alone wait for the locks on the rows they change.
Free(row) == \A l \in locks : l.row = row => ~Conflicts(l.mode, "no key update")
UpdatesWait ==
    /\ \A r \in Rooms : rooms'[r] # rooms[r] => Free(RoomRow(r))
    /\ \A t \in Tenants : tenants'[t] # tenants[t] => Free(TenantRow(t))
    /\ \A b \in BillKeys : bills'[b] # bills[b] => Free(BillRow(b))

Single ==
    /\ \/ Manage
       \/ \E o \in Owners : ReadActiveAssignments(o) \/ MarkOverdue(o)
       \/ Tick /\ \A x \in Txs : ~Open(x, "checkout")  \* a checkout reads the clock once
    /\ UpdatesWait
    /\ UNCHANGED txVars

\* The connection or the server is lost, or the request is given up, before COMMIT.
Lose(x) == txs[x] # Absent /\ Rollback(x)

\* Postgres finds a deadlock and aborts one of its transactions.
BreakDeadlock(x) == (\E S \in SUBSET Txs : x \in S /\ Cycle(S)) /\ Rollback(x)

Request(x) ==
    \/ \E o \in Owners :
       \/ \E a \in Assignments :
            \/ \E r \in Rooms, t \in Tenants, rent \in Rents, d \in DueDays, m \in Months :
                  BeginAssign(x, [owner |-> o, room |-> r, tenant |-> t, rent |-> rent,
                                  dueDay |-> d, start |-> m, status |-> "pending_payment"], a)
            \/ BeginCancel(x, o, a)
       \/ \E b \in BillKeys :
            \/ \E amount \in Rents : BeginRecord(x, o, b, amount)
            \/ \E t \in Tenants : BeginCheckout(x, o, t, b)
    \/ \E run \in billRuns, m \in Months : \E n \in 1 .. Cardinality(run.seen) :
          \E todo \in [1 .. n -> run.seen \X {m}] : BeginGenerate(x, run, m, todo)

TxNext == Single \/ \E x \in Txs : Request(x) \/ Execute(x) \/ Lose(x) \/ BreakDeadlock(x)

TxSpec == TxInit /\ [][TxNext]_allVars

\* The server runs a transaction's statements to its end.  Postgres grants a contended row
\* to those that wait for it in their order, so no waiter is passed over for ever, and looks
\* for deadlocks a second (deadlock_timeout) after a wait begins.
Fairness == /\ \A x \in Txs : SF_allVars(Execute(x))
            /\ WF_allVars(\E x \in Txs : BreakDeadlock(x))

FairTxSpec == TxSpec /\ Fairness

-----------------------------------------------------------------------------
(* Properties *)

\* Open transactions are where their program is, locks belong to open transactions, and what
\* they write are rows of the schema.
TxTypeOK ==
    /\ TypeOK
    /\ txs \in [Txs -> Tx \cup {Absent}]
    /\ locks \subseteq RowLock
    /\ \A l \in locks : txs[l.tx] # Absent
    /\ \A x \in Txs :
         /\ DOMAIN writes[x] = DOMAIN NoWrites
         /\ Versions(writes[x].rooms, Rooms, Room)
         /\ Versions(writes[x].tenants, Tenants, Tenant)
         /\ Versions(writes[x].assignments, Assignments, Assignment)
         /\ Versions(writes[x].bills, BillKeys, Bill)
         /\ Versions(writes[x].payments, BillKeys, Seq(Payment))
         /\ Versions(writes[x].checkouts, BillKeys, Seq(Checkout))

\* What a transaction has checked on the rows it locks is still so when it commits, whatever
\* other transactions commit and whatever the owner patches or deletes in the meantime.
CheckedStaysTrue ==
    \A x \in Txs : txs[x] # Absent =>
        LET past(label) == \E i \in 1 .. txs[x].pc - 1 : Program[txs[x].kind][i] = label
            o == txs[x].owner
        IN
        CASE Open(x, "assign") ->
                /\ past("LockRoom") => RoomVisible(o, txs[x].terms.room)
                                       /\ rooms[txs[x].terms.room].status = "available"
                /\ past("LockTenant") => TenantVisible(o, txs[x].terms.tenant)
                /\ past("CountLive") => \A a \in LiveAssignments :
                                            /\ assignments[a].room # txs[x].terms.room
                                            /\ assignments[a].tenant # txs[x].terms.tenant
          [] Open(x, "cancel") ->
                past("LockAssignment") => assignments[txs[x].lease].status = "pending_payment"
          [] Open(x, "record") ->
                past("LockBill") => /\ bills[txs[x].bill].status \in Collectible
                                    /\ payments[txs[x].bill] = <<>>
          [] Open(x, "checkout") ->
                past("LockBill") => /\ bills[txs[x].bill].status \in Collectible
                                    /\ LiveCheckouts(txs[x].bill) = {}
          [] OTHER -> TRUE

\* Onboardings, cancellations and checkouts never wait for each other in a circle: every
\* deadlock has a payment or a monthly run in it.
LeaseSideNeverDeadlocks ==
    \A S \in SUBSET Txs : Cycle(S) => \E x \in S : txs[x].kind \in {"record", "generate"}

\* Payments, checkouts and monthly runs never do either, however many runs of an owner meet:
\* every deadlock has an onboarding or a cancellation in it.  Runs meet on the bills that
\* each enters, and each enters them in the order of created_at.  That order fails them only
\* if they bill two leases created at the same moment, or with colliding bill numbers.
RunBills(x) == DOMAIN writes[x].bills \cup {txs[x].todo[i] : i \in DOMAIN txs[x].todo}
Twins(a, c) == a # c /\ (CreatedAt[a] = CreatedAt[c] \/ BillSuffix[a] = BillSuffix[c])
MoneySideNeverDeadlocks ==
    \A S \in SUBSET Txs : Cycle(S) =>
        \/ \E x \in S : txs[x].kind \in {"assign", "cancel"}
        \/ \E x, y \in S : /\ x # y /\ Open(x, "generate") /\ Open(y, "generate")
                           /\ \E b \in RunBills(x), c \in RunBills(y) : Twins(b[1], c[1])

\* No group of transactions waits for itself without Postgres noticing: of the transactions
\* that wait only for each other, one has its locks and can go on, or some of them wait in a
\* circle, which BreakDeadlock breaks.  In particular nobody waits for a lock that a
\* connection back in the pool still holds.
NobodyWaitsInVain ==
    LET open == {x \in Txs : txs[x] # Absent} IN
    \A S \in SUBSET open :
        S # {} /\ (\A x \in S, y \in open : WaitsFor(x, y) => y \in S)
        => (\E x \in S : Granted(x)) \/ (\E C \in SUBSET S : Cycle(C))

\* Coding rules, "payment creation and bill update must happen in one DB transaction": with
\* every interleaving, crash and rollback the committed tables change as in Tenancy, where
\* each of these operations is one step.
ActsAtomically == Spec

\* Every transaction that is opened ends, committed or rolled back: none waits for ever.
EveryTransactionEnds == \A x \in Txs : txs[x] # Absent ~> txs[x] = Absent
=============================================================================
