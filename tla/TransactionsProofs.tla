-------------------------- MODULE TransactionsProofs --------------------------
(***************************************************************************)
(* Proofs about Transactions for any number of connections, first half:    *)
(* the inductive invariant, and that a statement that does not roll back   *)
(* leaves its transaction where its program is.  TransactionsSafety has    *)
(* what the other connections do to it, the commit and the theorems.       *)
(***************************************************************************)
EXTENDS Transactions, TenancyProofs

-----------------------------------------------------------------------------
(* The inductive invariant *)

\* In the lock table L, x holds a lock of this mode on the row, or one that lets it write it.
Holds(L, x, row, mode) == [tx |-> x, row |-> row, mode |-> mode] \in L
Owns(L, x, row)        == \E mode \in {"no key update", "update"} : Holds(L, x, row, mode)

\* No two locks of different transactions conflict.
LocksExclude == \A l, k \in locks : ~Blocks(l, k)

\* Open transactions, and writes of these alone.
Connections ==
    /\ txs \in [Txs -> Tx \cup {Absent}]
    /\ locks \subseteq RowLock /\ \A l \in locks : txs[l.tx] # Absent
    /\ DOMAIN writes = Txs
    /\ \A x \in Txs : /\ DOMAIN writes[x] = DOMAIN NoWrites
                      /\ txs[x] = Absent => writes[x] = NoWrites

SetStatus(row, status) == [row EXCEPT !.status = status]

\* What a transaction has written to a table: version v of the row k, and no other row; or
\* that once its program is past statement n, and nothing before.
Wrote(f, k, v) == DOMAIN f = {k} /\ f[k] = v
WroteAt(f, n, pc, k, v) == IF pc > n THEN Wrote(f, k, v) ELSE DOMAIN f = {}

\* The payments, or the checkouts, of a bill with one more.
WithPayment(b, amount) == Append(payments[b], PaymentFor(bills[b], amount))
WithCheckout(o, b)     == Append(checkouts[b], NewCheckout(o, bills[b]))

\* Where an onboarding tx of connection x is, with the writes w and the lock table L: what it
\* has locked and checked holds, and it has written the rows of the statements behind it.
AssignAt(x, tx, w, L) ==
    LET pc == tx.pc  o == tx.owner  b == tx.bill
        r  == tx.terms.room         t == tx.terms.tenant
    IN  /\ tx.terms.owner = o /\ tx.terms.status = "pending_payment" /\ b[2] = tx.terms.start
        /\ assignments[b[1]] = Absent
        /\ pc > 1 => /\ Holds(L, x, RoomRow(r), "update")
                     /\ RoomVisible(o, r) /\ rooms[r].status = "available"
        /\ pc > 2 => Holds(L, x, TenantRow(t), "update") /\ TenantVisible(o, t)
        /\ pc > 3 => LiveInRoom(r) = {} /\ LiveForTenant(t) = {}
        /\ pc > 5 => Holds(L, x, NumberEntry(o, b), "update") /\ ~NumberTaken(o, b)
        /\ WroteAt(w.assignments, 4, pc, b[1], tx.terms)
        /\ WroteAt(w.bills, 5, pc, b, NewBill(tx.terms, b[2]))
        /\ WroteAt(w.rooms, 6, pc, r, SetStatus(rooms[r], "reserved"))
        /\ WroteAt(w.tenants, 7, pc, t, SetStatus(tenants[t], "pending_payment"))
        /\ DOMAIN w.payments = {} /\ DOMAIN w.checkouts = {}

\* Where a cancellation is.  Its lease stays pending, so no bill of the lease comes or goes.
CancelAt(x, tx, w, L) ==
    LET pc == tx.pc  o == tx.owner  a == tx.lease
        r  == assignments[a].room   t == assignments[a].tenant
    IN  /\ AssignmentOf(o, a)
        /\ pc > 1 => /\ Holds(L, x, AssignmentRow(a), "update")
                     /\ assignments[a].status = "pending_payment"
        /\ pc > 3 => \A b \in BillsToCancel(a) : Owns(L, x, BillRow(b))
        /\ pc > 4 => Owns(L, x, RoomRow(r)) /\ RoomVisible(o, r)
        /\ pc > 5 => Owns(L, x, TenantRow(t)) /\ TenantVisible(o, t)
        /\ WroteAt(w.assignments, 2, pc, a, SetStatus(assignments[a], "cancelled"))
        /\ DOMAIN w.bills = IF pc > 3 THEN BillsToCancel(a) ELSE {}
        /\ \A b \in DOMAIN w.bills : w.bills[b] = SetStatus(bills[b], "cancelled")
        /\ WroteAt(w.rooms, 4, pc, r, SetStatus(rooms[r], "available"))
        /\ WroteAt(w.tenants, 5, pc, t, SetStatus(tenants[t], "pending_payment"))
        /\ DOMAIN w.payments = {} /\ DOMAIN w.checkouts = {}

\* Where a payment is.  At its end it has activated the lease exactly if that was pending.
RecordAt(x, tx, w, L) ==
    LET pc == tx.pc  o == tx.owner  b == tx.bill  a == tx.bill[1]
        r  == bills[b].room         t == bills[b].tenant
        activates == assignments[a].status = "pending_payment"
    IN  /\ BillOf(o, b)
        /\ pc > 1 => Holds(L, x, BillRow(b), "update") /\ Payable(o, b, tx.amount)
        /\ pc > 2 => payments[b] = <<>>
        /\ pc > 6 => Holds(L, x, AssignmentRow(a), "update")
        /\ pc \in 7 .. 9 => activates
        /\ pc > 8 /\ activates => Owns(L, x, TenantRow(t)) /\ TenantVisible(o, t)
        /\ pc > 9 /\ activates => Owns(L, x, RoomRow(r)) /\ RoomVisible(o, r)
        /\ WroteAt(w.payments, 2, pc, b, WithPayment(b, tx.amount))
        /\ WroteAt(w.bills, 5, pc, b, SetStatus(bills[b], "paid"))
        /\ IF activates
           THEN /\ WroteAt(w.assignments, 7, pc, a, SetStatus(assignments[a], "active"))
                /\ WroteAt(w.tenants, 8, pc, t, SetStatus(tenants[t], "active"))
                /\ WroteAt(w.rooms, 9, pc, r, SetStatus(rooms[r], "occupied"))
           ELSE DOMAIN w.assignments = {} /\ DOMAIN w.tenants = {} /\ DOMAIN w.rooms = {}
        /\ DOMAIN w.checkouts = {}

\* Where a checkout is.
CheckoutAt(x, tx, w, L) ==
    LET pc == tx.pc  o == tx.owner  b == tx.bill
    IN  /\ TenantBillOf(o, tx.tenant, b)
        /\ pc > 1 => /\ Holds(L, x, BillRow(b), "update")
                     /\ NeedsCheckout(b) /\ Len(checkouts[b]) < MaxCheckouts
        /\ WroteAt(w.checkouts, 2, pc, b, WithCheckout(o, b))
        /\ WroteAt(w.bills, 4, pc, b, SetStatus(bills[b], "gateway_pending"))
        /\ DOMAIN w.rooms = {} /\ DOMAIN w.tenants = {}
        /\ DOMAIN w.assignments = {} /\ DOMAIN w.payments = {}

\* Where a monthly run is: the bills it has inserted are new, have numbers of their own that
\* it has entered, and with those that were there and those it has to do are the month's.
\* What it has to do is of leases created no earlier than those it has billed.
Month(tx) == tx.run.seen \X {tx.month}
Older(b, c) == CreatedAt[b[1]] <= CreatedAt[c[1]]
Listed(b, todo) == \E i \in DOMAIN todo : todo[i] = b
Entered(x, o, b, new, L) ==
    /\ bills[b] = Absent /\ new[b] = NewBill(assignments[b[1]], b[2])
    /\ Holds(L, x, NumberEntry(o, b), "update") /\ ~NumberTaken(o, b)
    /\ \A c \in DOMAIN new : BillNumber(c) = BillNumber(b) => c = b
GenerateAt(x, tx, w, L) ==
    LET pc == tx.pc  o == tx.owner  todo == tx.todo
    IN  /\ tx.run \in billRuns /\ tx.run.owner = o
        /\ \A b \in BillKeys : Listed(b, todo) => b \in Month(tx)
        /\ DOMAIN w.bills \subseteq Month(tx)
        /\ \A b \in Month(tx) : b \in DOMAIN w.bills \/ bills[b] # Absent \/ Listed(b, todo)
        /\ \A b \in DOMAIN w.bills : Entered(x, o, b, w.bills, L)
        /\ pc < 5 <=> todo # <<>>
        /\ pc \in 2 .. 4 => Head(todo) \in DOMAIN w.bills
        /\ \A i, j \in DOMAIN todo : i < j => Older(todo[i], todo[j])
        /\ \A b \in DOMAIN w.bills, c \in BillKeys : Listed(c, todo) => Older(b, c)
        /\ DOMAIN w.rooms = {} /\ DOMAIN w.tenants = {} /\ DOMAIN w.assignments = {}
        /\ DOMAIN w.payments = {} /\ DOMAIN w.checkouts = {}

ProgressAt(x, tx, w, L) ==
    /\ tx.kind = "assign"   => AssignAt(x, tx, w, L)
    /\ tx.kind = "cancel"   => CancelAt(x, tx, w, L)
    /\ tx.kind = "record"   => RecordAt(x, tx, w, L)
    /\ tx.kind = "checkout" => CheckoutAt(x, tx, w, L)
    /\ tx.kind = "generate" => GenerateAt(x, tx, w, L)
Progress(x) == txs[x] # Absent => ProgressAt(x, txs[x], writes[x], locks)

\* Two onboardings insert different rows.
Apart ==
    \A x, y \in Txs : x # y =>
        (Open(x, "assign") /\ Open(y, "assign") => txs[x].bill[1] # txs[y].bill[1])

TxInv == Base /\ Connections /\ LocksExclude /\ Apart /\ \A x \in Txs : Progress(x)

-----------------------------------------------------------------------------
(* Requests, labels and the statement a step runs *)

LEMMA AssignTx ==
    ASSUME Connections, NEW x \in Txs, Open(x, "assign")
    PROVE  /\ txs[x].owner \in Owners /\ txs[x].bill \in BillKeys /\ txs[x].terms \in Assignment
           /\ txs[x].pc \in 1 .. 8 /\ txs[x].kind = "assign" /\ txs[x] \in Tx
           /\ DOMAIN txs[x] = {"kind", "owner", "bill", "terms", "pc"}
  BY DEF Connections, Tx, Open

LEMMA CancelTx ==
    ASSUME Connections, NEW x \in Txs, Open(x, "cancel")
    PROVE  /\ txs[x].owner \in Owners /\ txs[x].lease \in Assignments
           /\ txs[x].pc \in 1 .. 6 /\ txs[x].kind = "cancel" /\ txs[x] \in Tx
           /\ DOMAIN txs[x] = {"kind", "owner", "lease", "pc"}
  BY DEF Connections, Tx, Open

LEMMA RecordTx ==
    ASSUME Connections, NEW x \in Txs, Open(x, "record")
    PROVE  /\ txs[x].owner \in Owners /\ txs[x].bill \in BillKeys /\ txs[x].amount \in Rents
           /\ txs[x].pc \in 1 .. 10 /\ txs[x].kind = "record" /\ txs[x] \in Tx
           /\ DOMAIN txs[x] = {"kind", "owner", "bill", "amount", "pc"}
  BY DEF Connections, Tx, Open

LEMMA CheckoutTx ==
    ASSUME Connections, NEW x \in Txs, Open(x, "checkout")
    PROVE  /\ txs[x].owner \in Owners /\ txs[x].bill \in BillKeys /\ txs[x].tenant \in Tenants
           /\ txs[x].pc \in 1 .. 5 /\ txs[x].kind = "checkout" /\ txs[x] \in Tx
           /\ DOMAIN txs[x] = {"kind", "owner", "tenant", "bill", "pc"}
  BY DEF Connections, Tx, Open

LEMMA GenerateTx ==
    ASSUME Connections, NEW x \in Txs, Open(x, "generate")
    PROVE  /\ txs[x].owner \in Owners /\ txs[x].todo \in Seq(BillKeys)
           /\ txs[x].run \in BillRun /\ txs[x].month \in Months
           /\ txs[x].pc \in 1 .. 5 /\ txs[x].kind = "generate" /\ txs[x] \in Tx
           /\ DOMAIN txs[x] = {"kind", "owner", "run", "month", "todo", "pc"}
  BY DEF Connections, Tx, Open

LEMMA OpenKind ==
    ASSUME Connections, NEW x \in Txs, txs[x] # Absent
    PROVE  \/ Open(x, "assign") \/ Open(x, "cancel") \/ Open(x, "record")
           \/ Open(x, "checkout") \/ Open(x, "generate")
  BY DEF Connections, Tx, Open

LEMMA AssignLabels ==
    ASSUME NEW x \in Txs, Open(x, "assign")
    PROVE  /\ txs[x].pc = 1 => Label(x) = "LockRoom"
           /\ txs[x].pc = 2 => Label(x) = "LockTenant"
           /\ txs[x].pc = 3 => Label(x) = "CountLive"
           /\ txs[x].pc = 4 => Label(x) = "InsertAssignment"
           /\ txs[x].pc = 5 => Label(x) = "InsertBill"
           /\ txs[x].pc = 6 => Label(x) = "UpdateRoom"
           /\ txs[x].pc = 7 => Label(x) = "UpdateTenant"
           /\ txs[x].pc = 8 => Label(x) = "Commit"
  BY DEF Open, Label, Program

LEMMA CancelLabels ==
    ASSUME NEW x \in Txs, Open(x, "cancel")
    PROVE  /\ txs[x].pc = 1 => Label(x) = "LockAssignment"
           /\ txs[x].pc = 2 => Label(x) = "UpdateAssignment"
           /\ txs[x].pc = 3 => Label(x) = "CancelBills"
           /\ txs[x].pc = 4 => Label(x) = "UpdateRoom"
           /\ txs[x].pc = 5 => Label(x) = "UpdateTenant"
           /\ txs[x].pc = 6 => Label(x) = "Commit"
  BY DEF Open, Label, Program

LEMMA RecordLabels ==
    ASSUME NEW x \in Txs, Open(x, "record")
    PROVE  /\ txs[x].pc = 1 => Label(x) = "LockBill"
           /\ txs[x].pc = 2 => Label(x) = "InsertPayment"
           /\ txs[x].pc = 3 => Label(x) = "TenantKey"
           /\ txs[x].pc = 4 => Label(x) = "RoomKey"
           /\ txs[x].pc = 5 => Label(x) = "UpdateBill"
           /\ txs[x].pc = 6 => Label(x) = "LockAssignment"
           /\ txs[x].pc = 7 => Label(x) = "UpdateAssignment"
           /\ txs[x].pc = 8 => Label(x) = "UpdateTenant"
           /\ txs[x].pc = 9 => Label(x) = "UpdateRoom"
           /\ txs[x].pc = 10 => Label(x) = "Commit"
  BY DEF Open, Label, Program

LEMMA CheckoutLabels ==
    ASSUME NEW x \in Txs, Open(x, "checkout")
    PROVE  /\ txs[x].pc = 1 => Label(x) = "LockBill"
           /\ txs[x].pc = 2 => Label(x) = "InsertCheckout"
           /\ txs[x].pc = 3 => Label(x) = "TenantKey"
           /\ txs[x].pc = 4 => Label(x) = "UpdateBill"
           /\ txs[x].pc = 5 => Label(x) = "Commit"
  BY DEF Open, Label, Program

LEMMA GenerateLabels ==
    ASSUME NEW x \in Txs, Open(x, "generate")
    PROVE  /\ txs[x].pc = 1 => Label(x) = "InsertMonthly"
           /\ txs[x].pc = 2 => Label(x) = "TenantKey"
           /\ txs[x].pc = 3 => Label(x) = "RoomKey"
           /\ txs[x].pc = 4 => Label(x) = "AssignmentKey"
           /\ txs[x].pc = 5 => Label(x) = "Commit"
  BY DEF Open, Label, Program

\* The statement that runs is the one the transaction is at.
LEMMA Dispatch ==
    ASSUME NEW x \in Txs, Execute(x)
    PROVE  /\ Label(x) = "LockRoom" => LockRoom(x)
           /\ Label(x) = "LockTenant" => LockTenant(x)
           /\ Label(x) = "CountLive" => CountLive(x)
           /\ Label(x) = "InsertAssignment" => InsertAssignment(x)
           /\ Label(x) = "InsertBill" => InsertBill(x)
           /\ Label(x) = "UpdateRoom" => UpdateRoom(x)
           /\ Label(x) = "UpdateTenant" => UpdateTenant(x)
           /\ Label(x) = "LockAssignment" => LockAssignment(x)
           /\ Label(x) = "UpdateAssignment" => UpdateAssignment(x)
           /\ Label(x) = "CancelBills" => CancelBills(x)
           /\ Label(x) = "LockBill" => LockBill(x)
           /\ Label(x) = "InsertPayment" => InsertPayment(x)
           /\ Label(x) = "InsertCheckout" => InsertCheckout(x)
           /\ Label(x) = "UpdateBill" => UpdateBill(x)
           /\ Label(x) = "InsertMonthly" => InsertMonthly(x)
           /\ Label(x) = "TenantKey" => TenantKey(x)
           /\ Label(x) = "RoomKey" => RoomKey(x)
           /\ Label(x) = "AssignmentKey" => AssignmentKey(x)
           /\ Label(x) = "Commit" => Commit(x)
  <1>1. /\ LockRoom(x) => Label(x) = "LockRoom"
        /\ LockTenant(x) => Label(x) = "LockTenant"
        /\ CountLive(x) => Label(x) = "CountLive"
        /\ InsertAssignment(x) => Label(x) = "InsertAssignment"
        /\ InsertBill(x) => Label(x) = "InsertBill"
        /\ UpdateRoom(x) => Label(x) = "UpdateRoom"
        /\ UpdateTenant(x) => Label(x) = "UpdateTenant"
    BY DEF LockRoom, LockTenant, CountLive, InsertAssignment, InsertBill, UpdateRoom,
           UpdateTenant, Lock, Write, Statement
  <1>2. /\ LockAssignment(x) => Label(x) = "LockAssignment"
        /\ UpdateAssignment(x) => Label(x) = "UpdateAssignment"
        /\ CancelBills(x) => Label(x) = "CancelBills"
        /\ LockBill(x) => Label(x) = "LockBill"
        /\ InsertPayment(x) => Label(x) = "InsertPayment"
        /\ InsertCheckout(x) => Label(x) = "InsertCheckout"
        /\ UpdateBill(x) => Label(x) = "UpdateBill"
    BY DEF LockAssignment, UpdateAssignment, CancelBills, LockBill, InsertPayment,
           InsertCheckout, UpdateBill, Lock, Write, Statement
  <1>3. /\ TenantKey(x) => Label(x) = "TenantKey"
        /\ RoomKey(x) => Label(x) = "RoomKey"
        /\ AssignmentKey(x) => Label(x) = "AssignmentKey"
        /\ Commit(x) => Label(x) = "Commit"
    BY DEF TenantKey, RoomKey, AssignmentKey, Commit, Lock, Statement
  <1>4. QED
    BY <1>1, <1>2, <1>3 DEF Execute

-----------------------------------------------------------------------------
(* A statement that runs *)

\* The statement of x runs: it gets its locks, and only x's own state changes.
Ran(x) == /\ Granted(x) /\ Found(x)
          /\ locks' = locks \cup Wants(x)
          /\ txs' = [txs EXCEPT ![x] = txs'[x]]
          /\ writes' = [writes EXCEPT ![x] = writes'[x]]
          /\ UNCHANGED vars

\* A monthly run keeps the bills it has written, and has written those whose numbers it enters.
Enters(x) ==
    /\ DOMAIN writes[x].bills \subseteq DOMAIN writes'[x].bills
    /\ \A w \in Wants(x) : w.row[1] = "bill_number" =>
          \E b \in DOMAIN writes'[x].bills : w.row = NumberEntry(txs[x].owner, b)

\* ... and leaves x where its program is.
Moves(x) == /\ Ran(x)
            /\ Wants(x) \subseteq RowLock
            /\ txs'[x] \in Tx /\ DOMAIN writes'[x] = DOMAIN NoWrites
            /\ txs'[x].kind = txs[x].kind /\ txs'[x].owner = txs[x].owner
            /\ Open(x, "assign") => txs'[x].bill = txs[x].bill
            /\ ~Open(x, "generate") => txs'[x].pc > txs[x].pc
            /\ Open(x, "generate") => Enters(x)
            /\ ProgressAt(x, txs'[x], writes'[x], locks')

LEMMA VarsUnchanged ==
    ASSUME UNCHANGED vars
    PROVE  /\ rooms' = rooms /\ tenants' = tenants /\ assignments' = assignments
           /\ bills' = bills /\ payments' = payments /\ checkouts' = checkouts
           /\ deleting' = deleting /\ billRuns' = billRuns /\ today' = today
  BY DEF vars, leases, money

LEMMA PutFirst ==
    ASSUME NEW f, DOMAIN f = {}, NEW k, NEW v
    PROVE  Wrote(Put(f, k, v), k, v)
  BY DEF Put, Wrote

LEMMA LockModes ==
    /\ LockMode["LockRoom"] = "update" /\ LockMode["LockTenant"] = "update"
    /\ LockMode["LockAssignment"] = "update" /\ LockMode["LockBill"] = "update"
    /\ LockMode["UpdateRoom"] = "no key update" /\ LockMode["UpdateTenant"] = "no key update"
    /\ LockMode["UpdateAssignment"] = "no key update" /\ LockMode["UpdateBill"] = "no key update"
    /\ LockMode["CancelBills"] = "no key update" /\ LockMode["TenantKey"] = "key share"
    /\ LockMode["RoomKey"] = "key share" /\ LockMode["AssignmentKey"] = "key share"
    /\ LockMode["InsertBill"] = "update" /\ LockMode["InsertMonthly"] = "update"
  BY DEF LockMode

LEMMA WantsRoomRow ==
    ASSUME NEW x \in Txs, Label(x) \in {"LockRoom", "UpdateRoom"}, Found(x)
    PROVE  /\ RoomVisible(txs[x].owner, TheRow(x).room)
           /\ Wants(x) = {[tx |-> x, row |-> RoomRow(TheRow(x).room), mode |-> LockMode[Label(x)]]}
  BY DEF Found, Wants, Target

LEMMA WantsTenantRow ==
    ASSUME NEW x \in Txs, Label(x) \in {"LockTenant", "UpdateTenant"}, Found(x)
    PROVE  /\ TenantVisible(txs[x].owner, TheRow(x).tenant)
           /\ Wants(x) = {[tx |-> x, row |-> TenantRow(TheRow(x).tenant), mode |-> LockMode[Label(x)]]}
  BY DEF Found, Wants, Target

LEMMA WantsAssignmentRow ==
    ASSUME NEW x \in Txs, Label(x) \in {"LockAssignment", "UpdateAssignment", "AssignmentKey"}, Found(x)
    PROVE  Wants(x) = {[tx |-> x, row |-> AssignmentRow(TheLease(x)), mode |-> LockMode[Label(x)]]}
  BY DEF Found, Wants, Target

LEMMA WantsBillRow ==
    ASSUME NEW x \in Txs, Label(x) \in {"LockBill", "UpdateBill"}, Found(x)
    PROVE  Wants(x) = {[tx |-> x, row |-> BillRow(TheBill(x)), mode |-> LockMode[Label(x)]]}
  BY DEF Found, Wants, Target

LEMMA WantsKey ==
    ASSUME NEW x \in Txs, Label(x) \in {"TenantKey", "RoomKey"}
    PROVE  Wants(x) = {[tx |-> x, mode |-> "key share",
                        row |-> IF Label(x) = "TenantKey" THEN TenantRow(TheRow(x).tenant)
                                                          ELSE RoomRow(TheRow(x).room)]}
  <1>1. Found(x)
    BY DEF Found
  <1>2. LockMode[Label(x)] = "key share"
    BY LockModes
  <1>3. CASE Label(x) = "TenantKey"
    <2>1. Target(x) = {TenantRow(TheRow(x).tenant)}
      BY <1>3 DEF Target
    <2>2. QED
      BY <1>1, <1>2, <1>3, <2>1 DEF Wants
  <1>4. CASE Label(x) = "RoomKey"
    <2>1. Target(x) = {RoomRow(TheRow(x).room)}
      BY <1>4 DEF Target
    <2>2. QED
      BY <1>1, <1>2, <1>4, <2>1 DEF Wants
  <1>5. QED
    BY <1>3, <1>4

LEMMA WantsNumber ==
    ASSUME NEW x \in Txs, Label(x) \in {"InsertBill", "InsertMonthly"}
    PROVE  Wants(x) = IF bills[TheBill(x)] = Absent
                      THEN {[tx |-> x, row |-> NumberEntry(txs[x].owner, TheBill(x)), mode |-> "update"]}
                      ELSE {}
  <1>1. Found(x)
    BY DEF Found
  <1>2. LockMode[Label(x)] = "update"
    BY LockModes
  <1>3. Target(x) = IF bills[TheBill(x)] = Absent
                    THEN {NumberEntry(txs[x].owner, TheBill(x))} ELSE {}
    BY DEF Target
  <1>4. QED
    BY <1>1, <1>2, <1>3 DEF Wants

LEMMA WantsNone ==
    ASSUME NEW x \in Txs,
           Label(x) \in {"CountLive", "InsertAssignment", "InsertPayment", "InsertCheckout", "Commit"}
    PROVE  Wants(x) = {}
  BY DEF Found, Wants, Target

LEMMA WantsBills ==
    ASSUME NEW x \in Txs, Label(x) = "CancelBills", Found(x)
    PROVE  Wants(x) = {[tx |-> x, row |-> row, mode |-> "no key update"] :
                          row \in {BillRow(b) : b \in BillsToCancel(TheLease(x))}}
  BY DEF Found, Wants, Target, LockMode

\* A lock that is wanted is held once the statement has run; those held stay.
LEMMA LocksTaken ==
    ASSUME NEW x \in Txs, Ran(x)
    PROVE  /\ \A row, mode : [tx |-> x, row |-> row, mode |-> mode] \in Wants(x)
                              => Holds(locks', x, row, mode)
           /\ \A y, row, mode : Holds(locks, y, row, mode) => Holds(locks', y, row, mode)
           /\ \A y, row : Owns(locks, y, row) => Owns(locks', y, row)
  BY DEF Ran, Holds, Owns

LEMMA RowTypesOfLocks ==
    ASSUME NEW x \in Txs, NEW mode \in Mode
    PROVE  /\ \A r \in Rooms : [tx |-> x, row |-> RoomRow(r), mode |-> mode] \in RowLock
           /\ \A t \in Tenants : [tx |-> x, row |-> TenantRow(t), mode |-> mode] \in RowLock
           /\ \A a \in Assignments : [tx |-> x, row |-> AssignmentRow(a), mode |-> mode] \in RowLock
           /\ \A b \in BillKeys : [tx |-> x, row |-> BillRow(b), mode |-> mode] \in RowLock
           /\ \A o \in Owners, b \in BillKeys :
                [tx |-> x, row |-> NumberEntry(o, b), mode |-> mode] \in RowLock
  BY DEF RowLock, Row

-----------------------------------------------------------------------------
(* What each statement does when it does not roll back *)

LEMMA Tables ==
    DOMAIN NoWrites = {"rooms", "tenants", "assignments", "bills", "payments", "checkouts"}
  BY DEF NoWrites

\* Of the tables, a statement writes this one alone.
OnlyWrites(x, table) ==
    /\ DOMAIN writes'[x] = DOMAIN NoWrites
    /\ table # "rooms"       => writes'[x].rooms = writes[x].rooms
    /\ table # "tenants"     => writes'[x].tenants = writes[x].tenants
    /\ table # "assignments" => writes'[x].assignments = writes[x].assignments
    /\ table # "bills"       => writes'[x].bills = writes[x].bills
    /\ table # "payments"    => writes'[x].payments = writes[x].payments
    /\ table # "checkouts"   => writes'[x].checkouts = writes[x].checkouts

PutIn(w, table, k, v) == [w EXCEPT ![table] = Put(@, k, v)]

LEMMA BufferPut ==
    ASSUME Connections, NEW x \in Txs, NEW table \in DOMAIN NoWrites, NEW k, NEW v,
           writes'[x] = PutIn(writes[x], table, k, v)
    PROVE  /\ OnlyWrites(x, table)
           /\ writes'[x][table] = Put(writes[x][table], k, v)
           /\ DOMAIN writes[x][table] = {} => Wrote(writes'[x][table], k, v)
  <1>1. DOMAIN writes[x] = DOMAIN NoWrites
    BY DEF Connections
  <1>2. OnlyWrites(x, table)
    BY <1>1, Tables DEF OnlyWrites, PutIn
  <1>3. writes'[x][table] = Put(writes[x][table], k, v)
    BY <1>1 DEF PutIn
  <1>4. QED
    <2>1. ASSUME DOMAIN writes[x][table] = {} PROVE Wrote(writes'[x][table], k, v)
      BY <1>3, <2>1 DEF Wrote, Put
    <2>2. QED
      BY <1>2, <1>3, <2>1

LEMMA NothingWritten ==
    ASSUME Connections, NEW x \in Txs, writes'[x] = writes[x]
    PROVE  OnlyWrites(x, "none")
  BY DEF OnlyWrites, Connections

LEMMA LockRoomRuns ==
    ASSUME Connections, NEW x \in Txs, LockRoom(x), ~Rollback(x), TheRow(x).room \in Rooms
    PROVE  /\ Ran(x) /\ txs'[x] = Following(x) /\ OnlyWrites(x, "none") /\ Wants(x) \subseteq RowLock
           /\ RoomVisible(txs[x].owner, TheRow(x).room) /\ rooms[TheRow(x).room].status = "available"
           /\ Holds(locks', x, RoomRow(TheRow(x).room), "update")
  <1>1. /\ Label(x) = "LockRoom" /\ Ran(x) /\ txs'[x] = Following(x) /\ writes'[x] = writes[x]
        /\ rooms[TheRow(x).room].status = "available" /\ Found(x)
    BY DEF LockRoom, Lock, Statement, Ran, Connections
  <1>2. QED
    BY <1>1, WantsRoomRow, LockModes, LocksTaken, RowTypesOfLocks, NothingWritten DEF Mode

LEMMA LockTenantRuns ==
    ASSUME Connections, NEW x \in Txs, LockTenant(x), ~Rollback(x), TheRow(x).tenant \in Tenants
    PROVE  /\ Ran(x) /\ txs'[x] = Following(x) /\ OnlyWrites(x, "none") /\ Wants(x) \subseteq RowLock
           /\ TenantVisible(txs[x].owner, TheRow(x).tenant)
           /\ Holds(locks', x, TenantRow(TheRow(x).tenant), "update")
  <1>1. /\ Label(x) = "LockTenant" /\ Ran(x) /\ txs'[x] = Following(x) /\ writes'[x] = writes[x]
        /\ Found(x)
    BY DEF LockTenant, Lock, Statement, Ran, Connections
  <1>2. QED
    BY <1>1, WantsTenantRow, LockModes, LocksTaken, RowTypesOfLocks, NothingWritten DEF Mode

LEMMA CountLiveRuns ==
    ASSUME Connections, NEW x \in Txs, CountLive(x), ~Rollback(x)
    PROVE  /\ Ran(x) /\ txs'[x] = Following(x) /\ OnlyWrites(x, "none") /\ Wants(x) \subseteq RowLock
           /\ LiveInRoom(TheRow(x).room) = {} /\ LiveForTenant(TheRow(x).tenant) = {}
  <1>1. /\ Label(x) = "CountLive" /\ Ran(x) /\ txs'[x] = Following(x) /\ writes'[x] = writes[x]
        /\ LiveInRoom(TheRow(x).room) = {} /\ LiveForTenant(TheRow(x).tenant) = {}
    BY DEF CountLive, Lock, Statement, Ran, Connections
  <1>2. QED
    BY <1>1, WantsNone, NothingWritten

LEMMA InsertAssignmentRuns ==
    ASSUME Connections, NEW x \in Txs, InsertAssignment(x), ~Rollback(x),
           DOMAIN writes[x].assignments = {}
    PROVE  /\ Ran(x) /\ txs'[x] = Following(x) /\ OnlyWrites(x, "assignments")
           /\ Wants(x) \subseteq RowLock
           /\ Wrote(writes'[x].assignments, TheLease(x), TheRow(x))
  <1>1. /\ Label(x) = "InsertAssignment" /\ Ran(x) /\ txs'[x] = Following(x)
        /\ writes'[x] = PutIn(writes[x], "assignments", TheLease(x), TheRow(x))
    BY DEF PutIn, InsertAssignment, Write, Statement, Ran, Connections
  <1>2. QED
    BY <1>1, WantsNone, BufferPut, Tables

LEMMA InsertBillRuns ==
    ASSUME Connections, NEW x \in Txs, InsertBill(x), ~Rollback(x), bills[TheBill(x)] = Absent,
           DOMAIN writes[x].bills = {}, TheBill(x) \in BillKeys, txs[x].owner \in Owners
    PROVE  /\ Ran(x) /\ txs'[x] = Following(x) /\ OnlyWrites(x, "bills") /\ Wants(x) \subseteq RowLock
           /\ Wrote(writes'[x].bills, TheBill(x), NewBill(TheRow(x), TheBill(x)[2]))
           /\ ~NumberTaken(txs[x].owner, TheBill(x))
           /\ Holds(locks', x, NumberEntry(txs[x].owner, TheBill(x)), "update")
  <1>1. /\ Label(x) = "InsertBill" /\ Ran(x) /\ txs'[x] = Following(x)
        /\ ~NumberTaken(txs[x].owner, TheBill(x))
    BY DEF InsertBill, Write, Statement, Ran, Connections
  <1>2. writes'[x] = PutIn(writes[x], "bills", TheBill(x), NewBill(TheRow(x), TheBill(x)[2]))
    BY DEF PutIn, InsertBill, Write, Statement, Ran, Connections
  <1>3. OnlyWrites(x, "bills")
        /\ Wrote(writes'[x].bills, TheBill(x), NewBill(TheRow(x), TheBill(x)[2]))
    BY <1>2, BufferPut, Tables
  <1>4. /\ Holds(locks', x, NumberEntry(txs[x].owner, TheBill(x)), "update")
        /\ Wants(x) \subseteq RowLock
    BY <1>1, WantsNumber, LocksTaken, RowTypesOfLocks DEF Mode
  <1>5. QED
    BY <1>1, <1>3, <1>4

LEMMA UpdateRoomRuns ==
    ASSUME Connections, NEW x \in Txs, UpdateRoom(x), ~Rollback(x), TheRow(x).room \in Rooms,
           DOMAIN writes[x].rooms = {}
    PROVE  /\ Ran(x) /\ txs'[x] = Following(x) /\ OnlyWrites(x, "rooms") /\ Wants(x) \subseteq RowLock
           /\ RoomVisible(txs[x].owner, TheRow(x).room)
           /\ Owns(locks', x, RoomRow(TheRow(x).room))
           /\ Wrote(writes'[x].rooms, TheRow(x).room,
                    SetStatus(rooms[TheRow(x).room], StatusAfter[txs[x].kind].room))
  <1>1. /\ Label(x) = "UpdateRoom" /\ Ran(x) /\ txs'[x] = Following(x) /\ Found(x)
    BY DEF UpdateRoom, Write, Statement, Ran, Connections
  <1>2. writes'[x] = PutIn(writes[x], "rooms", TheRow(x).room,
                            SetStatus(rooms[TheRow(x).room], StatusAfter[txs[x].kind].room))
    BY DEF PutIn, UpdateRoom, Write, Statement, Ran, Connections, SetStatus
  <1>3. Holds(locks', x, RoomRow(TheRow(x).room), "no key update") /\ Wants(x) \subseteq RowLock
    BY <1>1, WantsRoomRow, LockModes, LocksTaken, RowTypesOfLocks DEF Mode
  <1>4. /\ OnlyWrites(x, "rooms")
        /\ Wrote(writes'[x].rooms, TheRow(x).room,
                 SetStatus(rooms[TheRow(x).room], StatusAfter[txs[x].kind].room))
    BY <1>2, BufferPut, Tables
  <1>5. QED
    BY <1>1, <1>3, <1>4, WantsRoomRow DEF Owns

LEMMA UpdateTenantRuns ==
    ASSUME Connections, NEW x \in Txs, UpdateTenant(x), ~Rollback(x), TheRow(x).tenant \in Tenants,
           DOMAIN writes[x].tenants = {}
    PROVE  /\ Ran(x) /\ txs'[x] = Following(x) /\ OnlyWrites(x, "tenants") /\ Wants(x) \subseteq RowLock
           /\ TenantVisible(txs[x].owner, TheRow(x).tenant)
           /\ Owns(locks', x, TenantRow(TheRow(x).tenant))
           /\ Wrote(writes'[x].tenants, TheRow(x).tenant,
                    SetStatus(tenants[TheRow(x).tenant], StatusAfter[txs[x].kind].tenant))
  <1>1. /\ Label(x) = "UpdateTenant" /\ Ran(x) /\ txs'[x] = Following(x) /\ Found(x)
    BY DEF UpdateTenant, Write, Statement, Ran, Connections
  <1>2. writes'[x] = PutIn(writes[x], "tenants", TheRow(x).tenant,
                            SetStatus(tenants[TheRow(x).tenant], StatusAfter[txs[x].kind].tenant))
    BY DEF PutIn, UpdateTenant, Write, Statement, Ran, Connections, SetStatus
  <1>3. Holds(locks', x, TenantRow(TheRow(x).tenant), "no key update") /\ Wants(x) \subseteq RowLock
    BY <1>1, WantsTenantRow, LockModes, LocksTaken, RowTypesOfLocks DEF Mode
  <1>4. /\ OnlyWrites(x, "tenants")
        /\ Wrote(writes'[x].tenants, TheRow(x).tenant,
                 SetStatus(tenants[TheRow(x).tenant], StatusAfter[txs[x].kind].tenant))
    BY <1>2, BufferPut, Tables
  <1>5. QED
    BY <1>1, <1>3, <1>4, WantsTenantRow DEF Owns

-----------------------------------------------------------------------------
(* The statements of an onboarding *)

LEMMA AssignSubject ==
    ASSUME NEW x \in Txs, Open(x, "assign")
    PROVE  TheRow(x) = txs[x].terms /\ TheBill(x) = txs[x].bill /\ TheLease(x) = txs[x].bill[1]
  BY DEF Open, TheRow, TheBill, TheLease

LEMMA AssignFollowing ==
    ASSUME Connections, NEW x \in Txs, Open(x, "assign"), txs[x].pc < 8
    PROVE  /\ Following(x) \in Tx /\ Following(x) # Absent
           /\ Following(x).kind = "assign" /\ Following(x).owner = txs[x].owner
           /\ Following(x).bill = txs[x].bill /\ Following(x).terms = txs[x].terms
           /\ Following(x).pc = txs[x].pc + 1
  <1>1. Following(x) \in [kind : {"assign"}, owner : Owners, bill : BillKeys, terms : Assignment,
                          pc : 1 .. 8]
        /\ Following(x).pc = txs[x].pc + 1
    BY DEF Connections, Tx, Open, Following
  <1>2. QED
    BY <1>1, AssignTx, NoTxAssumption DEF Tx, Following

\* A table that is written at statement n of a program.
LEMMA WroteNext ==
    ASSUME NEW f, NEW g, NEW n \in Int, NEW pc \in Int, NEW next \in Int, next = pc + 1, NEW k, NEW v,
           WroteAt(f, n, pc, k, v), IF pc = n THEN Wrote(g, k, v) ELSE g = f
    PROVE  WroteAt(g, n, next, k, v)
  BY DEF WroteAt

LEMMA AssignStep ==
    ASSUME NEW x, NEW tx, NEW w, NEW L, NEW tx2, NEW w2, NEW L2,
           AssignAt(x, tx, w, L), tx.pc \in 1 .. 7,
           tx2.owner = tx.owner, tx2.bill = tx.bill, tx2.terms = tx.terms, tx2.pc = tx.pc + 1,
           \A row, mode : Holds(L, x, row, mode) => Holds(L2, x, row, mode),
           tx.pc = 1 => /\ Holds(L2, x, RoomRow(tx.terms.room), "update")
                        /\ RoomVisible(tx.owner, tx.terms.room)
                        /\ rooms[tx.terms.room].status = "available",
           tx.pc = 2 => /\ Holds(L2, x, TenantRow(tx.terms.tenant), "update")
                        /\ TenantVisible(tx.owner, tx.terms.tenant),
           tx.pc = 3 => LiveInRoom(tx.terms.room) = {} /\ LiveForTenant(tx.terms.tenant) = {},
           tx.pc = 5 => /\ Holds(L2, x, NumberEntry(tx.owner, tx.bill), "update")
                        /\ ~NumberTaken(tx.owner, tx.bill),
           IF tx.pc = 4 THEN Wrote(w2.assignments, tx.bill[1], tx.terms)
                        ELSE w2.assignments = w.assignments,
           IF tx.pc = 5 THEN Wrote(w2.bills, tx.bill, NewBill(tx.terms, tx.bill[2]))
                        ELSE w2.bills = w.bills,
           IF tx.pc = 6 THEN Wrote(w2.rooms, tx.terms.room, SetStatus(rooms[tx.terms.room], "reserved"))
                        ELSE w2.rooms = w.rooms,
           IF tx.pc = 7 THEN Wrote(w2.tenants, tx.terms.tenant, SetStatus(tenants[tx.terms.tenant], "pending_payment"))
                        ELSE w2.tenants = w.tenants,
           w2.payments = w.payments, w2.checkouts = w.checkouts
    PROVE  AssignAt(x, tx2, w2, L2)
  <1>1. /\ tx2.terms.owner = tx2.owner /\ tx2.terms.status = "pending_payment"
        /\ tx2.bill[2] = tx2.terms.start /\ assignments[tx2.bill[1]] = Absent
    BY DEF AssignAt
  <1>2. tx2.pc > 1 => /\ Holds(L2, x, RoomRow(tx2.terms.room), "update")
                      /\ RoomVisible(tx2.owner, tx2.terms.room)
                      /\ rooms[tx2.terms.room].status = "available"
    BY DEF AssignAt
  <1>3. tx2.pc > 2 => /\ Holds(L2, x, TenantRow(tx2.terms.tenant), "update")
                      /\ TenantVisible(tx2.owner, tx2.terms.tenant)
    BY DEF AssignAt
  <1>4. tx2.pc > 3 => LiveInRoom(tx2.terms.room) = {} /\ LiveForTenant(tx2.terms.tenant) = {}
    BY DEF AssignAt
  <1>5. tx2.pc > 5 => /\ Holds(L2, x, NumberEntry(tx2.owner, tx2.bill), "update")
                      /\ ~NumberTaken(tx2.owner, tx2.bill)
    BY DEF AssignAt
  <1>0. /\ WroteAt(w.assignments, 4, tx.pc, tx.bill[1], tx.terms)
        /\ WroteAt(w.bills, 5, tx.pc, tx.bill, NewBill(tx.terms, tx.bill[2]))
        /\ WroteAt(w.rooms, 6, tx.pc, tx.terms.room, SetStatus(rooms[tx.terms.room], "reserved"))
        /\ WroteAt(w.tenants, 7, tx.pc, tx.terms.tenant, 
                 SetStatus(tenants[tx.terms.tenant], "pending_payment"))
        /\ DOMAIN w.payments = {} /\ DOMAIN w.checkouts = {}
    BY DEF AssignAt
  <1>6. WroteAt(w2.assignments, 4, tx2.pc, tx2.bill[1], tx2.terms)
    BY <1>0, WroteNext
  <1>7. WroteAt(w2.bills, 5, tx2.pc, tx2.bill, NewBill(tx2.terms, tx2.bill[2]))
    BY <1>0, WroteNext
  <1>8. WroteAt(w2.rooms, 6, tx2.pc, tx2.terms.room, SetStatus(rooms[tx2.terms.room], "reserved"))
    BY <1>0, WroteNext
  <1>9. /\ WroteAt(w2.tenants, 7, tx2.pc, tx2.terms.tenant,
                 SetStatus(tenants[tx2.terms.tenant], "pending_payment"))
        /\ DOMAIN w2.payments = {} /\ DOMAIN w2.checkouts = {}
    BY <1>0, WroteNext
  <1>10. QED
    BY <1>1, <1>2, <1>3, <1>4, <1>5, <1>6, <1>7, <1>8, <1>9 DEF AssignAt

\* A statement that leaves an onboarding where its program is.
LEMMA AssignMovesOn ==
    ASSUME Connections, NEW x \in Txs, Open(x, "assign"), txs[x].pc < 8, Ran(x),
           txs'[x] = Following(x), DOMAIN writes'[x] = DOMAIN NoWrites,
           Wants(x) \subseteq RowLock, AssignAt(x, txs'[x], writes'[x], locks')
    PROVE  Moves(x)
  BY AssignFollowing, AssignTx DEF Moves, ProgressAt, Open

LEMMA AssignRuns ==
    ASSUME Base, Connections, NEW x \in Txs, Open(x, "assign"), txs[x].pc < 8, Execute(x),
           ~Rollback(x), AssignAt(x, txs[x], writes[x], locks)
    PROVE  Moves(x)
  <1>1. /\ TheRow(x) = txs[x].terms /\ TheBill(x) = txs[x].bill /\ TheLease(x) = txs[x].bill[1]
        /\ txs[x].terms.room \in Rooms /\ txs[x].terms.tenant \in Tenants
        /\ txs[x].owner \in Owners /\ txs[x].bill \in BillKeys /\ txs[x].kind = "assign"
        /\ txs[x].pc \in 1 .. 7
    BY AssignSubject, AssignTx DEF Assignment
  <1>2. bills[txs[x].bill] = Absent
    BY <1>1 DEF AssignAt, Base, OwnersNeverMix
  <1>3. StatusAfter["assign"].room = "reserved" /\ StatusAfter["assign"].tenant = "pending_payment"
    BY DEF StatusAfter
  <1>4. /\ DOMAIN writes[x].assignments = IF txs[x].pc > 4 THEN {txs[x].bill[1]} ELSE {}
        /\ DOMAIN writes[x].bills = IF txs[x].pc > 5 THEN {txs[x].bill} ELSE {}
        /\ DOMAIN writes[x].rooms = IF txs[x].pc > 6 THEN {txs[x].terms.room} ELSE {}
        /\ DOMAIN writes[x].tenants = IF txs[x].pc > 7 THEN {txs[x].terms.tenant} ELSE {}
    BY DEF AssignAt, WroteAt, Wrote
  <1>5. ASSUME txs'[x] = Following(x), Ran(x)
        PROVE  /\ txs'[x].owner = txs[x].owner /\ txs'[x].bill = txs[x].bill
               /\ txs'[x].terms = txs[x].terms /\ txs'[x].pc = txs[x].pc + 1
               /\ \A row, mode : Holds(locks, x, row, mode) => Holds(locks', x, row, mode)
    BY <1>5, AssignFollowing, LocksTaken
  <1>6. CASE txs[x].pc = 1
    <2>1. LockRoom(x)
      BY <1>6, AssignLabels, Dispatch
    <2>2. /\ Ran(x) /\ txs'[x] = Following(x) /\ OnlyWrites(x, "none") /\ Wants(x) \subseteq RowLock
          /\ RoomVisible(txs[x].owner, txs[x].terms.room) /\ rooms[txs[x].terms.room].status = "available"
          /\ Holds(locks', x, RoomRow(txs[x].terms.room), "update")
      BY <1>1, <2>1, LockRoomRuns
    <2>3. AssignAt(x, txs'[x], writes'[x], locks')
      BY <1>1, <1>5, <1>6, <2>2, AssignStep DEF OnlyWrites
    <2>4. QED
      BY <1>1, <2>2, <2>3, AssignMovesOn DEF OnlyWrites
  <1>7. CASE txs[x].pc = 2
    <2>1. LockTenant(x)
      BY <1>7, AssignLabels, Dispatch
    <2>2. /\ Ran(x) /\ txs'[x] = Following(x) /\ OnlyWrites(x, "none") /\ Wants(x) \subseteq RowLock
          /\ TenantVisible(txs[x].owner, txs[x].terms.tenant)
          /\ Holds(locks', x, TenantRow(txs[x].terms.tenant), "update")
      BY <1>1, <2>1, LockTenantRuns
    <2>3. AssignAt(x, txs'[x], writes'[x], locks')
      BY <1>1, <1>5, <1>7, <2>2, AssignStep DEF OnlyWrites
    <2>4. QED
      BY <1>1, <2>2, <2>3, AssignMovesOn DEF OnlyWrites
  <1>8. CASE txs[x].pc = 3
    <2>1. CountLive(x)
      BY <1>8, AssignLabels, Dispatch
    <2>2. /\ Ran(x) /\ txs'[x] = Following(x) /\ OnlyWrites(x, "none") /\ Wants(x) \subseteq RowLock
          /\ LiveInRoom(txs[x].terms.room) = {} /\ LiveForTenant(txs[x].terms.tenant) = {}
      BY <1>1, <2>1, CountLiveRuns
    <2>3. AssignAt(x, txs'[x], writes'[x], locks')
      BY <1>1, <1>5, <1>8, <2>2, AssignStep DEF OnlyWrites
    <2>4. QED
      BY <1>1, <2>2, <2>3, AssignMovesOn DEF OnlyWrites
  <1>9. CASE txs[x].pc = 4
    <2>1. InsertAssignment(x)
      BY <1>9, AssignLabels, Dispatch
    <2>2. /\ Ran(x) /\ txs'[x] = Following(x) /\ OnlyWrites(x, "assignments")
          /\ Wants(x) \subseteq RowLock
          /\ Wrote(writes'[x].assignments, txs[x].bill[1], txs[x].terms)
      BY <1>1, <1>4, <1>9, <2>1, InsertAssignmentRuns
    <2>3. AssignAt(x, txs'[x], writes'[x], locks')
      BY <1>1, <1>5, <1>9, <2>2, AssignStep DEF OnlyWrites
    <2>4. QED
      BY <1>1, <2>2, <2>3, AssignMovesOn DEF OnlyWrites
  <1>10. CASE txs[x].pc = 5
    <2>1. InsertBill(x)
      BY <1>10, AssignLabels, Dispatch
    <2>2. /\ Ran(x) /\ txs'[x] = Following(x) /\ OnlyWrites(x, "bills") /\ Wants(x) \subseteq RowLock
          /\ Wrote(writes'[x].bills, txs[x].bill, NewBill(txs[x].terms, txs[x].bill[2]))
          /\ ~NumberTaken(txs[x].owner, txs[x].bill)
          /\ Holds(locks', x, NumberEntry(txs[x].owner, txs[x].bill), "update")
      BY <1>1, <1>2, <1>4, <1>10, <2>1, InsertBillRuns
    <2>3. AssignAt(x, txs'[x], writes'[x], locks')
      BY <1>1, <1>5, <1>10, <2>2, AssignStep DEF OnlyWrites
    <2>4. QED
      BY <1>1, <2>2, <2>3, AssignMovesOn DEF OnlyWrites
  <1>11. CASE txs[x].pc = 6
    <2>1. UpdateRoom(x)
      BY <1>11, AssignLabels, Dispatch
    <2>2. /\ Ran(x) /\ txs'[x] = Following(x) /\ OnlyWrites(x, "rooms") /\ Wants(x) \subseteq RowLock
          /\ Wrote(writes'[x].rooms, txs[x].terms.room, SetStatus(rooms[txs[x].terms.room], "reserved"))
      BY <1>1, <1>3, <1>4, <1>11, <2>1, UpdateRoomRuns
    <2>3. AssignAt(x, txs'[x], writes'[x], locks')
      BY <1>1, <1>5, <1>11, <2>2, AssignStep DEF OnlyWrites
    <2>4. QED
      BY <1>1, <2>2, <2>3, AssignMovesOn DEF OnlyWrites
  <1>12. CASE txs[x].pc = 7
    <2>1. UpdateTenant(x)
      BY <1>12, AssignLabels, Dispatch
    <2>2. /\ Ran(x) /\ txs'[x] = Following(x) /\ OnlyWrites(x, "tenants") /\ Wants(x) \subseteq RowLock
          /\ Wrote(writes'[x].tenants, txs[x].terms.tenant,
                   SetStatus(tenants[txs[x].terms.tenant], "pending_payment"))
      BY <1>1, <1>3, <1>4, <1>12, <2>1, UpdateTenantRuns
    <2>3. AssignAt(x, txs'[x], writes'[x], locks')
      BY <1>1, <1>5, <1>12, <2>2, AssignStep DEF OnlyWrites
    <2>4. QED
      BY <1>1, <2>2, <2>3, AssignMovesOn DEF OnlyWrites
  <1>13. QED
    BY <1>1, <1>6, <1>7, <1>8, <1>9, <1>10, <1>11, <1>12

-----------------------------------------------------------------------------
(* The other statements *)

LEMMA LockAssignmentRuns ==
    ASSUME Connections, NEW x \in Txs, LockAssignment(x), ~Rollback(x), TheLease(x) \in Assignments
    PROVE  /\ Ran(x) /\ OnlyWrites(x, "none") /\ Wants(x) \subseteq RowLock
           /\ Holds(locks', x, AssignmentRow(TheLease(x)), "update")
           /\ IF assignments[TheLease(x)].status = "pending_payment"
              THEN txs'[x] = Following(x) ELSE txs'[x] = Ending(x) /\ ~Open(x, "cancel")
           /\ AssignmentOf(txs[x].owner, TheLease(x))
  <1>1. /\ Label(x) = "LockAssignment" /\ Ran(x) /\ writes'[x] = writes[x] /\ Found(x)
        /\ IF assignments[TheLease(x)].status = "pending_payment"
           THEN txs'[x] = Following(x) ELSE txs'[x] = Ending(x) /\ ~Open(x, "cancel")
    BY DEF LockAssignment, Statement, Ran, Connections
  <1>2. AssignmentOf(txs[x].owner, TheLease(x))
    BY <1>1 DEF Found
  <1>3. QED
    BY <1>1, <1>2, WantsAssignmentRow, LockModes, LocksTaken, RowTypesOfLocks, NothingWritten DEF Mode

LEMMA UpdateAssignmentRuns ==
    ASSUME Connections, NEW x \in Txs, UpdateAssignment(x), ~Rollback(x),
           TheLease(x) \in Assignments, DOMAIN writes[x].assignments = {}
    PROVE  /\ Ran(x) /\ txs'[x] = Following(x) /\ OnlyWrites(x, "assignments")
           /\ Wants(x) \subseteq RowLock
           /\ Wrote(writes'[x].assignments, TheLease(x),
                    SetStatus(assignments[TheLease(x)], StatusAfter[txs[x].kind].assignment))
  <1>1. /\ Label(x) = "UpdateAssignment" /\ Ran(x) /\ txs'[x] = Following(x) /\ Found(x)
    BY DEF UpdateAssignment, Write, Statement, Ran, Connections
  <1>2. writes'[x] = PutIn(writes[x], "assignments", TheLease(x),
                      SetStatus(assignments[TheLease(x)], StatusAfter[txs[x].kind].assignment))
    BY DEF PutIn, UpdateAssignment, Write, Statement, Ran, Connections, SetStatus
  <1>3. Wants(x) \subseteq RowLock
    BY <1>1, WantsAssignmentRow, LockModes, RowTypesOfLocks DEF Mode
  <1>4. /\ OnlyWrites(x, "assignments")
        /\ Wrote(writes'[x].assignments, TheLease(x),
                 SetStatus(assignments[TheLease(x)], StatusAfter[txs[x].kind].assignment))
    BY <1>2, BufferPut, Tables
  <1>5. QED
    BY <1>1, <1>3, <1>4

LEMMA CancelBillsRuns ==
    ASSUME Connections, NEW x \in Txs, CancelBills(x), ~Rollback(x)
    PROVE  /\ Ran(x) /\ txs'[x] = Following(x) /\ OnlyWrites(x, "bills") /\ Wants(x) \subseteq RowLock
           /\ DOMAIN writes'[x].bills = BillsToCancel(TheLease(x))
           /\ \A b \in BillsToCancel(TheLease(x)) :
                 /\ writes'[x].bills[b] = SetStatus(bills[b], "cancelled")
                 /\ Owns(locks', x, BillRow(b))
  <1> DEFINE B == BillsToCancel(TheLease(x))
             new == [b \in B |-> SetStatus(bills[b], "cancelled")]
  <1>1. /\ Label(x) = "CancelBills" /\ Ran(x) /\ txs'[x] = Following(x) /\ Found(x)
    BY DEF CancelBills, Statement, Ran, Connections
  <1>2. writes'[x] = [writes[x] EXCEPT !.bills = new]
    BY DEF CancelBills, Statement, Connections, SetStatus
  <1>3. DOMAIN writes[x] = DOMAIN NoWrites /\ "bills" \in DOMAIN NoWrites
    BY Tables DEF Connections
  <1>4. OnlyWrites(x, "bills") /\ writes'[x].bills = new
    BY <1>2, <1>3, Tables DEF OnlyWrites
  <1>5. Wants(x) = {[tx |-> x, row |-> row, mode |-> "no key update"] : row \in {BillRow(b) : b \in B}}
    BY <1>1, WantsBills
  <1>6. B \subseteq BillKeys
    BY DEF BillsToCancel
  <1>7. Wants(x) \subseteq RowLock
    BY <1>5, <1>6, RowTypesOfLocks DEF Mode
  <1>8. \A b \in B : Owns(locks', x, BillRow(b))
    <2>1. \A b \in B : [tx |-> x, row |-> BillRow(b), mode |-> "no key update"] \in Wants(x)
      BY <1>5
    <2>2. QED
      BY <1>1, <2>1, LocksTaken DEF Owns
  <1>9. QED
    BY <1>1, <1>4, <1>7, <1>8

LEMMA LockBillRuns ==
    ASSUME Connections, NEW x \in Txs, LockBill(x), ~Rollback(x), TheBill(x) \in BillKeys
    PROVE  /\ Ran(x) /\ txs'[x] = Following(x) /\ OnlyWrites(x, "none") /\ Wants(x) \subseteq RowLock
           /\ Holds(locks', x, BillRow(TheBill(x)), "update")
           /\ Open(x, "record") => Payable(txs[x].owner, TheBill(x), txs[x].amount)
           /\ ~Open(x, "record") => /\ NeedsCheckout(TheBill(x))
                                    /\ Len(checkouts[TheBill(x)]) < MaxCheckouts
  <1>1. /\ Label(x) = "LockBill" /\ Ran(x) /\ writes'[x] = writes[x] /\ Found(x)
        /\ txs'[x] = Following(x)
    BY DEF LockBill, Lock, Statement, Ran, Connections
  <1>2. /\ Open(x, "record") => Payable(txs[x].owner, TheBill(x), txs[x].amount)
        /\ ~Open(x, "record") => /\ NeedsCheckout(TheBill(x))
                                 /\ Len(checkouts[TheBill(x)]) < MaxCheckouts
    BY DEF LockBill, Lock, Statement
  <1>3. QED
    BY <1>1, <1>2, WantsBillRow, LockModes, LocksTaken, RowTypesOfLocks, NothingWritten DEF Mode

LEMMA InsertPaymentRuns ==
    ASSUME Connections, NEW x \in Txs, InsertPayment(x), ~Rollback(x), DOMAIN writes[x].payments = {}
    PROVE  /\ Ran(x) /\ txs'[x] = Following(x) /\ OnlyWrites(x, "payments")
           /\ Wants(x) \subseteq RowLock /\ payments[TheBill(x)] = <<>>
           /\ Wrote(writes'[x].payments, TheBill(x),
                    WithPayment(TheBill(x), txs[x].amount))
  <1>1. /\ Label(x) = "InsertPayment" /\ Ran(x) /\ txs'[x] = Following(x)
        /\ payments[TheBill(x)] = <<>>
        /\ writes'[x] = PutIn(writes[x], "payments", TheBill(x),
              WithPayment(TheBill(x), txs[x].amount))
    BY DEF PutIn, WithPayment, InsertPayment, Write, Statement, Ran, Connections
  <1>2. QED
    BY <1>1, WantsNone, BufferPut, Tables

LEMMA InsertCheckoutRuns ==
    ASSUME Connections, NEW x \in Txs, InsertCheckout(x), ~Rollback(x),
           DOMAIN writes[x].checkouts = {}
    PROVE  /\ Ran(x) /\ txs'[x] = Following(x) /\ OnlyWrites(x, "checkouts")
           /\ Wants(x) \subseteq RowLock
           /\ Wrote(writes'[x].checkouts, TheBill(x),
                    WithCheckout(txs[x].owner, TheBill(x)))
  <1>1. /\ Label(x) = "InsertCheckout" /\ Ran(x) /\ txs'[x] = Following(x)
        /\ writes'[x] = PutIn(writes[x], "checkouts", TheBill(x),
              WithCheckout(txs[x].owner, TheBill(x)))
    BY DEF PutIn, WithCheckout, InsertCheckout, Write, Statement, Ran, Connections
  <1>2. QED
    BY <1>1, WantsNone, BufferPut, Tables

LEMMA UpdateBillRuns ==
    ASSUME Connections, NEW x \in Txs, UpdateBill(x), ~Rollback(x), TheBill(x) \in BillKeys,
           DOMAIN writes[x].bills = {}
    PROVE  /\ Ran(x) /\ txs'[x] = Following(x) /\ OnlyWrites(x, "bills") /\ Wants(x) \subseteq RowLock
           /\ Wrote(writes'[x].bills, TheBill(x),
                    SetStatus(bills[TheBill(x)], StatusAfter[txs[x].kind].bill))
  <1>1. /\ Label(x) = "UpdateBill" /\ Ran(x) /\ txs'[x] = Following(x) /\ Found(x)
    BY DEF UpdateBill, Write, Statement, Ran, Connections
  <1>2. writes'[x] = PutIn(writes[x], "bills", TheBill(x),
                            SetStatus(bills[TheBill(x)], StatusAfter[txs[x].kind].bill))
    BY DEF PutIn, UpdateBill, Write, Statement, Ran, Connections, SetStatus
  <1>3. Wants(x) \subseteq RowLock
    BY <1>1, WantsBillRow, LockModes, RowTypesOfLocks DEF Mode
  <1>4. /\ OnlyWrites(x, "bills")
        /\ Wrote(writes'[x].bills, TheBill(x),
                 SetStatus(bills[TheBill(x)], StatusAfter[txs[x].kind].bill))
    BY <1>2, BufferPut, Tables
  <1>5. QED
    BY <1>1, <1>3, <1>4

LEMMA TenantKeyRuns ==
    ASSUME Connections, NEW x \in Txs, TenantKey(x), ~Rollback(x), TheRow(x).tenant \in Tenants
    PROVE  Ran(x) /\ txs'[x] = Following(x) /\ OnlyWrites(x, "none") /\ Wants(x) \subseteq RowLock
  <1>1. /\ Label(x) = "TenantKey" /\ Ran(x) /\ writes'[x] = writes[x] /\ txs'[x] = Following(x)
    BY DEF TenantKey, Lock, Statement, Ran, Connections
  <1>2. Wants(x) = {[tx |-> x, mode |-> "key share", row |-> TenantRow(TheRow(x).tenant)]}
    BY <1>1, WantsKey
  <1>3. QED
    BY <1>1, <1>2, RowTypesOfLocks, NothingWritten DEF Mode

LEMMA RoomKeyRuns ==
    ASSUME Connections, NEW x \in Txs, RoomKey(x), ~Rollback(x), TheRow(x).room \in Rooms
    PROVE  Ran(x) /\ txs'[x] = Following(x) /\ OnlyWrites(x, "none") /\ Wants(x) \subseteq RowLock
  <1>1. /\ Label(x) = "RoomKey" /\ Ran(x) /\ writes'[x] = writes[x] /\ txs'[x] = Following(x)
    BY DEF RoomKey, Lock, Statement, Ran, Connections
  <1>2. Wants(x) = {[tx |-> x, mode |-> "key share", row |-> RoomRow(TheRow(x).room)]}
    BY <1>1, WantsKey
  <1>3. QED
    BY <1>1, <1>2, RowTypesOfLocks, NothingWritten DEF Mode

LEMMA AssignmentKeyRuns ==
    ASSUME Connections, NEW x \in Txs, AssignmentKey(x), ~Rollback(x), TheLease(x) \in Assignments
    PROVE  Ran(x) /\ txs'[x] = NextBill(x) /\ OnlyWrites(x, "none") /\ Wants(x) \subseteq RowLock
  <1>1. /\ Label(x) = "AssignmentKey" /\ Ran(x) /\ writes'[x] = writes[x] /\ txs'[x] = NextBill(x)
        /\ Found(x)
    BY DEF AssignmentKey, Statement, Ran, Connections
  <1>2. QED
    BY <1>1, WantsAssignmentRow, LockModes, RowTypesOfLocks, NothingWritten DEF Mode

-----------------------------------------------------------------------------
(* The statements of a cancellation *)

LEMMA CancelSubject ==
    ASSUME NEW x \in Txs, Open(x, "cancel")
    PROVE  TheLease(x) = txs[x].lease /\ TheRow(x) = assignments[txs[x].lease]
  BY DEF Open, TheRow, TheLease

LEMMA CancelFollowing ==
    ASSUME Connections, NEW x \in Txs, Open(x, "cancel"), txs[x].pc < 6
    PROVE  /\ Following(x) \in Tx /\ Following(x) # Absent
           /\ Following(x).kind = "cancel" /\ Following(x).owner = txs[x].owner
           /\ Following(x).lease = txs[x].lease /\ Following(x).pc = txs[x].pc + 1
  <1>1. Following(x) \in [kind : {"cancel"}, owner : Owners, lease : Assignments, pc : 1 .. 6]
        /\ Following(x).pc = txs[x].pc + 1
    BY DEF Connections, Tx, Open, Following
  <1>2. QED
    BY <1>1, CancelTx, NoTxAssumption DEF Tx, Following

LEMMA CancelStep ==
    ASSUME NEW x, NEW tx, NEW w, NEW L, NEW tx2, NEW w2, NEW L2, CancelAt(x, tx, w, L),
           tx.pc \in 1 .. 5, tx2.owner = tx.owner, tx2.lease = tx.lease, tx2.pc = tx.pc + 1,
           \A row, mode : Holds(L, x, row, mode) => Holds(L2, x, row, mode),
           \A row : Owns(L, x, row) => Owns(L2, x, row),
           tx.pc = 1 => /\ Holds(L2, x, AssignmentRow(tx.lease), "update")
                        /\ assignments[tx.lease].status = "pending_payment",
           tx.pc = 4 => /\ Owns(L2, x, RoomRow(assignments[tx.lease].room))
                        /\ RoomVisible(tx.owner, assignments[tx.lease].room),
           tx.pc = 5 => /\ Owns(L2, x, TenantRow(assignments[tx.lease].tenant))
                        /\ TenantVisible(tx.owner, assignments[tx.lease].tenant),
           IF tx.pc = 2
           THEN Wrote(w2.assignments, tx.lease, SetStatus(assignments[tx.lease], "cancelled"))
           ELSE w2.assignments = w.assignments,
           IF tx.pc = 3
           THEN /\ DOMAIN w2.bills = BillsToCancel(tx.lease)
                /\ \A b \in BillsToCancel(tx.lease) :
                      /\ w2.bills[b] = SetStatus(bills[b], "cancelled")
                      /\ Owns(L2, x, BillRow(b))
           ELSE w2.bills = w.bills,
           IF tx.pc = 4
           THEN Wrote(w2.rooms, assignments[tx.lease].room,
                      SetStatus(rooms[assignments[tx.lease].room], "available"))
           ELSE w2.rooms = w.rooms,
           IF tx.pc = 5
           THEN Wrote(w2.tenants, assignments[tx.lease].tenant,
                      SetStatus(tenants[assignments[tx.lease].tenant], "pending_payment"))
           ELSE w2.tenants = w.tenants,
           w2.payments = w.payments, w2.checkouts = w.checkouts
    PROVE  CancelAt(x, tx2, w2, L2)
  <1> DEFINE r == assignments[tx2.lease].room
             t == assignments[tx2.lease].tenant
  <1>1. AssignmentOf(tx2.owner, tx2.lease)
    BY DEF CancelAt
  <1>2. tx2.pc > 1 => /\ Holds(L2, x, AssignmentRow(tx2.lease), "update")
                      /\ assignments[tx2.lease].status = "pending_payment"
    BY DEF CancelAt
  <1>3. tx2.pc > 3 => \A b \in BillsToCancel(tx2.lease) : Owns(L2, x, BillRow(b))
    BY DEF CancelAt
  <1>4. tx2.pc > 4 => Owns(L2, x, RoomRow(r)) /\ RoomVisible(tx2.owner, r)
    BY DEF CancelAt
  <1>5. tx2.pc > 5 => Owns(L2, x, TenantRow(t)) /\ TenantVisible(tx2.owner, t)
    BY DEF CancelAt
  <1>6. /\ WroteAt(w.assignments, 2, tx.pc, tx.lease, SetStatus(assignments[tx.lease], "cancelled"))
        /\ WroteAt(w.rooms, 4, tx.pc, r, SetStatus(rooms[r], "available"))
        /\ WroteAt(w.tenants, 5, tx.pc, t, SetStatus(tenants[t], "pending_payment"))
        /\ DOMAIN w.payments = {} /\ DOMAIN w.checkouts = {}
    BY DEF CancelAt
  <1>7. WroteAt(w2.assignments, 2, tx2.pc, tx2.lease, SetStatus(assignments[tx2.lease], "cancelled"))
    BY <1>6, WroteNext
  <1>8. WroteAt(w2.rooms, 4, tx2.pc, r, SetStatus(rooms[r], "available"))
    BY <1>6, WroteNext
  <1>9. WroteAt(w2.tenants, 5, tx2.pc, t, SetStatus(tenants[t], "pending_payment"))
    BY <1>6, WroteNext
  <1>10. /\ DOMAIN w2.bills = IF tx2.pc > 3 THEN BillsToCancel(tx2.lease) ELSE {}
         /\ \A b \in DOMAIN w2.bills : w2.bills[b] = SetStatus(bills[b], "cancelled")
    <2>1. /\ DOMAIN w.bills = IF tx.pc > 3 THEN BillsToCancel(tx.lease) ELSE {}
          /\ \A b \in DOMAIN w.bills : w.bills[b] = SetStatus(bills[b], "cancelled")
      BY DEF CancelAt
    <2>2. QED
      BY <2>1
  <1>11. QED
    BY <1>1, <1>2, <1>3, <1>4, <1>5, <1>6, <1>7, <1>8, <1>9, <1>10 DEF CancelAt

LEMMA CancelMovesOn ==
    ASSUME Connections, NEW x \in Txs, Open(x, "cancel"), txs[x].pc < 6, Ran(x),
           txs'[x] = Following(x), DOMAIN writes'[x] = DOMAIN NoWrites,
           Wants(x) \subseteq RowLock, CancelAt(x, txs'[x], writes'[x], locks')
    PROVE  Moves(x)
  BY CancelFollowing, CancelTx DEF Moves, ProgressAt, Open

LEMMA CancelRuns ==
    ASSUME Base, Connections, NEW x \in Txs, Open(x, "cancel"), txs[x].pc < 6, Execute(x),
           ~Rollback(x), CancelAt(x, txs[x], writes[x], locks)
    PROVE  Moves(x)
  <1> DEFINE a == txs[x].lease
             r == assignments[a].room
             t == assignments[a].tenant
  <1>1. /\ TheRow(x) = assignments[a] /\ TheLease(x) = a
        /\ txs[x].owner \in Owners /\ a \in Assignments /\ txs[x].kind = "cancel"
        /\ txs[x].pc \in 1 .. 5
    BY CancelSubject, CancelTx
  <1>2. r \in Rooms /\ t \in Tenants
    BY <1>1 DEF CancelAt, AssignmentOf, Base, TypeOK, Assignment
  <1>3. /\ StatusAfter["cancel"].room = "available" /\ StatusAfter["cancel"].tenant = "pending_payment"
        /\ StatusAfter["cancel"].assignment = "cancelled"
    BY DEF StatusAfter
  <1>4. /\ DOMAIN writes[x].assignments = IF txs[x].pc > 2 THEN {a} ELSE {}
        /\ DOMAIN writes[x].rooms = IF txs[x].pc > 4 THEN {r} ELSE {}
        /\ DOMAIN writes[x].tenants = IF txs[x].pc > 5 THEN {t} ELSE {}
    BY DEF CancelAt, WroteAt, Wrote
  <1>5. ASSUME txs'[x] = Following(x), Ran(x)
        PROVE  /\ txs'[x].owner = txs[x].owner /\ txs'[x].lease = a /\ txs'[x].pc = txs[x].pc + 1
               /\ \A row, mode : Holds(locks, x, row, mode) => Holds(locks', x, row, mode)
               /\ \A row : Owns(locks, x, row) => Owns(locks', x, row)
    BY <1>5, CancelFollowing, LocksTaken
  <1>6. CASE txs[x].pc = 1
    <2>1. LockAssignment(x)
      BY <1>6, CancelLabels, Dispatch
    <2>2. /\ Ran(x) /\ txs'[x] = Following(x) /\ OnlyWrites(x, "none") /\ Wants(x) \subseteq RowLock
          /\ Holds(locks', x, AssignmentRow(a), "update") /\ assignments[a].status = "pending_payment"
      BY <1>1, <2>1, LockAssignmentRuns
    <2>3. CancelAt(x, txs'[x], writes'[x], locks')
      BY <1>1, <1>5, <1>6, <2>2, CancelStep DEF OnlyWrites
    <2>4. QED
      BY <1>1, <2>2, <2>3, CancelMovesOn DEF OnlyWrites
  <1>7. CASE txs[x].pc = 2
    <2>1. UpdateAssignment(x)
      BY <1>7, CancelLabels, Dispatch
    <2>2. /\ Ran(x) /\ txs'[x] = Following(x) /\ OnlyWrites(x, "assignments")
          /\ Wants(x) \subseteq RowLock
          /\ Wrote(writes'[x].assignments, a, SetStatus(assignments[a], "cancelled"))
      BY <1>1, <1>3, <1>4, <1>7, <2>1, UpdateAssignmentRuns
    <2>3. CancelAt(x, txs'[x], writes'[x], locks')
      BY <1>1, <1>5, <1>7, <2>2, CancelStep DEF OnlyWrites
    <2>4. QED
      BY <1>1, <2>2, <2>3, CancelMovesOn DEF OnlyWrites
  <1>8. CASE txs[x].pc = 3
    <2>1. CancelBills(x)
      BY <1>8, CancelLabels, Dispatch
    <2>2. /\ Ran(x) /\ txs'[x] = Following(x) /\ OnlyWrites(x, "bills") /\ Wants(x) \subseteq RowLock
          /\ DOMAIN writes'[x].bills = BillsToCancel(a)
          /\ \A b \in BillsToCancel(a) : /\ writes'[x].bills[b] = SetStatus(bills[b], "cancelled")
                                         /\ Owns(locks', x, BillRow(b))
      BY <1>1, <2>1, CancelBillsRuns
    <2>3. CancelAt(x, txs'[x], writes'[x], locks')
      BY <1>1, <1>5, <1>8, <2>2, CancelStep DEF OnlyWrites
    <2>4. QED
      BY <1>1, <2>2, <2>3, CancelMovesOn DEF OnlyWrites
  <1>9. CASE txs[x].pc = 4
    <2>1. UpdateRoom(x)
      BY <1>9, CancelLabels, Dispatch
    <2>2. /\ Ran(x) /\ txs'[x] = Following(x) /\ OnlyWrites(x, "rooms") /\ Wants(x) \subseteq RowLock
          /\ RoomVisible(txs[x].owner, r) /\ Owns(locks', x, RoomRow(r))
          /\ Wrote(writes'[x].rooms, r, SetStatus(rooms[r], "available"))
      BY <1>1, <1>2, <1>3, <1>4, <1>9, <2>1, UpdateRoomRuns
    <2>3. CancelAt(x, txs'[x], writes'[x], locks')
      BY <1>1, <1>5, <1>9, <2>2, CancelStep DEF OnlyWrites
    <2>4. QED
      BY <1>1, <2>2, <2>3, CancelMovesOn DEF OnlyWrites
  <1>10. CASE txs[x].pc = 5
    <2>1. UpdateTenant(x)
      BY <1>10, CancelLabels, Dispatch
    <2>2. /\ Ran(x) /\ txs'[x] = Following(x) /\ OnlyWrites(x, "tenants") /\ Wants(x) \subseteq RowLock
          /\ TenantVisible(txs[x].owner, t) /\ Owns(locks', x, TenantRow(t))
          /\ Wrote(writes'[x].tenants, t, SetStatus(tenants[t], "pending_payment"))
      BY <1>1, <1>2, <1>3, <1>4, <1>10, <2>1, UpdateTenantRuns
    <2>3. CancelAt(x, txs'[x], writes'[x], locks')
      BY <1>1, <1>5, <1>10, <2>2, CancelStep DEF OnlyWrites
    <2>4. QED
      BY <1>1, <2>2, <2>3, CancelMovesOn DEF OnlyWrites
  <1>11. QED
    BY <1>1, <1>6, <1>7, <1>8, <1>9, <1>10

-----------------------------------------------------------------------------
(* The statements of a checkout *)

LEMMA CheckoutSubject ==
    ASSUME NEW x \in Txs, Open(x, "checkout")
    PROVE  /\ TheBill(x) = txs[x].bill /\ TheRow(x) = bills[txs[x].bill]
           /\ ~Open(x, "record")
  BY DEF Open, TheRow, TheBill

LEMMA CheckoutFollowing ==
    ASSUME Connections, NEW x \in Txs, Open(x, "checkout"), txs[x].pc < 5
    PROVE  /\ Following(x) \in Tx /\ Following(x) # Absent
           /\ Following(x).kind = "checkout" /\ Following(x).owner = txs[x].owner
           /\ Following(x).bill = txs[x].bill /\ Following(x).tenant = txs[x].tenant
           /\ Following(x).pc = txs[x].pc + 1
  <1>1. Following(x) \in [kind : {"checkout"}, owner : Owners, tenant : Tenants, bill : BillKeys,
                          pc : 1 .. 5]
        /\ Following(x).pc = txs[x].pc + 1
    BY DEF Connections, Tx, Open, Following
  <1>2. QED
    BY <1>1, CheckoutTx, NoTxAssumption DEF Tx, Following

LEMMA CheckoutStep ==
    ASSUME NEW x, NEW tx, NEW w, NEW L, NEW tx2, NEW w2, NEW L2, CheckoutAt(x, tx, w, L),
           tx.pc \in 1 .. 4, tx2.owner = tx.owner, tx2.bill = tx.bill, tx2.tenant = tx.tenant,
           tx2.pc = tx.pc + 1,
           \A row, mode : Holds(L, x, row, mode) => Holds(L2, x, row, mode),
           tx.pc = 1 => /\ Holds(L2, x, BillRow(tx.bill), "update")
                        /\ NeedsCheckout(tx.bill) /\ Len(checkouts[tx.bill]) < MaxCheckouts,
           IF tx.pc = 2
           THEN Wrote(w2.checkouts, tx.bill,
                      WithCheckout(tx.owner, tx.bill))
           ELSE w2.checkouts = w.checkouts,
           IF tx.pc = 4
           THEN Wrote(w2.bills, tx.bill, SetStatus(bills[tx.bill], "gateway_pending"))
           ELSE w2.bills = w.bills,
           w2.rooms = w.rooms, w2.tenants = w.tenants, w2.assignments = w.assignments,
           w2.payments = w.payments
    PROVE  CheckoutAt(x, tx2, w2, L2)
  <1> DEFINE b == tx.bill
  <1>1. TenantBillOf(tx.owner, tx.tenant, b)
    BY DEF CheckoutAt
  <1>2. tx2.pc > 1 => /\ Holds(L2, x, BillRow(b), "update")
                      /\ NeedsCheckout(b) /\ Len(checkouts[b]) < MaxCheckouts
    BY DEF CheckoutAt
  <1>3. /\ WroteAt(w.checkouts, 2, tx.pc, b, WithCheckout(tx.owner, b))
        /\ WroteAt(w.bills, 4, tx.pc, b, SetStatus(bills[b], "gateway_pending"))
        /\ DOMAIN w.rooms = {} /\ DOMAIN w.tenants = {}
        /\ DOMAIN w.assignments = {} /\ DOMAIN w.payments = {}
    BY DEF CheckoutAt
  <1>4. WroteAt(w2.checkouts, 2, tx2.pc, b, WithCheckout(tx.owner, b))
    BY <1>3 DEF WroteAt
  <1>5. WroteAt(w2.bills, 4, tx2.pc, b, SetStatus(bills[b], "gateway_pending"))
    BY <1>3 DEF WroteAt
  <1>6. QED
    BY <1>1, <1>2, <1>3, <1>4, <1>5 DEF CheckoutAt

LEMMA CheckoutMovesOn ==
    ASSUME Connections, NEW x \in Txs, Open(x, "checkout"), txs[x].pc < 5, Ran(x),
           txs'[x] = Following(x), DOMAIN writes'[x] = DOMAIN NoWrites,
           Wants(x) \subseteq RowLock, CheckoutAt(x, txs'[x], writes'[x], locks')
    PROVE  Moves(x)
  BY CheckoutFollowing, CheckoutTx DEF Moves, ProgressAt, Open

LEMMA CheckoutRuns ==
    ASSUME Base, Connections, NEW x \in Txs, Open(x, "checkout"), txs[x].pc < 5, Execute(x),
           ~Rollback(x), CheckoutAt(x, txs[x], writes[x], locks)
    PROVE  Moves(x)
  <1> DEFINE b == txs[x].bill
  <1>1. /\ TheRow(x) = bills[b] /\ TheBill(x) = b /\ ~Open(x, "record")
        /\ txs[x].owner \in Owners /\ b \in BillKeys /\ txs[x].kind = "checkout"
        /\ txs[x].pc \in 1 .. 4
    BY CheckoutSubject, CheckoutTx
  <1>2. bills[b].tenant \in Tenants
    BY <1>1 DEF CheckoutAt, TenantBillOf, BillOf, Base, TypeOK, Bill
  <1>3. StatusAfter["checkout"].bill = "gateway_pending"
    BY DEF StatusAfter
  <1>4. /\ DOMAIN writes[x].checkouts = IF txs[x].pc > 2 THEN {b} ELSE {}
        /\ DOMAIN writes[x].bills = IF txs[x].pc > 4 THEN {b} ELSE {}
    BY DEF CheckoutAt, WroteAt, Wrote
  <1>5. ASSUME txs'[x] = Following(x), Ran(x)
        PROVE  /\ txs'[x].owner = txs[x].owner /\ txs'[x].bill = b
               /\ txs'[x].tenant = txs[x].tenant /\ txs'[x].pc = txs[x].pc + 1
               /\ \A row, mode : Holds(locks, x, row, mode) => Holds(locks', x, row, mode)
    BY <1>5, CheckoutFollowing, LocksTaken
  <1>6. CASE txs[x].pc = 1
    <2>1. LockBill(x)
      BY <1>6, CheckoutLabels, Dispatch
    <2>2. /\ Ran(x) /\ txs'[x] = Following(x) /\ OnlyWrites(x, "none") /\ Wants(x) \subseteq RowLock
          /\ Holds(locks', x, BillRow(b), "update")
          /\ NeedsCheckout(b) /\ Len(checkouts[b]) < MaxCheckouts
      BY <1>1, <2>1, LockBillRuns
    <2>3. CheckoutAt(x, txs'[x], writes'[x], locks')
      BY <1>1, <1>5, <1>6, <2>2, CheckoutStep DEF OnlyWrites
    <2>4. QED
      BY <1>1, <2>2, <2>3, CheckoutMovesOn DEF OnlyWrites
  <1>7. CASE txs[x].pc = 2
    <2>1. InsertCheckout(x)
      BY <1>7, CheckoutLabels, Dispatch
    <2>2. /\ Ran(x) /\ txs'[x] = Following(x) /\ OnlyWrites(x, "checkouts")
          /\ Wants(x) \subseteq RowLock
          /\ Wrote(writes'[x].checkouts, b, WithCheckout(txs[x].owner, b))
      BY <1>1, <1>4, <1>7, <2>1, InsertCheckoutRuns
    <2>3. CheckoutAt(x, txs'[x], writes'[x], locks')
      BY <1>1, <1>5, <1>7, <2>2, CheckoutStep DEF OnlyWrites
    <2>4. QED
      BY <1>1, <2>2, <2>3, CheckoutMovesOn DEF OnlyWrites
  <1>8. CASE txs[x].pc = 3
    <2>1. TenantKey(x)
      BY <1>8, CheckoutLabels, Dispatch
    <2>2. Ran(x) /\ txs'[x] = Following(x) /\ OnlyWrites(x, "none") /\ Wants(x) \subseteq RowLock
      BY <1>1, <1>2, <2>1, TenantKeyRuns
    <2>3. CheckoutAt(x, txs'[x], writes'[x], locks')
      BY <1>1, <1>5, <1>8, <2>2, CheckoutStep DEF OnlyWrites
    <2>4. QED
      BY <1>1, <2>2, <2>3, CheckoutMovesOn DEF OnlyWrites
  <1>9. CASE txs[x].pc = 4
    <2>1. UpdateBill(x)
      BY <1>9, CheckoutLabels, Dispatch
    <2>2. /\ Ran(x) /\ txs'[x] = Following(x) /\ OnlyWrites(x, "bills") /\ Wants(x) \subseteq RowLock
          /\ Wrote(writes'[x].bills, b, SetStatus(bills[b], "gateway_pending"))
      BY <1>1, <1>3, <1>4, <1>9, <2>1, UpdateBillRuns
    <2>3. CheckoutAt(x, txs'[x], writes'[x], locks')
      BY <1>1, <1>5, <1>9, <2>2, CheckoutStep DEF OnlyWrites
    <2>4. QED
      BY <1>1, <2>2, <2>3, CheckoutMovesOn DEF OnlyWrites
  <1>10. QED
    BY <1>1, <1>6, <1>7, <1>8, <1>9

-----------------------------------------------------------------------------
(* The statements of a payment *)

LEMMA RecordSubject ==
    ASSUME NEW x \in Txs, Open(x, "record")
    PROVE  /\ TheBill(x) = txs[x].bill /\ TheRow(x) = bills[txs[x].bill]
           /\ TheLease(x) = txs[x].bill[1] /\ ~Open(x, "cancel")
  BY DEF Open, TheRow, TheBill, TheLease

LEMMA RecordFollowing ==
    ASSUME Connections, NEW x \in Txs, Open(x, "record"), txs[x].pc < 10
    PROVE  /\ Following(x) \in Tx /\ Following(x) # Absent
           /\ Following(x).kind = "record" /\ Following(x).owner = txs[x].owner
           /\ Following(x).bill = txs[x].bill /\ Following(x).amount = txs[x].amount
           /\ Following(x).pc = txs[x].pc + 1
  <1>1. Following(x) \in [kind : {"record"}, owner : Owners, bill : BillKeys, amount : Rents,
                          pc : 1 .. 10]
        /\ Following(x).pc = txs[x].pc + 1
    BY DEF Connections, Tx, Open, Following
  <1>2. QED
    BY <1>1, RecordTx, NoTxAssumption DEF Tx, Following

LEMMA RecordEnding ==
    ASSUME Connections, NEW x \in Txs, Open(x, "record")
    PROVE  /\ Ending(x) \in Tx /\ Ending(x) # Absent
           /\ Ending(x).kind = "record" /\ Ending(x).owner = txs[x].owner
           /\ Ending(x).bill = txs[x].bill /\ Ending(x).amount = txs[x].amount
           /\ Ending(x).pc = 10
  <1>1. Len(Program["record"]) = 10
    BY DEF Program
  <1>2. Ending(x) \in [kind : {"record"}, owner : Owners, bill : BillKeys, amount : Rents,
                       pc : 1 .. 10]
        /\ Ending(x).pc = 10
    BY <1>1 DEF Connections, Tx, Open, Ending
  <1>3. QED
    BY <1>2, RecordTx, NoTxAssumption DEF Tx, Ending

LEMMA RecordStep ==
    ASSUME NEW x, NEW tx, NEW w, NEW L, NEW tx2, NEW w2, NEW L2, RecordAt(x, tx, w, L),
           tx.pc \in 1 .. 9, tx2.owner = tx.owner, tx2.bill = tx.bill, tx2.amount = tx.amount,
           \/ tx2.pc = tx.pc + 1
           \/ tx.pc = 6 /\ tx2.pc = 10 /\ assignments[tx.bill[1]].status # "pending_payment",
           \A row, mode : Holds(L, x, row, mode) => Holds(L2, x, row, mode),
           \A row : Owns(L, x, row) => Owns(L2, x, row),
           tx.pc = 1 => /\ Holds(L2, x, BillRow(tx.bill), "update")
                        /\ Payable(tx.owner, tx.bill, tx.amount),
           tx.pc = 2 => payments[tx.bill] = <<>>,
           tx.pc = 6 => Holds(L2, x, AssignmentRow(tx.bill[1]), "update"),
           tx.pc = 6 /\ tx2.pc = 7 => assignments[tx.bill[1]].status = "pending_payment",
           tx.pc = 8 => /\ Owns(L2, x, TenantRow(bills[tx.bill].tenant))
                        /\ TenantVisible(tx.owner, bills[tx.bill].tenant),
           tx.pc = 9 => /\ Owns(L2, x, RoomRow(bills[tx.bill].room))
                        /\ RoomVisible(tx.owner, bills[tx.bill].room),
           IF tx.pc = 2
           THEN Wrote(w2.payments, tx.bill,
                      WithPayment(tx.bill, tx.amount))
           ELSE w2.payments = w.payments,
           IF tx.pc = 5
           THEN Wrote(w2.bills, tx.bill, SetStatus(bills[tx.bill], "paid"))
           ELSE w2.bills = w.bills,
           IF tx.pc = 7
           THEN Wrote(w2.assignments, tx.bill[1], SetStatus(assignments[tx.bill[1]], "active"))
           ELSE w2.assignments = w.assignments,
           IF tx.pc = 8
           THEN Wrote(w2.tenants, bills[tx.bill].tenant,
                      SetStatus(tenants[bills[tx.bill].tenant], "active"))
           ELSE w2.tenants = w.tenants,
           IF tx.pc = 9
           THEN Wrote(w2.rooms, bills[tx.bill].room,
                      SetStatus(rooms[bills[tx.bill].room], "occupied"))
           ELSE w2.rooms = w.rooms,
           w2.checkouts = w.checkouts
    PROVE  RecordAt(x, tx2, w2, L2)
  <1> DEFINE b == tx.bill
             a == tx.bill[1]
             r == bills[b].room
             t == bills[b].tenant
             activates == assignments[a].status = "pending_payment"
  <1>1. BillOf(tx2.owner, b)
    BY DEF RecordAt
  <1>2. tx2.pc > 1 => Holds(L2, x, BillRow(b), "update") /\ Payable(tx2.owner, b, tx2.amount)
    BY DEF RecordAt
  <1>3. tx2.pc > 2 => payments[b] = <<>>
    BY DEF RecordAt
  <1>4. /\ tx2.pc > 6 => Holds(L2, x, AssignmentRow(a), "update")
        /\ tx2.pc \in 7 .. 9 => activates
    BY DEF RecordAt
  <1>5. tx2.pc > 8 /\ activates => Owns(L2, x, TenantRow(t)) /\ TenantVisible(tx2.owner, t)
    BY DEF RecordAt
  <1>6. tx2.pc > 9 /\ activates => Owns(L2, x, RoomRow(r)) /\ RoomVisible(tx2.owner, r)
    BY DEF RecordAt
  <1>7. /\ WroteAt(w.payments, 2, tx.pc, b, WithPayment(b, tx.amount))
        /\ WroteAt(w.bills, 5, tx.pc, b, SetStatus(bills[b], "paid"))
        /\ IF activates
           THEN /\ WroteAt(w.assignments, 7, tx.pc, a, SetStatus(assignments[a], "active"))
                /\ WroteAt(w.tenants, 8, tx.pc, t, SetStatus(tenants[t], "active"))
                /\ WroteAt(w.rooms, 9, tx.pc, r, SetStatus(rooms[r], "occupied"))
           ELSE DOMAIN w.assignments = {} /\ DOMAIN w.tenants = {} /\ DOMAIN w.rooms = {}
        /\ DOMAIN w.checkouts = {}
    BY DEF RecordAt
  <1>8. WroteAt(w2.payments, 2, tx2.pc, b, WithPayment(b, tx2.amount))
    BY <1>7 DEF WroteAt
  <1>9. WroteAt(w2.bills, 5, tx2.pc, b, SetStatus(bills[b], "paid"))
    BY <1>7 DEF WroteAt
  <1>10. tx.pc \in 7 .. 9 => activates
    BY DEF RecordAt
  <1>11. CASE activates
    <2>1. /\ WroteAt(w2.assignments, 7, tx2.pc, a, SetStatus(assignments[a], "active"))
          /\ WroteAt(w2.tenants, 8, tx2.pc, t, SetStatus(tenants[t], "active"))
          /\ WroteAt(w2.rooms, 9, tx2.pc, r, SetStatus(rooms[r], "occupied"))
      BY <1>7, <1>11 DEF WroteAt
    <2>2. QED
      BY <1>1, <1>2, <1>3, <1>4, <1>5, <1>6, <1>7, <1>8, <1>9, <1>11, <2>1 DEF RecordAt
  <1>12. CASE ~activates
    <2>1. DOMAIN w2.assignments = {} /\ DOMAIN w2.tenants = {} /\ DOMAIN w2.rooms = {}
      BY <1>7, <1>10, <1>12
    <2>2. QED
      BY <1>1, <1>2, <1>3, <1>4, <1>5, <1>6, <1>7, <1>8, <1>9, <1>12, <2>1 DEF RecordAt
  <1>13. QED
    BY <1>11, <1>12

LEMMA RecordMovesOn ==
    ASSUME Connections, NEW x \in Txs, Open(x, "record"), txs[x].pc < 10, Ran(x),
           txs'[x] \in {Following(x), Ending(x)}, DOMAIN writes'[x] = DOMAIN NoWrites,
           Wants(x) \subseteq RowLock, RecordAt(x, txs'[x], writes'[x], locks')
    PROVE  Moves(x)
  BY RecordFollowing, RecordEnding, RecordTx DEF Moves, ProgressAt, Open

LEMMA RecordRuns ==
    ASSUME Base, Connections, NEW x \in Txs, Open(x, "record"), txs[x].pc < 10, Execute(x),
           ~Rollback(x), RecordAt(x, txs[x], writes[x], locks)
    PROVE  Moves(x)
  <1> DEFINE b == txs[x].bill
             a == txs[x].bill[1]
             r == bills[b].room
             t == bills[b].tenant
  <1>1. /\ TheRow(x) = bills[b] /\ TheBill(x) = b /\ TheLease(x) = a /\ ~Open(x, "cancel")
        /\ txs[x].owner \in Owners /\ b \in BillKeys /\ a \in Assignments /\ txs[x].kind = "record"
        /\ txs[x].pc \in 1 .. 9
    BY RecordSubject, RecordTx DEF BillKeys
  <1>2. r \in Rooms /\ t \in Tenants
    BY <1>1 DEF RecordAt, BillOf, Base, TypeOK, Bill
  <1>3. /\ StatusAfter["record"].room = "occupied" /\ StatusAfter["record"].tenant = "active"
        /\ StatusAfter["record"].assignment = "active" /\ StatusAfter["record"].bill = "paid"
    BY DEF StatusAfter
  <1>4. /\ DOMAIN writes[x].payments = IF txs[x].pc > 2 THEN {b} ELSE {}
        /\ DOMAIN writes[x].bills = IF txs[x].pc > 5 THEN {b} ELSE {}
        /\ txs[x].pc \in 7 .. 9 => assignments[a].status = "pending_payment"
    BY DEF RecordAt, WroteAt, Wrote
  <1>4a. /\ txs[x].pc < 8 => DOMAIN writes[x].assignments = {}
         /\ txs[x].pc < 9 => DOMAIN writes[x].tenants = {}
         /\ txs[x].pc < 10 => DOMAIN writes[x].rooms = {}
    BY <1>1 DEF RecordAt, WroteAt
  <1>5. ASSUME Ran(x)
        PROVE  /\ txs'[x] = Following(x) =>
                    /\ txs'[x].owner = txs[x].owner /\ txs'[x].bill = b
                    /\ txs'[x].amount = txs[x].amount /\ txs'[x].pc = txs[x].pc + 1
               /\ txs'[x] = Ending(x) =>
                    /\ txs'[x].owner = txs[x].owner /\ txs'[x].bill = b
                    /\ txs'[x].amount = txs[x].amount /\ txs'[x].pc = 10
               /\ \A row, mode : Holds(locks, x, row, mode) => Holds(locks', x, row, mode)
               /\ \A row : Owns(locks, x, row) => Owns(locks', x, row)
    BY <1>5, RecordFollowing, RecordEnding, LocksTaken
  <1>6. CASE txs[x].pc = 1
    <2>1. LockBill(x)
      BY <1>6, RecordLabels, Dispatch
    <2>2. /\ Ran(x) /\ txs'[x] = Following(x) /\ OnlyWrites(x, "none") /\ Wants(x) \subseteq RowLock
          /\ Holds(locks', x, BillRow(b), "update") /\ Payable(txs[x].owner, b, txs[x].amount)
      BY <1>1, <1>6, <2>1, LockBillRuns
    <2>3. RecordAt(x, txs'[x], writes'[x], locks')
      BY <1>1, <1>5, <1>6, <2>2, RecordStep DEF OnlyWrites
    <2>4. QED
      BY <1>1, <2>2, <2>3, RecordMovesOn DEF OnlyWrites
  <1>7. CASE txs[x].pc = 2
    <2>1. InsertPayment(x)
      BY <1>7, RecordLabels, Dispatch
    <2>2. /\ Ran(x) /\ txs'[x] = Following(x) /\ OnlyWrites(x, "payments") /\ Wants(x) \subseteq RowLock
          /\ payments[b] = <<>>
          /\ Wrote(writes'[x].payments, b, WithPayment(b, txs[x].amount))
      BY <1>1, <1>4, <1>7, <2>1, InsertPaymentRuns
    <2>3. RecordAt(x, txs'[x], writes'[x], locks')
      BY <1>1, <1>5, <1>7, <2>2, RecordStep DEF OnlyWrites
    <2>4. QED
      BY <1>1, <2>2, <2>3, RecordMovesOn DEF OnlyWrites
  <1>8. CASE txs[x].pc = 3
    <2>1. TenantKey(x)
      BY <1>8, RecordLabels, Dispatch
    <2>2. /\ Ran(x) /\ txs'[x] = Following(x) /\ OnlyWrites(x, "none") /\ Wants(x) \subseteq RowLock
      BY <1>1, <1>2, <1>8, <2>1, TenantKeyRuns
    <2>3. RecordAt(x, txs'[x], writes'[x], locks')
      BY <1>1, <1>5, <1>8, <2>2, RecordStep DEF OnlyWrites
    <2>4. QED
      BY <1>1, <2>2, <2>3, RecordMovesOn DEF OnlyWrites
  <1>9. CASE txs[x].pc = 4
    <2>1. RoomKey(x)
      BY <1>9, RecordLabels, Dispatch
    <2>2. /\ Ran(x) /\ txs'[x] = Following(x) /\ OnlyWrites(x, "none") /\ Wants(x) \subseteq RowLock
      BY <1>1, <1>2, <1>9, <2>1, RoomKeyRuns
    <2>3. RecordAt(x, txs'[x], writes'[x], locks')
      BY <1>1, <1>5, <1>9, <2>2, RecordStep DEF OnlyWrites
    <2>4. QED
      BY <1>1, <2>2, <2>3, RecordMovesOn DEF OnlyWrites
  <1>10. CASE txs[x].pc = 5
    <2>1. UpdateBill(x)
      BY <1>10, RecordLabels, Dispatch
    <2>2. /\ Ran(x) /\ txs'[x] = Following(x) /\ OnlyWrites(x, "bills") /\ Wants(x) \subseteq RowLock
          /\ Wrote(writes'[x].bills, b, SetStatus(bills[b], "paid"))
      BY <1>1, <1>3, <1>4, <1>10, <2>1, UpdateBillRuns
    <2>3. RecordAt(x, txs'[x], writes'[x], locks')
      BY <1>1, <1>5, <1>10, <2>2, RecordStep DEF OnlyWrites
    <2>4. QED
      BY <1>1, <2>2, <2>3, RecordMovesOn DEF OnlyWrites
  <1>11. CASE txs[x].pc = 6
    <2>1. LockAssignment(x)
      BY <1>11, RecordLabels, Dispatch
    <2>2. /\ Ran(x) /\ OnlyWrites(x, "none") /\ Wants(x) \subseteq RowLock
          /\ Holds(locks', x, AssignmentRow(a), "update")
          /\ IF assignments[a].status = "pending_payment"
             THEN txs'[x] = Following(x) ELSE txs'[x] = Ending(x)
      BY <1>1, <1>11, <2>1, LockAssignmentRuns
    <2>3. RecordAt(x, txs'[x], writes'[x], locks')
      BY <1>1, <1>5, <1>11, <2>2, RecordStep DEF OnlyWrites
    <2>4. QED
      BY <1>1, <1>5, <2>2, <2>3, RecordMovesOn DEF OnlyWrites
  <1>12. CASE txs[x].pc = 7
    <2>1. UpdateAssignment(x)
      BY <1>12, RecordLabels, Dispatch
    <2>2. /\ Ran(x) /\ txs'[x] = Following(x) /\ OnlyWrites(x, "assignments") /\ Wants(x) \subseteq RowLock
          /\ Wrote(writes'[x].assignments, a, SetStatus(assignments[a], "active"))
      BY <1>1, <1>3, <1>4a, <1>12, <2>1, UpdateAssignmentRuns
    <2>3. RecordAt(x, txs'[x], writes'[x], locks')
      BY <1>1, <1>5, <1>12, <2>2, RecordStep DEF OnlyWrites
    <2>4. QED
      BY <1>1, <2>2, <2>3, RecordMovesOn DEF OnlyWrites
  <1>13. CASE txs[x].pc = 8
    <2>1. UpdateTenant(x)
      BY <1>13, RecordLabels, Dispatch
    <2>2. /\ Ran(x) /\ txs'[x] = Following(x) /\ OnlyWrites(x, "tenants") /\ Wants(x) \subseteq RowLock
          /\ TenantVisible(txs[x].owner, t) /\ Owns(locks', x, TenantRow(t))
          /\ Wrote(writes'[x].tenants, t, SetStatus(tenants[t], "active"))
      BY <1>1, <1>2, <1>3, <1>4a, <1>13, <2>1, UpdateTenantRuns
    <2>3. RecordAt(x, txs'[x], writes'[x], locks')
      BY <1>1, <1>5, <1>13, <2>2, RecordStep DEF OnlyWrites
    <2>4. QED
      BY <1>1, <2>2, <2>3, RecordMovesOn DEF OnlyWrites
  <1>14. CASE txs[x].pc = 9
    <2>1. UpdateRoom(x)
      BY <1>14, RecordLabels, Dispatch
    <2>2. /\ Ran(x) /\ txs'[x] = Following(x) /\ OnlyWrites(x, "rooms") /\ Wants(x) \subseteq RowLock
          /\ RoomVisible(txs[x].owner, r) /\ Owns(locks', x, RoomRow(r))
          /\ Wrote(writes'[x].rooms, r, SetStatus(rooms[r], "occupied"))
      BY <1>1, <1>2, <1>3, <1>4a, <1>14, <2>1, UpdateRoomRuns
    <2>3. RecordAt(x, txs'[x], writes'[x], locks')
      BY <1>1, <1>5, <1>14, <2>2, RecordStep DEF OnlyWrites
    <2>4. QED
      BY <1>1, <2>2, <2>3, RecordMovesOn DEF OnlyWrites
  <1>15. QED
    BY <1>1, <1>6, <1>7, <1>8, <1>9, <1>10, <1>11, <1>12, <1>13, <1>14

-----------------------------------------------------------------------------
(* The statements of a monthly run *)

LEMMA ListedNext ==
    ASSUME NEW S, NEW todo \in Seq(S), todo # <<>>
    PROVE  /\ Head(todo) \in S /\ Tail(todo) \in Seq(S) /\ Listed(Head(todo), todo)
           /\ \A b : Listed(b, todo) <=> b = Head(todo) \/ Listed(b, Tail(todo))
  <1>1. Head(todo) \in S /\ Tail(todo) \in Seq(S) /\ Head(todo) = todo[1] /\ 1 \in DOMAIN todo
    OBVIOUS
  <1>2. ASSUME NEW b, Listed(b, todo) PROVE b = Head(todo) \/ Listed(b, Tail(todo))
    <2>1. PICK i \in DOMAIN todo : todo[i] = b
      BY <1>2 DEF Listed
    <2>2. CASE i = 1
      BY <1>1, <2>1, <2>2
    <2>3. CASE i # 1
      <3>1. i - 1 \in DOMAIN Tail(todo) /\ Tail(todo)[i - 1] = todo[i]
        BY <2>3
      <3>2. QED
        BY <2>1, <3>1 DEF Listed
    <2>4. QED
      BY <2>2, <2>3
  <1>3. ASSUME NEW b, Listed(b, Tail(todo)) PROVE Listed(b, todo)
    <2>1. PICK i \in DOMAIN Tail(todo) : Tail(todo)[i] = b
      BY <1>3 DEF Listed
    <2>2. i + 1 \in DOMAIN todo /\ todo[i + 1] = Tail(todo)[i]
      BY <2>1
    <2>3. QED
      BY <2>1, <2>2 DEF Listed
  <1>4. QED
    BY <1>1, <1>2, <1>3 DEF Listed

\* A list in the order of created_at stays so without its head, the oldest of it.
LEMMA OrderedNext ==
    ASSUME NEW todo \in Seq(BillKeys), todo # <<>>,
           \A i, j \in DOMAIN todo : i < j => Older(todo[i], todo[j])
    PROVE  /\ \A i, j \in DOMAIN Tail(todo) : i < j => Older(Tail(todo)[i], Tail(todo)[j])
           /\ \A c : Listed(c, todo) => Older(Head(todo), c)
  <1>1. \A i \in DOMAIN Tail(todo) : i + 1 \in DOMAIN todo /\ Tail(todo)[i] = todo[i + 1]
    OBVIOUS
  <1>2. DOMAIN Tail(todo) \subseteq Int
    OBVIOUS
  <1>3. ASSUME NEW i \in DOMAIN Tail(todo), NEW j \in DOMAIN Tail(todo), i < j
        PROVE  Older(Tail(todo)[i], Tail(todo)[j])
    <2>1. i + 1 < j + 1
      BY <1>2, <1>3
    <2>2. QED
      BY <1>1, <2>1
  <1>4. ASSUME NEW c, Listed(c, todo) PROVE Older(Head(todo), c)
    <2>1. PICK i \in DOMAIN todo : todo[i] = c
      BY <1>4 DEF Listed
    <2>2. Head(todo) = todo[1] /\ 1 \in DOMAIN todo /\ DOMAIN todo \subseteq Int /\ i >= 1
      OBVIOUS
    <2>3. CASE i = 1
      <3>1. c = Head(todo) /\ Head(todo) \in BillKeys
        BY <2>1, <2>2, <2>3
      <3>2. CreatedAt[c[1]] \in Nat
        BY <3>1, CreatedAtAssumption DEF BillKeys
      <3>3. QED
        BY <3>1, <3>2 DEF Older
    <2>4. CASE i # 1
      <3>1. 1 < i
        BY <2>2, <2>4
      <3>2. QED
        BY <2>1, <2>2, <3>1
    <2>5. QED
      BY <2>3, <2>4
  <1>5. QED
    BY <1>3, <1>4

LEMMA KeyWants ==
    ASSUME NEW x \in Txs, Label(x) \in {"TenantKey", "RoomKey", "AssignmentKey"},
           NEW w \in Wants(x)
    PROVE  w.row[1] # "bill_number"
  <1>1. w.row \in Target(x)
    BY DEF Wants
  <1>2. QED
    BY <1>1 DEF Target, RoomRow, TenantRow, AssignmentRow

LEMMA GenerateSubject ==
    ASSUME NEW x \in Txs, Open(x, "generate")
    PROVE  /\ TheBill(x) = Head(txs[x].todo) /\ TheLease(x) = Head(txs[x].todo)[1]
           /\ TheRow(x) = assignments[Head(txs[x].todo)[1]]
  BY DEF Open, TheRow, TheBill, TheLease

SameRun(tx, tx2) == tx2.owner = tx.owner /\ tx2.run = tx.run /\ tx2.month = tx.month

LEMMA GenerateFollowing ==
    ASSUME Connections, NEW x \in Txs, Open(x, "generate"), txs[x].pc < 5
    PROVE  /\ Following(x) \in Tx /\ Following(x) # Absent
           /\ Following(x).kind = "generate" /\ SameRun(txs[x], Following(x))
           /\ Following(x).todo = txs[x].todo /\ Following(x).pc = txs[x].pc + 1
  <1>1. Following(x) \in [kind : {"generate"}, owner : Owners, run : BillRun, month : Months,
                          todo : Seq(BillKeys), pc : 1 .. 5]
        /\ Following(x).pc = txs[x].pc + 1
    BY DEF Connections, Tx, Open, Following
  <1>2. QED
    BY <1>1, GenerateTx, NoTxAssumption DEF Tx, Following, SameRun

LEMMA GenerateNextBill ==
    ASSUME Connections, NEW x \in Txs, Open(x, "generate"), txs[x].todo # <<>>
    PROVE  /\ NextBill(x) \in Tx /\ NextBill(x) # Absent
           /\ NextBill(x).kind = "generate" /\ SameRun(txs[x], NextBill(x))
           /\ NextBill(x).todo = Tail(txs[x].todo)
           /\ NextBill(x).pc = IF Tail(txs[x].todo) = <<>> THEN 5 ELSE 1
  <1> DEFINE rest == Tail(txs[x].todo)
             pc   == IF rest = <<>> THEN 5 ELSE 1
  <1>1. Len(Program["generate"]) = 5
    BY DEF Program
  <1>2. /\ txs[x] \in [kind : {"generate"}, owner : Owners, run : BillRun, month : Months,
                       todo : Seq(BillKeys), pc : 1 .. 5]
        /\ rest \in Seq(BillKeys) /\ pc \in 1 .. 5
    <2>1. txs[x].todo \in Seq(BillKeys)
      BY GenerateTx
    <2>2. rest \in Seq(BillKeys) /\ pc \in 1 .. 5
      BY <2>1
    <2>3. QED
      BY <2>2 DEF Connections, Tx, Open
  <1>3. NextBill(x) = [txs[x] EXCEPT !.todo = rest, !.pc = pc]
    BY <1>1 DEF NextBill
  <1> HIDE DEF rest, pc
  <1>4. /\ NextBill(x) \in [kind : {"generate"}, owner : Owners, run : BillRun, month : Months,
                            todo : Seq(BillKeys), pc : 1 .. 5]
        /\ SameRun(txs[x], NextBill(x)) /\ NextBill(x).todo = rest /\ NextBill(x).pc = pc
    BY <1>2, <1>3 DEF SameRun
  <1>5. NextBill(x) \in Tx /\ NextBill(x).kind = "generate"
    BY <1>4 DEF Tx
  <1>6. QED
    BY <1>4, <1>5, NoTxAssumption DEF rest, pc

LEMMA InsertMonthlyRuns ==
    ASSUME Connections, NEW x \in Txs, InsertMonthly(x), ~Rollback(x), TheBill(x) \in BillKeys,
           txs[x].owner \in Owners
    PROVE  /\ Ran(x) /\ Wants(x) \subseteq RowLock
           /\ bills[TheBill(x)] # Absent => txs'[x] = NextBill(x) /\ OnlyWrites(x, "none")
           /\ bills[TheBill(x)] = Absent =>
                 /\ txs'[x] = Following(x) /\ OnlyWrites(x, "bills")
                 /\ writes'[x].bills = Put(writes[x].bills, TheBill(x),
                                           NewBill(TheRow(x), TheBill(x)[2]))
                 /\ ~NumberTaken(txs[x].owner, TheBill(x))
                 /\ \A c \in DOMAIN writes[x].bills : BillNumber(c) # BillNumber(TheBill(x))
                 /\ Holds(locks', x, NumberEntry(txs[x].owner, TheBill(x)), "update")
  <1>1. CASE bills[TheBill(x)] # Absent
    <2>1. /\ Label(x) = "InsertMonthly" /\ Ran(x) /\ writes'[x] = writes[x] /\ txs'[x] = NextBill(x)
      BY <1>1 DEF InsertMonthly, Statement, Ran, Connections
    <2>2. QED
      BY <1>1, <2>1, WantsNumber, NothingWritten
  <1>2. CASE bills[TheBill(x)] = Absent
    <2>1. /\ Label(x) = "InsertMonthly" /\ Ran(x) /\ txs'[x] = Following(x)
          /\ ~NumberTaken(txs[x].owner, TheBill(x))
          /\ \A c \in DOMAIN writes[x].bills : BillNumber(c) # BillNumber(TheBill(x))
      BY <1>2 DEF InsertMonthly, Write, Statement, Ran, Connections
    <2>2. writes'[x] = PutIn(writes[x], "bills", TheBill(x), NewBill(TheRow(x), TheBill(x)[2]))
      BY <1>2 DEF PutIn, InsertMonthly, Write, Statement, Ran, Connections
    <2>3. OnlyWrites(x, "bills")
          /\ writes'[x].bills = Put(writes[x].bills, TheBill(x), NewBill(TheRow(x), TheBill(x)[2]))
      BY <2>2, BufferPut, Tables
    <2>4. Wants(x) = {[tx |-> x, row |-> NumberEntry(txs[x].owner, TheBill(x)), mode |-> "update"]}
      BY <1>2, <2>1, WantsNumber
    <2>5. /\ Holds(locks', x, NumberEntry(txs[x].owner, TheBill(x)), "update")
          /\ Wants(x) \subseteq RowLock
      BY <2>1, <2>4, LocksTaken, RowTypesOfLocks DEF Mode
    <2>6. QED
      BY <1>2, <2>1, <2>3, <2>5
  <1>3. QED
    BY <1>1, <1>2

\* Of the tables, a monthly run writes bills alone.
BillsAlone(w) == /\ DOMAIN w.rooms = {} /\ DOMAIN w.tenants = {} /\ DOMAIN w.assignments = {}
                 /\ DOMAIN w.payments = {} /\ DOMAIN w.checkouts = {}

LEMMA EnteredStays ==
    ASSUME NEW x, NEW o, NEW b, NEW new, NEW L, NEW L2, Entered(x, o, b, new, L),
           \A row, mode : Holds(L, x, row, mode) => Holds(L2, x, row, mode)
    PROVE  Entered(x, o, b, new, L2)
  BY DEF Entered

LEMMA GenerateOnward ==
    ASSUME NEW x, NEW tx, NEW w, NEW L, NEW tx2, NEW w2, NEW L2, GenerateAt(x, tx, w, L),
           tx.pc \in 1 .. 4, tx.todo \in Seq(BillKeys), SameRun(tx, tx2),
           \A row, mode : Holds(L, x, row, mode) => Holds(L2, x, row, mode),
           w2.bills = w.bills, BillsAlone(w2),
           \/ tx.pc \in {2, 3} /\ tx2.pc = tx.pc + 1 /\ tx2.todo = tx.todo
           \/ /\ tx.pc = 4 \/ (tx.pc = 1 /\ bills[Head(tx.todo)] # Absent)
              /\ tx2.todo = Tail(tx.todo) /\ tx2.pc = IF Tail(tx.todo) = <<>> THEN 5 ELSE 1
    PROVE  GenerateAt(x, tx2, w2, L2)
  <1> DEFINE o == tx.owner
  <1>1. /\ tx.run \in billRuns /\ tx.run.owner = o /\ tx.todo # <<>>
        /\ \A b \in BillKeys : Listed(b, tx.todo) => b \in Month(tx)
        /\ DOMAIN w.bills \subseteq Month(tx)
        /\ \A b \in Month(tx) : b \in DOMAIN w.bills \/ bills[b] # Absent \/ Listed(b, tx.todo)
        /\ \A b \in DOMAIN w.bills : Entered(x, o, b, w.bills, L)
        /\ tx.pc \in 2 .. 4 => Head(tx.todo) \in DOMAIN w.bills
        /\ \A i, j \in DOMAIN tx.todo : i < j => Older(tx.todo[i], tx.todo[j])
        /\ \A b \in DOMAIN w.bills, c \in BillKeys : Listed(c, tx.todo) => Older(b, c)
    BY DEF GenerateAt
  <1>2. \A b \in DOMAIN w2.bills : Entered(x, o, b, w2.bills, L2)
    BY <1>1, EnteredStays
  <1>3. \A b : Listed(b, tx.todo) <=> b = Head(tx.todo) \/ Listed(b, Tail(tx.todo))
    BY <1>1, ListedNext
  <1>4. \A b \in BillKeys : Listed(b, tx2.todo) => b \in Month(tx)
    BY <1>1, <1>3
  <1>5. \A b \in Month(tx) : b \in DOMAIN w2.bills \/ bills[b] # Absent \/ Listed(b, tx2.todo)
    BY <1>1, <1>3
  <1>6. tx2.pc < 5 <=> tx2.todo # <<>>
    <2>1. CASE tx2.todo = tx.todo /\ tx.pc \in {2, 3} /\ tx2.pc = tx.pc + 1
      BY <1>1, <2>1
    <2>2. CASE tx2.todo = Tail(tx.todo) /\ tx2.pc = IF Tail(tx.todo) = <<>> THEN 5 ELSE 1
      BY <2>2
    <2>3. QED
      BY <2>1, <2>2
  <1>6a. tx2.pc \in 2 .. 4 => Head(tx2.todo) \in DOMAIN w2.bills
    BY <1>1
  <1>6b. \A i, j \in DOMAIN tx2.todo : i < j => Older(tx2.todo[i], tx2.todo[j])
    BY <1>1, OrderedNext
  <1>6c. \A b \in DOMAIN w2.bills, c \in BillKeys : Listed(c, tx2.todo) => Older(b, c)
    BY <1>1, <1>3
  <1>7. Month(tx2) = Month(tx) /\ tx2.run = tx.run /\ tx2.owner = o
    BY DEF SameRun, Month
  <1>8. QED
    BY <1>1, <1>2, <1>4, <1>5, <1>6, <1>6a, <1>6b, <1>6c, <1>7 DEF GenerateAt, BillsAlone

LEMMA GenerateInserts ==
    ASSUME NEW x, NEW tx, NEW w, NEW L, NEW tx2, NEW w2, NEW L2, GenerateAt(x, tx, w, L),
           tx.pc = 1, tx.todo \in Seq(BillKeys), SameRun(tx, tx2),
           tx2.pc = 2, tx2.todo = tx.todo,
           \A row, mode : Holds(L, x, row, mode) => Holds(L2, x, row, mode), BillsAlone(w2),
           bills[Head(tx.todo)] = Absent,
           w2.bills = Put(w.bills, Head(tx.todo),
                          NewBill(assignments[Head(tx.todo)[1]], Head(tx.todo)[2])),
           ~NumberTaken(tx.owner, Head(tx.todo)),
           Holds(L2, x, NumberEntry(tx.owner, Head(tx.todo)), "update"),
           \A c \in DOMAIN w.bills : BillNumber(c) # BillNumber(Head(tx.todo))
    PROVE  GenerateAt(x, tx2, w2, L2)
  <1> DEFINE o == tx.owner
             b == Head(tx.todo)
  <1>1. /\ tx.run \in billRuns /\ tx.run.owner = o /\ tx.todo # <<>>
        /\ \A c \in BillKeys : Listed(c, tx.todo) => c \in Month(tx)
        /\ DOMAIN w.bills \subseteq Month(tx)
        /\ \A c \in Month(tx) : c \in DOMAIN w.bills \/ bills[c] # Absent \/ Listed(c, tx.todo)
        /\ \A c \in DOMAIN w.bills : Entered(x, o, c, w.bills, L)
        /\ \A i, j \in DOMAIN tx.todo : i < j => Older(tx.todo[i], tx.todo[j])
        /\ \A a \in DOMAIN w.bills, c \in BillKeys : Listed(c, tx.todo) => Older(a, c)
    BY DEF GenerateAt
  <1>2. b \in Month(tx)
    BY <1>1, ListedNext
  <1>3. /\ DOMAIN w2.bills = DOMAIN w.bills \cup {b} /\ b \notin DOMAIN w.bills
        /\ w2.bills[b] = NewBill(assignments[b[1]], b[2])
        /\ \A c \in DOMAIN w.bills : w2.bills[c] = w.bills[c]
    BY DEF Put
  <1>4. \A c \in DOMAIN w2.bills : Entered(x, o, c, w2.bills, L2)
    <2>1. Entered(x, o, b, w2.bills, L2)
      BY <1>3 DEF Entered
    <2>2. ASSUME NEW c \in DOMAIN w.bills PROVE Entered(x, o, c, w2.bills, L2)
      <3>1. Entered(x, o, c, w.bills, L2)
        BY <1>1, EnteredStays
      <3>2. QED
        BY <1>3, <3>1 DEF Entered
    <2>3. QED
      BY <1>3, <2>1, <2>2
  <1>5. /\ DOMAIN w2.bills \subseteq Month(tx)
        /\ \A c \in Month(tx) : c \in DOMAIN w2.bills \/ bills[c] # Absent \/ Listed(c, tx2.todo)
        /\ Head(tx2.todo) \in DOMAIN w2.bills
    BY <1>1, <1>2, <1>3
  <1>6. \A a \in DOMAIN w2.bills, c \in BillKeys : Listed(c, tx2.todo) => Older(a, c)
    BY <1>1, <1>3, OrderedNext
  <1>7. Month(tx2) = Month(tx) /\ tx2.run = tx.run /\ tx2.owner = o
    BY DEF SameRun, Month
  <1>8. QED
    BY <1>1, <1>4, <1>5, <1>6, <1>7 DEF GenerateAt, BillsAlone

LEMMA GenerateMovesOn ==
    ASSUME Connections, NEW x \in Txs, Open(x, "generate"), txs[x].pc < 5, txs[x].todo # <<>>, Ran(x),
           txs'[x] \in {Following(x), NextBill(x)}, DOMAIN writes'[x] = DOMAIN NoWrites,
           Wants(x) \subseteq RowLock, GenerateAt(x, txs'[x], writes'[x], locks'), Enters(x)
    PROVE  Moves(x)
  BY GenerateFollowing, GenerateNextBill, GenerateTx DEF Moves, ProgressAt, Open, SameRun

LEMMA GenerateRuns ==
    ASSUME Base, Connections, NEW x \in Txs, Open(x, "generate"), txs[x].pc < 5, Execute(x),
           ~Rollback(x), GenerateAt(x, txs[x], writes[x], locks)
    PROVE  Moves(x)
  <1> DEFINE b == Head(txs[x].todo)
  <1>1. /\ TheRow(x) = assignments[b[1]] /\ TheBill(x) = b /\ TheLease(x) = b[1]
        /\ txs[x].owner \in Owners /\ txs[x].kind = "generate" /\ txs[x].todo \in Seq(BillKeys)
        /\ txs[x].pc \in 1 .. 4 /\ txs[x].todo # <<>>
    BY GenerateSubject, GenerateTx DEF GenerateAt
  <1>2. b \in BillKeys /\ b[1] \in Assignments /\ Listed(b, txs[x].todo)
    BY <1>1, ListedNext DEF BillKeys
  <1>3. assignments[b[1]].room \in Rooms /\ assignments[b[1]].tenant \in Tenants
    <2>1. b \in Month(txs[x]) /\ txs[x].run \in billRuns /\ txs[x].run.owner = txs[x].owner
      BY <1>2 DEF GenerateAt
    <2>2. AssignmentOf(txs[x].owner, b[1])
      BY <1>1, <2>1 DEF Month, Base, MonthlyRunStaysValid
    <2>3. QED
      BY <1>2, <2>2 DEF AssignmentOf, Base, TypeOK, Assignment
  <1>4. BillsAlone(writes[x])
    BY DEF GenerateAt, BillsAlone
  <1>5. ASSUME Ran(x)
        PROVE  /\ txs'[x] = Following(x) =>
                    /\ SameRun(txs[x], txs'[x]) /\ txs'[x].todo = txs[x].todo
                    /\ txs'[x].pc = txs[x].pc + 1
               /\ txs'[x] = NextBill(x) =>
                    /\ SameRun(txs[x], txs'[x]) /\ txs'[x].todo = Tail(txs[x].todo)
                    /\ txs'[x].pc = IF Tail(txs[x].todo) = <<>> THEN 5 ELSE 1
               /\ \A row, mode : Holds(locks, x, row, mode) => Holds(locks', x, row, mode)
    BY <1>1, <1>5, GenerateFollowing, GenerateNextBill, LocksTaken
  <1>6. CASE txs[x].pc = 1
    <2>1. InsertMonthly(x)
      BY <1>6, GenerateLabels, Dispatch
    <2>2. CASE bills[b] # Absent
      <3>1. Ran(x) /\ txs'[x] = NextBill(x) /\ OnlyWrites(x, "none") /\ Wants(x) \subseteq RowLock
        BY <1>1, <1>2, <2>1, <2>2, InsertMonthlyRuns
      <3>2. writes'[x].bills = writes[x].bills /\ BillsAlone(writes'[x])
        BY <1>4, <3>1 DEF OnlyWrites, BillsAlone
      <3>3. GenerateAt(x, txs'[x], writes'[x], locks')
        BY <1>1, <1>5, <1>6, <2>2, <3>1, <3>2, GenerateOnward
      <3>4. Enters(x)
        BY <1>1, <1>6, <2>2, <3>2, GenerateLabels, WantsNumber DEF Enters
      <3>5. QED
        BY <1>1, <3>1, <3>3, <3>4, GenerateMovesOn DEF OnlyWrites
    <2>3. CASE bills[b] = Absent
      <3>1. /\ Ran(x) /\ txs'[x] = Following(x) /\ OnlyWrites(x, "bills") /\ Wants(x) \subseteq RowLock
            /\ writes'[x].bills = Put(writes[x].bills, b, NewBill(assignments[b[1]], b[2]))
            /\ ~NumberTaken(txs[x].owner, b)
            /\ \A c \in DOMAIN writes[x].bills : BillNumber(c) # BillNumber(b)
            /\ Holds(locks', x, NumberEntry(txs[x].owner, b), "update")
        BY <1>1, <1>2, <2>1, <2>3, InsertMonthlyRuns
      <3>2. BillsAlone(writes'[x])
        BY <1>4, <3>1 DEF OnlyWrites, BillsAlone
      <3>3. GenerateAt(x, txs'[x], writes'[x], locks')
        <4>1. /\ txs'[x].pc = 2 /\ txs'[x].todo = txs[x].todo /\ SameRun(txs[x], txs'[x])
              /\ \A row, mode : Holds(locks, x, row, mode) => Holds(locks', x, row, mode)
          BY <1>5, <1>6, <3>1
        <4>2. QED
          BY <1>1, <1>6, <2>3, <3>1, <3>2, <4>1, GenerateInserts
      <3>4. Enters(x)
        <4>1. DOMAIN writes'[x].bills = DOMAIN writes[x].bills \cup {b}
          BY <3>1 DEF Put
        <4>2. \A w \in Wants(x) : w.row = NumberEntry(txs[x].owner, b)
          BY <1>1, <1>6, GenerateLabels, WantsNumber
        <4>3. QED
          BY <4>1, <4>2 DEF Enters
      <3>5. QED
        BY <1>1, <3>1, <3>3, <3>4, GenerateMovesOn DEF OnlyWrites
    <2>4. QED
      BY <2>2, <2>3
  <1>7. CASE txs[x].pc \in 2 .. 3
    <2>1. Ran(x) /\ txs'[x] = Following(x) /\ OnlyWrites(x, "none") /\ Wants(x) \subseteq RowLock
      <3>1. CASE txs[x].pc = 2
        BY <1>1, <1>3, <3>1, GenerateLabels, Dispatch, TenantKeyRuns
      <3>2. CASE txs[x].pc = 3
        BY <1>1, <1>3, <3>2, GenerateLabels, Dispatch, RoomKeyRuns
      <3>3. QED
        BY <1>7, <3>1, <3>2
    <2>2. writes'[x].bills = writes[x].bills /\ BillsAlone(writes'[x])
      BY <1>4, <2>1 DEF OnlyWrites, BillsAlone
    <2>3. /\ txs[x].pc \in {2, 3} /\ txs'[x].pc = txs[x].pc + 1 /\ txs'[x].todo = txs[x].todo
          /\ SameRun(txs[x], txs'[x])
          /\ \A row, mode : Holds(locks, x, row, mode) => Holds(locks', x, row, mode)
      BY <1>5, <1>7, <2>1
    <2>4. GenerateAt(x, txs'[x], writes'[x], locks')
      BY <1>1, <2>2, <2>3, GenerateOnward
    <2>5. Enters(x)
      BY <1>7, <2>2, GenerateLabels, KeyWants DEF Enters
    <2>6. QED
      BY <1>1, <2>1, <2>4, <2>5, GenerateMovesOn DEF OnlyWrites
  <1>8. CASE txs[x].pc = 4
    <2>1. AssignmentKey(x)
      BY <1>8, GenerateLabels, Dispatch
    <2>2. Ran(x) /\ txs'[x] = NextBill(x) /\ OnlyWrites(x, "none") /\ Wants(x) \subseteq RowLock
      BY <1>1, <1>2, <2>1, AssignmentKeyRuns
    <2>3. writes'[x].bills = writes[x].bills /\ BillsAlone(writes'[x])
      BY <1>4, <2>2 DEF OnlyWrites, BillsAlone
    <2>4. GenerateAt(x, txs'[x], writes'[x], locks')
      BY <1>1, <1>5, <1>8, <2>2, <2>3, GenerateOnward
    <2>5. Enters(x)
      BY <1>8, <2>3, GenerateLabels, KeyWants DEF Enters
    <2>6. QED
      BY <1>1, <2>2, <2>4, <2>5, GenerateMovesOn DEF OnlyWrites
  <1>9. QED
    BY <1>1, <1>6, <1>7, <1>8

\* A statement that does not roll back leaves the transaction where its program is.
LEMMA StatementMoves ==
    ASSUME Base, Connections, NEW x \in Txs, Progress(x), Execute(x), Label(x) # "Commit",
           ~Rollback(x)
    PROVE  Moves(x)
  <1>1. txs[x] # Absent
    BY Dispatch DEF Label, Execute, LockRoom, LockTenant, CountLive, InsertAssignment, InsertBill,
           UpdateRoom, UpdateTenant, LockAssignment, UpdateAssignment, CancelBills, LockBill,
           InsertPayment, InsertCheckout, UpdateBill, TenantKey, RoomKey, AssignmentKey, Commit,
           Lock, Write, Statement
  <1>2. ProgressAt(x, txs[x], writes[x], locks)
    BY <1>1 DEF Progress
  <1>3. CASE Open(x, "assign")
    <2>1. txs[x].pc < 8
      BY <1>3, AssignTx, AssignLabels
    <2>2. QED
      BY <1>2, <1>3, <2>1, AssignTx, AssignRuns DEF ProgressAt
  <1>4. CASE Open(x, "cancel")
    <2>1. txs[x].pc < 6
      BY <1>4, CancelTx, CancelLabels
    <2>2. QED
      BY <1>2, <1>4, <2>1, CancelTx, CancelRuns DEF ProgressAt
  <1>5. CASE Open(x, "record")
    <2>1. txs[x].pc < 10
      BY <1>5, RecordTx, RecordLabels
    <2>2. QED
      BY <1>2, <1>5, <2>1, RecordTx, RecordRuns DEF ProgressAt
  <1>6. CASE Open(x, "checkout")
    <2>1. txs[x].pc < 5
      BY <1>6, CheckoutTx, CheckoutLabels
    <2>2. QED
      BY <1>2, <1>6, <2>1, CheckoutTx, CheckoutRuns DEF ProgressAt
  <1>7. CASE Open(x, "generate")
    <2>1. txs[x].pc < 5
      BY <1>7, GenerateTx, GenerateLabels
    <2>2. QED
      BY <1>2, <1>7, <2>1, GenerateTx, GenerateRuns DEF ProgressAt
  <1>8. QED
    BY <1>1, <1>3, <1>4, <1>5, <1>6, <1>7, OpenKind
=============================================================================
