--------------------------- MODULE TicketPayments ---------------------------
(***************************************************************************)
(* Buying a conference ticket: POST /payment, GET /payment/{id}, POST      *)
(* /payment/webhook, the periodic payment sync of the worker, and the      *)
(* voucher administration, against one Postgres database and the Mayar     *)
(* payment gateway.                                                        *)
(*                                                                         *)
(* An API handler is an `async def` coroutine that talks to the database   *)
(* with synchronous calls: between two awaits it occupies the event loop   *)
(* of its process, while other processes and the worker interleave with it *)
(* at every database statement.  What it loaded before an await is stale   *)
(* afterwards, and a commit writes only the columns it changed, whatever   *)
(* the rows hold by then.                                                  *)
(***************************************************************************)
EXTENDS Integers, FiniteSets

CONSTANTS
  User,            \* registered users, email and phone completed
  Payment,         \* primary keys the payment table can hand out
  Voucher,         \* rows of the voucher table
  Process,         \* API processes (uvicorn --workers)
  Handler,         \* handlers one process may have in progress
  ParticipantType, \* user.participant_type, NonParticipant apart
  NonParticipant,  \* the type every user signs up with
  NoUser, NoPayment, NoVoucher, NoSlot,
  InitialQuota,    \* [Voucher -> Nat]: quota at the start
  FreeWith,        \* coupons (or NoVoucher) that bring the price to 0
  Entitled,        \* pairs <<u, v>>: whitelist and ticket allow u to use v
  TypeOf,          \* [Coupon -> ParticipantType]: voucher.type or the ticket's
  AdminQuotas,     \* quotas an administrator may write; {}: no administrator
  SyncJob,         \* TRUE: the worker process is deployed
  DoublePay,       \* TRUE: a customer may pay two of their invoices
  OddHooks         \* TRUE: Mayar may report a payment.received without success

Coupon == Voucher \cup {NoVoucher}
Slot == Process \X Handler
ProcessOf(s) == s[1]

ASSUME TicketPaymentsAssumption ==
  /\ NoUser \notin User /\ NoPayment \notin Payment
  /\ NoVoucher \notin Voucher /\ NoSlot \notin Slot
  /\ NonParticipant \notin ParticipantType
  /\ InitialQuota \in [Voucher -> Nat]
  /\ FreeWith \subseteq Coupon
  /\ Entitled \subseteq User \X Voucher
  /\ TypeOf \in [Coupon -> ParticipantType]
  /\ AdminQuotas \subseteq Nat
  /\ {SyncJob, DoublePay, OddHooks} \subseteq BOOLEAN

VARIABLES
  status, owner, coupon, paidAt, closedAt, \* table payment, by column
  quota, active,                           \* table voucher, by column
  locked,       \* [Voucher -> Slot or NoSlot]: holder of the row lock
  ptype,        \* table user: participant_type
  gateway,      \* Mayar's own record of every payment
  hooks,        \* webhook calls Mayar may still deliver
  api,          \* [Slot -> local state of the handler in progress]
  worker        \* local state of the periodic payment sync

paymentTable == <<status, owner, coupon, paidAt, closedAt>>
voucherTable == <<quota, active, locked>>
mayar == <<gateway, hooks>>
vars == <<paymentTable, voucherTable, ptype, mayar, api, worker>>

PaymentStatus == {"unpaid", "paid", "closed"}
RowStatus == PaymentStatus \cup {"absent"}
Type == ParticipantType \cup {NonParticipant}
Hook == [pay : Payment, result : {"success", "other"}]

(***************************************************************************)
(* A handler's locals.  pc:                                                *)
(*   "checked"   create: paid and ticket checks passed, voucher to be read *)
(*   "creating"  create: awaits Mayar, payment inserted but not committed  *)
(*   "accepted", "rejected"  create: Mayar's answer is there               *)
(*   "polling", "polled"     detail: awaits, has got, Mayar's status       *)
(*   "loaded"    webhook or detail: payment in memory, is to become PAID   *)
(*   "closing"   webhook or detail: awaits the closing of other invoices   *)
(*   "commit"    webhook or detail: about to commit, nothing to close      *)
(***************************************************************************)
OnLoop == {"checked", "loaded", "commit"}
Awaiting == {"creating", "accepted", "rejected", "polling", "polled", "closing"}

Submitted == {"creating", "accepted", "rejected"}
Settling == {"loaded", "closing", "commit"}

HandlerState ==
  [pc : {"idle"} \cup OnLoop \cup Awaiting,
   user : User \cup {NoUser}, pay : Payment \cup {NoPayment},
   coupon : Coupon, left : Int,
   seen : RowStatus, seenType : Type, verdict : RowStatus,
   victims : SUBSET Payment, toClose : SUBSET Payment]

Idle ==
  [pc |-> "idle", user |-> NoUser, pay |-> NoPayment, coupon |-> NoVoucher,
   left |-> 0, seen |-> "absent", seenType |-> NonParticipant,
   verdict |-> "absent", victims |-> {}, toClose |-> {}]

Resting == [pc |-> "idle", todo |-> {}, toPaid |-> {}, toClosed |-> {}]

Init ==
  /\ status = [p \in Payment |-> "absent"]
  /\ owner = [p \in Payment |-> NoUser]
  /\ coupon = [p \in Payment |-> NoVoucher]
  /\ paidAt = [p \in Payment |-> FALSE]
  /\ closedAt = [p \in Payment |-> FALSE]
  /\ quota = InitialQuota
  /\ active = [v \in Voucher |-> TRUE]
  /\ locked = [v \in Voucher |-> NoSlot]
  /\ ptype = [u \in User |-> NonParticipant]
  /\ gateway = [p \in Payment |-> "none"]
  /\ hooks = {}
  /\ api = [s \in Slot |-> Idle]
  /\ worker = Resting

\* A handler starts or resumes only when its event loop runs nothing else.
LoopFree(s) ==
  \A t \in Slot \ {s} : ProcessOf(t) = ProcessOf(s) => api[t].pc \notin OnLoop

Becomes(s, h) == api' = [api EXCEPT ![s] = h]

Rows(u, st) == {p \in Payment : owner[p] = u /\ status[p] = st}

-----------------------------------------------------------------------------
(* POST /payment                                                           *)

Fresh(p) ==
  /\ status[p] = "absent" /\ gateway[p] = "none"
  /\ \A s \in Slot : api[s].pay # p

\* Bound of the model: no request is accepted that no primary key is left for.
KeysLeft ==
  Cardinality({s \in Slot : api[s].pc = "checked"})
    < Cardinality({p \in Payment : Fresh(p)})

BeginCreate(s, u, c) ==
  /\ api[s] = Idle /\ LoopFree(s)
  /\ KeysLeft
  /\ Rows(u, "paid") = {}
  /\ Becomes(s, [Idle EXCEPT !.pc = "checked", !.user = u, !.coupon = c,
                             !.seenType = ptype[u]])
  /\ UNCHANGED <<paymentTable, voucherTable, ptype, mayar, worker>>

\* Mutant: the test for an exhausted quota is missing.
UsableForever(u, v) == active[v] /\ <<u, v>> \in Entitled

Usable(u, v) == active[v] /\ quota[v] > 0 /\ <<u, v>> \in Entitled

\* SELECT ... FOR UPDATE got the voucher row, which may not be used: rollback.
RefuseVoucher(s) ==
  /\ api[s].pc = "checked" /\ api[s].coupon # NoVoucher
  /\ locked[api[s].coupon] = NoSlot
  /\ ~Usable(api[s].user, api[s].coupon)
  /\ Becomes(s, Idle)
  /\ UNCHANGED <<paymentTable, voucherTable, ptype, mayar, worker>>

\* Mutant: the voucher is read without FOR UPDATE.
VoucherReadUnlocked(s) ==
  api[s].coupon # NoVoucher => Usable(api[s].user, api[s].coupon)

\* validate_and_use_voucher succeeds, at once if the row is not locked.
VoucherTaken(s) ==
  LET v == api[s].coupon IN
  v # NoVoucher => locked[v] = NoSlot /\ Usable(api[s].user, v)

\* The transaction that inserts payment p commits, the decremented quota with it.
InsertRow(s, p, st) ==
  LET v == api[s].coupon IN
  /\ status' = [status EXCEPT ![p] = st]
  /\ owner' = [owner EXCEPT ![p] = api[s].user]
  /\ coupon' = [coupon EXCEPT ![p] = v]
  /\ paidAt' = [paidAt EXCEPT ![p] = (st = "paid")]
  /\ UNCHANGED closedAt

\* Mutant: the participant type of the voucher is ignored.
TypeOfTicket(h) == [ptype EXCEPT ![h.user] = TypeOf[NoVoucher]]

\* user.participant_type becomes the voucher's or the ticket's; the ORM writes
\* the column only when that differs from the value it loaded.
Promoted(h) ==
  IF TypeOf[h.coupon] = h.seenType THEN ptype
  ELSE [ptype EXCEPT ![h.user] = TypeOf[h.coupon]]

\* Nothing left to pay: PAID in the same transaction, Mayar is not involved.
GrantFree(s, p) ==
  LET h == api[s]  v == h.coupon IN
  /\ h.pc = "checked" /\ Fresh(p) /\ VoucherTaken(s) /\ v \in FreeWith
  /\ InsertRow(s, p, "paid")
  /\ quota' = [w \in Voucher |-> IF w = v THEN quota[w] - 1 ELSE quota[w]]
  /\ ptype' = Promoted(h)
  /\ Becomes(s, Idle)
  /\ UNCHANGED <<active, locked, mayar, worker>>

\* The payment is flushed, the voucher row stays locked, and the call to Mayar
\* is awaited: the event loop is free, the transaction open.
SubmitToMayar(s, p) ==
  LET h == api[s]  v == h.coupon IN
  /\ h.pc = "checked" /\ Fresh(p) /\ VoucherTaken(s) /\ v \notin FreeWith
  /\ locked' = [w \in Voucher |-> IF w = v THEN s ELSE locked[w]]
  /\ Becomes(s, [h EXCEPT !.pc = "creating", !.pay = p,
                          !.left = IF v = NoVoucher THEN 0 ELSE quota[v]])
  /\ UNCHANGED <<paymentTable, quota, active, ptype, mayar, worker>>

\* Mayar makes the invoice; its answer may still be lost or time out.
MayarCreates(s) ==
  /\ api[s].pc = "creating"
  /\ gateway' = [gateway EXCEPT ![api[s].pay] = "unpaid"]
  /\ \E answer \in {"accepted", "rejected"} :
       Becomes(s, [api[s] EXCEPT !.pc = answer])
  /\ UNCHANGED <<paymentTable, voucherTable, ptype, hooks, worker>>

\* An error status, or no answer within the timeout and no invoice.
MayarRefuses(s) ==
  /\ api[s].pc = "creating"
  /\ Becomes(s, [api[s] EXCEPT !.pc = "rejected"])
  /\ UNCHANGED <<paymentTable, voucherTable, ptype, mayar, worker>>

\* Mutant: the transaction is left open when the handler ends.
StillLocked(S) == locked

Unlocked(S) == [w \in Voucher |-> IF locked[w] \in S THEN NoSlot ELSE locked[w]]

CommitCreate(s) ==
  LET h == api[s]  v == h.coupon IN
  /\ h.pc = "accepted" /\ LoopFree(s)
  /\ InsertRow(s, h.pay, "unpaid")
  /\ quota' = [w \in Voucher |-> IF w = v THEN h.left - 1 ELSE quota[w]]
  /\ locked' = Unlocked({s})
  /\ Becomes(s, Idle)
  /\ UNCHANGED <<active, ptype, mayar, worker>>

\* Mayar failed: rollback, the payment and the decrement are gone.
AbortCreate(s) ==
  /\ api[s].pc = "rejected" /\ LoopFree(s)
  /\ locked' = Unlocked({s})
  /\ Becomes(s, Idle)
  /\ UNCHANGED <<paymentTable, quota, active, ptype, mayar, worker>>

-----------------------------------------------------------------------------
(* POST /payment/webhook and GET /payment/{id}                             *)

\* A payment, its user and its voucher, read into the session's identity map.
Loaded(p) ==
  [Idle EXCEPT !.pay = p, !.user = owner[p], !.coupon = coupon[p],
               !.seen = status[p], !.seenType = ptype[owner[p]]]

\* The delivery of m; m stays in hooks because Mayar may send it again.
ReceiveHook(s, m) ==
  LET p == m.pay  v == IF m.result = "success" THEN "paid" ELSE "unpaid" IN
  /\ api[s] = Idle /\ LoopFree(s)
  /\ status[p] # "absent"
  /\ Becomes(s, [Loaded(p) EXCEPT !.pc = IF v = "paid" THEN "loaded" ELSE "commit",
                                  !.verdict = v])
  /\ UNCHANGED <<paymentTable, voucherTable, ptype, mayar, worker>>

\* Only an UNPAID payment that Mayar knows is looked up there.
BeginDetail(s, p) ==
  /\ api[s] = Idle /\ LoopFree(s)
  /\ status[p] = "unpaid"
  /\ Becomes(s, [Loaded(p) EXCEPT !.pc = "polling"])
  /\ UNCHANGED <<paymentTable, voucherTable, ptype, mayar, worker>>

\* Mutants: status_mapping without a default, or with a wrong one.
MappedWithoutDefault(answer) == IF answer \in {"paid", "closed"} THEN answer ELSE "pending"
MappedToPaid(answer) == IF answer = "closed" THEN answer ELSE "paid"
MappedToClosed(answer) == IF answer = "paid" THEN answer ELSE "closed"

\* status_mapping: whatever Mayar answers besides "paid" and "closed" is UNPAID.
Mapped(answer) == IF answer \in {"paid", "closed"} THEN answer ELSE "unpaid"

MayarTells(s) ==
  /\ api[s].pc = "polling"
  /\ Becomes(s, [api[s] EXCEPT !.pc = "polled",
                               !.verdict = Mapped(gateway[api[s].pay])])
  /\ UNCHANGED <<paymentTable, voucherTable, ptype, mayar, worker>>

\* The lookup fails: the exception is swallowed and the loaded row returned.
DetailLookupFails(s) ==
  /\ api[s].pc = "polling"
  /\ Becomes(s, Idle)
  /\ UNCHANGED <<paymentTable, voucherTable, ptype, mayar, worker>>

ResumeDetail(s) ==
  LET h == api[s] IN
  /\ h.pc = "polled" /\ LoopFree(s)
  /\ \/ h.verdict = h.seen /\ Becomes(s, Idle)
     \/ h.verdict # h.seen /\ h.verdict = "paid" /\ Becomes(s, [h EXCEPT !.pc = "loaded"])
     \/ h.verdict \notin {h.seen, "paid"} /\ Becomes(s, [h EXCEPT !.pc = "commit"])
  /\ UNCHANGED <<paymentTable, voucherTable, ptype, mayar, worker>>

\* close_unpaid_payments_with_mayar: the SELECT of the user's other payments.
SelectOthers(s) ==
  LET h == api[s]
      others == Rows(h.user, "unpaid") \ {h.pay}
  IN
  /\ h.pc = "loaded"
  /\ Becomes(s, [h EXCEPT !.pc = IF others = {} THEN "commit" ELSE "closing",
                          !.victims = others, !.toClose = others])
  /\ UNCHANGED <<paymentTable, voucherTable, ptype, mayar, worker>>

\* Mayar closes an open invoice, refuses, or the call fails.
InvoiceMayClose(p) ==
  \/ gateway[p] = "unpaid" /\ gateway' = [gateway EXCEPT ![p] = "closed"]
  \/ UNCHANGED gateway

\* The awaited call for one of them; a refusal and an exception are both ignored.
CloseInvoice(s, p) ==
  /\ api[s].pc = "closing" /\ p \in api[s].toClose
  /\ Becomes(s, [api[s] EXCEPT !.toClose = @ \ {p}])
  /\ InvoiceMayClose(p)
  /\ UNCHANGED <<paymentTable, voucherTable, ptype, hooks, worker>>

\* update_payment, and the commit: new gives every changed row its status;
\* paid_at and closed_at are set once and kept.
Written(new) ==
  LET changed(st) == {p \in DOMAIN new : new[p] = st} IN
  /\ status' = [p \in Payment |-> IF p \in DOMAIN new THEN new[p] ELSE status[p]]
  /\ paidAt' = [p \in Payment |-> paidAt[p] \/ p \in changed("paid")]
  /\ closedAt' = [p \in Payment |-> closedAt[p] \/ p \in changed("closed")]
  /\ UNCHANGED <<owner, coupon>>

\* Mutant: the status is written whether or not it changes.
AlwaysWritten(h) == {h.pay}

\* The ORM writes the status of a payment only if update_payment changes it from
\* what was loaded.
StatusChanged(h) == IF h.verdict = h.seen THEN {} ELSE {h.pay}

\* The one commit: the payment if its status differs from the loaded one, and
\* the victims.
Settle(s) ==
  LET h == api[s]
      own == StatusChanged(h)
  IN
  /\ \/ h.pc = "commit"
     \/ h.pc = "closing" /\ h.toClose = {} /\ LoopFree(s)
  /\ Written([p \in own \cup h.victims |-> IF p \in own THEN h.verdict ELSE "closed"])
  /\ ptype' = IF h.verdict = "paid" THEN Promoted(h) ELSE ptype
  /\ Becomes(s, Idle)
  /\ UNCHANGED <<voucherTable, mayar, worker>>

-----------------------------------------------------------------------------
(* The worker's task_sync_pending_payments                                 *)

SyncBegins ==
  /\ SyncJob /\ worker = Resting
  /\ {p \in Payment : status[p] = "unpaid"} # {}
  /\ worker' = [Resting EXCEPT !.pc = "polling",
                    !.todo = {p \in Payment : status[p] = "unpaid"}]
  /\ UNCHANGED <<paymentTable, voucherTable, ptype, mayar, api>>

\* One payment's status; what Mayar calls unpaid is left as loaded.
SyncPolls(p) ==
  /\ worker.pc = "polling" /\ p \in worker.todo
  /\ worker' = [worker EXCEPT !.todo = @ \ {p},
       !.toPaid = @ \cup {q \in {p} : Mapped(gateway[q]) = "paid"},
       !.toClosed = @ \cup {q \in {p} : Mapped(gateway[q]) = "closed"}]
  /\ UNCHANGED <<paymentTable, voucherTable, ptype, mayar, api>>

\* The call fails: logged, the payment waits for the next run.
SyncPollFails(p) ==
  /\ worker.pc = "polling" /\ p \in worker.todo
  /\ worker' = [worker EXCEPT !.todo = @ \ {p}]
  /\ UNCHANGED <<paymentTable, voucherTable, ptype, mayar, api>>

SyncCommits ==
  /\ worker.pc = "polling" /\ worker.todo = {}
  /\ Written([p \in worker.toPaid \cup worker.toClosed |->
                 IF p \in worker.toPaid THEN "paid" ELSE "closed"])
  /\ worker' = Resting
  /\ UNCHANGED <<voucherTable, ptype, mayar, api>>

-----------------------------------------------------------------------------
(* Mayar, its customers, administrators, and crashes                       *)

PaidInvoice(u) == \E p \in Payment : owner[p] = u /\ gateway[p] = "paid"

\* The customer has the link once the creating transaction has committed.
CustomerPays(p) ==
  /\ status[p] # "absent" /\ gateway[p] = "unpaid"
  /\ DoublePay \/ ~PaidInvoice(owner[p])
  /\ gateway' = [gateway EXCEPT ![p] = "paid"]
  /\ hooks' = hooks \cup {[pay |-> p, result |-> "success"]}
  /\ UNCHANGED <<paymentTable, voucherTable, ptype, api, worker>>

InvoiceExpires(p) ==
  /\ gateway[p] = "unpaid"
  /\ gateway' = [gateway EXCEPT ![p] = "closed"]
  /\ UNCHANGED <<paymentTable, voucherTable, ptype, hooks, api, worker>>

OddHook(p) ==
  /\ OddHooks /\ gateway[p] # "none"
  /\ hooks' = hooks \cup {[pay |-> p, result |-> "other"]}
  /\ UNCHANGED <<paymentTable, voucherTable, ptype, gateway, api, worker>>

HookLost(m) ==
  /\ hooks' = hooks \ {m}
  /\ UNCHANGED <<paymentTable, voucherTable, ptype, gateway, api, worker>>

\* PATCH /voucher/{id}/quota, /status and PUT /voucher/{id}: absolute values,
\* written from a thread of its own once the row lock is free.
AdminWrites(v, n, b) ==
  /\ locked[v] = NoSlot
  /\ quota' = [quota EXCEPT ![v] = n]
  /\ active' = [active EXCEPT ![v] = b]
  /\ UNCHANGED <<paymentTable, locked, ptype, mayar, api, worker>>

AdminSetsQuota(v, n) == AdminWrites(v, n, active[v])
AdminSetsStatus(v, b) == AdminQuotas # {} /\ AdminWrites(v, quota[v], b)
AdminReplaces(v, n, b) == AdminWrites(v, n, b)

\* An API process dies: its connections close, its transactions roll back.
ProcessCrashes(w) ==
  /\ api' = [s \in Slot |-> IF ProcessOf(s) = w THEN Idle ELSE api[s]]
  /\ locked' = Unlocked({s \in Slot : ProcessOf(s) = w})
  /\ UNCHANGED <<paymentTable, quota, active, ptype, mayar, worker>>

WorkerCrashes ==
  /\ worker' = Resting
  /\ UNCHANGED <<paymentTable, voucherTable, ptype, mayar, api>>

-----------------------------------------------------------------------------

CreateStep(s) ==
  \/ \E u \in User, c \in Coupon : BeginCreate(s, u, c)
  \/ RefuseVoucher(s)
  \/ \E p \in Payment : GrantFree(s, p) \/ SubmitToMayar(s, p)
  \/ MayarCreates(s) \/ MayarRefuses(s)
  \/ CommitCreate(s) \/ AbortCreate(s)

SettleStep(s) ==
  \/ \E m \in hooks : ReceiveHook(s, m)
  \/ \E p \in Payment : BeginDetail(s, p) \/ CloseInvoice(s, p)
  \/ MayarTells(s) \/ DetailLookupFails(s) \/ ResumeDetail(s)
  \/ SelectOthers(s) \/ Settle(s)

SyncStep ==
  \/ SyncBegins \/ SyncCommits
  \/ \E p \in Payment : SyncPolls(p) \/ SyncPollFails(p)

GatewayStep ==
  \/ \E p \in Payment : CustomerPays(p) \/ InvoiceExpires(p) \/ OddHook(p)
  \/ \E m \in hooks : HookLost(m)

AdminStep ==
  \E v \in Voucher :
    \/ \E n \in AdminQuotas : AdminSetsQuota(v, n)
    \/ \E b \in BOOLEAN : AdminSetsStatus(v, b)
    \/ \E n \in AdminQuotas, b \in BOOLEAN : AdminReplaces(v, n, b)

CrashStep == WorkerCrashes \/ \E w \in Process : ProcessCrashes(w)

Next ==
  \/ \E s \in Slot : CreateStep(s) \/ SettleStep(s)
  \/ SyncStep \/ GatewayStep \/ AdminStep \/ CrashStep

Spec == Init /\ [][Next]_vars

(***************************************************************************)
(* What is safe.                                                           *)
(***************************************************************************)

TablesOK ==
  /\ status \in [Payment -> RowStatus]
  /\ owner \in [Payment -> User \cup {NoUser}]
  /\ coupon \in [Payment -> Coupon]
  /\ paidAt \in [Payment -> BOOLEAN]
  /\ closedAt \in [Payment -> BOOLEAN]
  /\ quota \in [Voucher -> Int]
  /\ active \in [Voucher -> BOOLEAN]
  /\ locked \in [Voucher -> Slot \cup {NoSlot}]
  /\ ptype \in [User -> Type]
  /\ gateway \in [Payment -> PaymentStatus \cup {"none"}]
  /\ hooks \subseteq Hook
  /\ worker \in [pc : {"idle", "polling"}, todo : SUBSET Payment,
                  toPaid : SUBSET Payment, toClosed : SUBSET Payment]

HandlersOK == api \in [Slot -> HandlerState]

\* Every variable, and every local of a handler in progress, has its type.
TypeOK == TablesOK /\ HandlersOK

\* Without an administrator, the quota of a voucher and the payments made with
\* it add up to the initial quota: no decrement is lost between concurrent
\* requests, none survives a rollback or a crash, and none is made twice,
\* although each transaction stays open while Mayar is awaited
\* (validate_and_use_voucher and create_payment).
QuotaConserved ==
  \A v \in Voucher :
    quota[v] + Cardinality({p \in Payment : coupon[p] = v}) = InitialQuota[v]

\* "Quota should never be negative", whatever administrators write meanwhile.
QuotaNeverNegative == \A v \in Voucher : quota[v] >= 0

\* The checks of validate_and_use_voucher, made before the call to Mayar, still
\* hold when create_payment commits after it: the voucher is active and has
\* quota left, and exactly one unit of that quota goes.
RedemptionIsAtomic ==
  [][\A p \in Payment : LET v == coupon'[p] IN
       v # coupon[p] => active[v] /\ quota[v] > 0 /\ quota'[v] = quota[v] - 1]_vars

\* No handler path leaves a voucher row locked: a lock belongs to a request
\* that is waiting for Mayar, or has its answer, and used the quota it read.
LockIsHeldByCreate ==
  \A v \in Voucher : locked[v] # NoSlot =>
    LET h == api[locked[v]] IN
    /\ h.pc \in Submitted
    /\ h.coupon = v /\ h.left = quota[v]

\* A payment recorded PAID was free or its invoice is paid at Mayar, whichever
\* of the webhook, the detail page and the worker recorded it, in any order.
PaidMeansMoney ==
  \A p \in Payment :
    status[p] = "paid" => coupon[p] \in FreeWith \/ gateway[p] = "paid"

\* The commit of a report without success, whose handler had loaded the row when
\* it said more than UNPAID: update_payment writes UNPAID over it.
TakesBack(s, p) ==
  /\ api[s].pay = p /\ api[s].verdict = "unpaid" /\ api[s].seen # "unpaid"
  /\ Settle(s)

\* What is PAID stays PAID, against repeated webhooks, stale detail pages, the
\* worker and the closing of other payments, unless the customer paid another
\* one too or Mayar takes it back: and a report without success takes nothing
\* back if its handler loads the row before another records PAID and commits
\* after that, because the ORM writes no column that it finds unchanged.
PaidIsFinal ==
  [][\A p \in Payment :
       status[p] = "paid" /\ (\A q \in Payment \ {p} :
                                owner[q] = owner[p] => gateway[q] # "paid")
         => status'[p] = "paid" \/ \E s \in Slot : TakesBack(s, p)]_vars

\* A user with a PAID payment has the participant type of a payment that is or
\* was PAID (streams and check-in look at the type, not at the payment), though
\* handlers write it from what they loaded before their awaits.
PaidRowSetsType ==
  \A u \in User : Rows(u, "paid") # {} =>
    ptype[u] \in {TypeOf[coupon[p]] : p \in {q \in Payment : owner[q] = u /\ paidAt[q]}}

(***************************************************************************)
(* What makes these invariants inductive: how the locals of the handlers   *)
(* in progress relate to the committed rows.                               *)
(***************************************************************************)

\* The locals h of the handler in slot s fit the committed state: an open
\* purchase has an unused key and the voucher row as it read it; a settling
\* handler works on rows that exist and has learnt PAID from Mayar.
Fits(s, h) ==
  /\ h.pc \in Submitted \cup {"checked"} => h.user \in User /\ h.verdict = "absent"
  /\ h.pc \in Submitted => h.pay \in Payment /\ status[h.pay] = "absent"
  /\ h.pc = "creating" => gateway[h.pay] = "none"
  /\ h.pc \in Submitted /\ h.coupon # NoVoucher =>
       /\ locked[h.coupon] = s /\ active[h.coupon]
       /\ h.left = quota[h.coupon] /\ h.left > 0
  /\ h.pc \notin Submitted /\ h.pay \in Payment => status[h.pay] # "absent"
  /\ h.pc \in Settling \cup {"polling", "polled"} => h.pay \in Payment
  /\ h.pc \in Settling \cup {"polled"} => h.verdict \in PaymentStatus
  /\ h.verdict = "paid" => h.pay \in Payment /\ gateway[h.pay] = "paid"
  /\ \A p \in h.victims : status[p] # "absent"

\* No two handlers insert the same payment.
KeysApart ==
  \A s, t \in Slot : s # t /\ api[s].pc \in Submitted => api[t].pay # api[s].pay

\* The tables, the webhooks in flight and the worker's findings.
TablesFit ==
  /\ \A p \in Payment : IF status[p] = "absent" THEN coupon[p] = NoVoucher
                                                ELSE owner[p] \in User
  /\ PaidMeansMoney /\ QuotaNeverNegative
  /\ \A m \in hooks : m.result = "success" => gateway[m.pay] = "paid"
  /\ \A p \in worker.toPaid : gateway[p] = "paid"
  /\ \A p \in worker.todo \cup worker.toPaid \cup worker.toClosed : status[p] # "absent"

LocksOwned ==
  \A v \in Voucher : locked[v] # NoSlot =>
    api[locked[v]].pc \in Submitted /\ api[locked[v]].coupon = v

IInv ==
  /\ TypeOK /\ TablesFit /\ KeysApart /\ LocksOwned
  /\ \A s \in Slot : Fits(s, api[s])

(***************************************************************************)
(* The abstract ledger, on the committed tables and the gateway.           *)
(***************************************************************************)
Ledger == INSTANCE PaymentLedger WITH Reversible <- OddHooks

\* Handlers, row locks, open transactions and stale snapshots implement a
\* ledger in which payments are issued in one step and every later change of
\* status has its reason at Mayar.
ImplementsLedger == Ledger!Spec

(***************************************************************************)
(* Progress.                                                               *)
(***************************************************************************)

HandlerGoesOn(s) ==
  \/ RefuseVoucher(s) \/ \E p \in Payment : GrantFree(s, p) \/ SubmitToMayar(s, p)
  \/ MayarCreates(s) \/ MayarRefuses(s) \/ CommitCreate(s) \/ AbortCreate(s)
  \/ MayarTells(s) \/ DetailLookupFails(s) \/ ResumeDetail(s) \/ SelectOthers(s)
  \/ (\E p \in Payment : CloseInvoice(s, p)) \/ Settle(s)

\* The event loop runs what is ready to run, in the order it became ready; a
\* lock wait of Postgres is served in order; a call to Mayar ends, by its
\* timeout at the latest.  Requests need not arrive.
HandlerFairness ==
  \A s \in Slot : SF_vars(HandlerGoesOn(s))

\* The scheduler starts the sync job again and again and a run of it goes on.
SyncFairness ==
  /\ WF_vars(SyncBegins) /\ WF_vars(SyncCommits)
  /\ \A p \in Payment : WF_vars(SyncPolls(p) \/ SyncPollFails(p))

FairHandlers == Spec /\ HandlerFairness
FairSync == Spec /\ SyncFairness

\* Every request that got as far as the voucher is answered.
EveryCreateIsAnswered ==
  \A s \in Slot : (api[s].user # NoUser) ~> (api[s] = Idle)

\* Outages of the worker and of Mayar's status call are over at some time.
OutagesEnd ==
  <>[][~(WorkerCrashes /\ ~SyncCommits)
       /\ ~(\E p \in Payment : SyncPollFails(p) /\ ~SyncPolls(p))]_vars

\* The customer paid two of the invoices.
PaidTwice(u) ==
  \E p, q \in Payment :
    p # q /\ \A i \in {p, q} : owner[i] = u /\ gateway[i] = "paid"

\* A customer whose invoice is paid at Mayar gets a PAID payment, even when
\* every webhook is lost and every API process keeps crashing, unless he paid
\* for two: then each of two handlers may close the payment of the other.
PaidCustomerIsServed ==
  OutagesEnd =>
    \A u \in User : PaidInvoice(u) ~> (Rows(u, "paid") # {} \/ PaidTwice(u))
=============================================================================
