------------------------ MODULE TicketPaymentsProofs ------------------------
(***************************************************************************)
(* Theorems about TicketPayments, for every set of users, payments,        *)
(* vouchers, processes and handlers.                                       *)
(***************************************************************************)
EXTENDS TicketPayments, TLAPS, FiniteSetTheorems

LEMMA IdleIsHandlerState == Idle \in HandlerState
BY DEF Idle, HandlerState, Coupon, Type, RowStatus, OnLoop, Awaiting

\* A handler's step leaves all other handlers alone.
LEMMA BecomesTyped ==
  ASSUME HandlersOK, NEW s \in Slot, NEW h \in HandlerState,
         Becomes(s, h)
  PROVE  HandlersOK'
BY DEF Becomes, HandlersOK

LEMMA TablesUnchanged ==
  ASSUME TablesOK,
         UNCHANGED <<paymentTable, voucherTable, ptype, mayar, worker>>
  PROVE  TablesOK'
BY DEF TablesOK, paymentTable, voucherTable, mayar

RowColumns ==
  [Payment -> RowStatus] \X [Payment -> User \cup {NoUser}] \X [Payment -> Coupon]
    \X [Payment -> BOOLEAN] \X [Payment -> BOOLEAN]

\* A row that is inserted has the types of the payment table.
LEMMA InsertRowTyped ==
  ASSUME TablesOK, NEW s \in Slot, NEW p, NEW st \in RowStatus, InsertRow(s, p, st),
         api[s].user \in User \cup {NoUser}, api[s].coupon \in Coupon
  PROVE  (paymentTable \in RowColumns)'
BY DEF InsertRow, TablesOK, RowColumns, paymentTable

\* Steps of POST /payment.
LEMMA CreateStepTyped ==
  ASSUME TypeOK, NEW s \in Slot, CreateStep(s)
  PROVE  TypeOK'
<1> DEFINE h == api[s]
<1>0. TablesOK /\ HandlersOK /\ h \in HandlerState
  BY DEF TypeOK, HandlersOK
<1>1. ASSUME NEW u \in User, NEW c \in Coupon, BeginCreate(s, u, c)
      PROVE  TypeOK'
  <2>1. [Idle EXCEPT !.pc = "checked", !.user = u, !.coupon = c,
                     !.seenType = ptype[u]] \in HandlerState
    BY <1>0, IdleIsHandlerState DEF HandlerState, OnLoop, TablesOK
  <2>2. QED
    BY <1>0, <1>1, <2>1, BecomesTyped, TablesUnchanged DEF TypeOK, BeginCreate
<1>2. CASE RefuseVoucher(s)
  BY <1>0, <1>2, IdleIsHandlerState, BecomesTyped, TablesUnchanged
     DEF TypeOK, RefuseVoucher
<1>3. ASSUME NEW p \in Payment, GrantFree(s, p)
      PROVE  TypeOK'
  <2>1. HandlersOK'
    BY <1>0, <1>3, IdleIsHandlerState, BecomesTyped DEF GrantFree
  <2>2. h.user \in User \cup {NoUser} /\ h.coupon \in Coupon
    BY <1>0 DEF HandlerState
  <2>3. (paymentTable \in RowColumns)'
    BY <1>0, <1>3, <2>2, InsertRowTyped DEF GrantFree, RowStatus, PaymentStatus
  <2>4. (quota \in [Voucher -> Int])'
    BY <1>0, <1>3 DEF GrantFree, TablesOK
  <2>5. (ptype \in [User -> Type])'
    BY <1>0, <1>3, <2>2, TicketPaymentsAssumption DEF GrantFree, Promoted, TablesOK, Type
  <2>6. TablesOK'
    BY <1>0, <1>3, <2>3, <2>4, <2>5
       DEF GrantFree, TablesOK, RowColumns, paymentTable, mayar
  <2>7. QED
    BY <2>1, <2>6 DEF TypeOK
<1>4. ASSUME NEW p \in Payment, SubmitToMayar(s, p)
      PROVE  TypeOK'
  <2> DEFINE g == [h EXCEPT !.pc = "creating", !.pay = p,
                     !.left = IF h.coupon = NoVoucher THEN 0 ELSE quota[h.coupon]]
  <2>0. (IF h.coupon = NoVoucher THEN 0 ELSE quota[h.coupon]) \in Int
    BY <1>0 DEF HandlerState, TablesOK, Coupon
  <2>1. g \in HandlerState
    BY <1>0, <2>0 DEF HandlerState, Awaiting
  <2>2. Becomes(s, g)
    BY <1>4 DEF SubmitToMayar
  <2>3. TablesOK'
    BY <1>0, <1>4 DEF SubmitToMayar, TablesOK, paymentTable, mayar
  <2>4. QED
    BY <1>0, <2>1, <2>2, <2>3, BecomesTyped DEF TypeOK
<1>5. CASE MayarCreates(s)
  <2>1. PICK answer \in {"accepted", "rejected"} : Becomes(s, [h EXCEPT !.pc = answer])
    BY <1>5 DEF MayarCreates
  <2>2. [h EXCEPT !.pc = answer] \in HandlerState
    BY <1>0 DEF HandlerState, Awaiting
  <2>3. TablesOK'
    BY <1>0, <1>5 DEF MayarCreates, TablesOK, PaymentStatus, paymentTable, voucherTable
  <2>4. QED
    BY <1>0, <2>1, <2>2, <2>3, BecomesTyped DEF TypeOK
<1>6. CASE MayarRefuses(s)
  <2>1. [h EXCEPT !.pc = "rejected"] \in HandlerState
    BY <1>0 DEF HandlerState, Awaiting
  <2>2. QED
    BY <1>0, <1>6, <2>1, BecomesTyped, TablesUnchanged DEF TypeOK, MayarRefuses
<1>7. CASE CommitCreate(s)
  <2>1. HandlersOK'
    BY <1>0, <1>7, IdleIsHandlerState, BecomesTyped DEF CommitCreate
  <2>2. h.user \in User \cup {NoUser} /\ h.coupon \in Coupon /\ h.left \in Int
    BY <1>0 DEF HandlerState
  <2>3. (paymentTable \in RowColumns)'
    BY <1>0, <1>7, <2>2, InsertRowTyped DEF CommitCreate, RowStatus, PaymentStatus
  <2>4. (quota \in [Voucher -> Int])'
    BY <1>0, <1>7, <2>2 DEF CommitCreate, TablesOK
  <2>5. (locked \in [Voucher -> Slot \cup {NoSlot}])'
    BY <1>0, <1>7 DEF CommitCreate, Unlocked, TablesOK
  <2>6. TablesOK'
    BY <1>0, <1>7, <2>3, <2>4, <2>5
       DEF CommitCreate, TablesOK, RowColumns, paymentTable, mayar
  <2>7. QED
    BY <2>1, <2>6 DEF TypeOK
<1>8. CASE AbortCreate(s)
  <2>1. HandlersOK'
    BY <1>0, <1>8, IdleIsHandlerState, BecomesTyped DEF AbortCreate
  <2>2. TablesOK'
    BY <1>0, <1>8 DEF AbortCreate, Unlocked, TablesOK, paymentTable, mayar
  <2>3. QED
    BY <2>1, <2>2 DEF TypeOK
<1>9. QED
  BY <1>1, <1>2, <1>3, <1>4, <1>5, <1>6, <1>7, <1>8 DEF CreateStep

\* A payment, its user and its voucher, once read, are well-typed locals.
LEMMA LoadedTyped ==
  ASSUME TablesOK, NEW p \in Payment, ptype[owner[p]] \in Type
  PROVE  Loaded(p) \in HandlerState
BY IdleIsHandlerState DEF Loaded, TablesOK, HandlerState

\* Steps of the webhook and of the payment's detail page.
LEMMA SettleStepTyped ==
  ASSUME IInv, NEW s \in Slot, SettleStep(s)
  PROVE  TypeOK'
<1> DEFINE h == api[s]
<1>0. TablesOK /\ HandlersOK /\ h \in HandlerState
  BY DEF IInv, TypeOK, HandlersOK
<1>1. ASSUME NEW m \in hooks, ReceiveHook(s, m)
      PROVE  TypeOK'
  <2> DEFINE p == m.pay
             v == IF m.result = "success" THEN "paid" ELSE "unpaid"
             g == [Loaded(p) EXCEPT !.pc = IF v = "paid" THEN "loaded" ELSE "commit",
                                    !.verdict = v]
  <2>1. p \in Payment
    BY <1>0 DEF TablesOK, Hook
  <2>2. ptype[owner[p]] \in Type
    BY <1>0, <1>1, <2>1 DEF ReceiveHook, IInv, TablesFit, TablesOK
  <2>3. Loaded(p) \in HandlerState
    BY <1>0, <2>1, <2>2, LoadedTyped
  <2>4. g \in HandlerState
    <3> HIDE DEF p
    <3>1. v \in RowStatus /\ (IF v = "paid" THEN "loaded" ELSE "commit") \in OnLoop
      BY DEF RowStatus, PaymentStatus, OnLoop
    <3> HIDE DEF v
    <3>2. QED
      BY <2>3, <3>1 DEF HandlerState
  <2>5. Becomes(s, g) /\ UNCHANGED <<paymentTable, voucherTable, ptype, mayar, worker>>
    BY <1>1 DEF ReceiveHook
  <2>6. QED
    BY <1>0, <2>4, <2>5, BecomesTyped, TablesUnchanged DEF TypeOK
<1>2. ASSUME NEW p \in Payment, BeginDetail(s, p)
      PROVE  TypeOK'
  <2>1. ptype[owner[p]] \in Type
    BY <1>0, <1>2 DEF BeginDetail, IInv, TablesFit, TablesOK
  <2>2. [Loaded(p) EXCEPT !.pc = "polling"] \in HandlerState
    BY <1>0, <2>1, LoadedTyped DEF HandlerState, Awaiting, RowStatus
  <2>3. QED
    BY <1>0, <1>2, <2>2, BecomesTyped, TablesUnchanged DEF TypeOK, BeginDetail
<1>3. CASE MayarTells(s)
  <2>1. [h EXCEPT !.pc = "polled", !.verdict = Mapped(gateway[h.pay])] \in HandlerState
    BY <1>0 DEF HandlerState, Awaiting, Mapped, RowStatus, PaymentStatus
  <2>2. QED
    BY <1>0, <1>3, <2>1, BecomesTyped, TablesUnchanged DEF TypeOK, MayarTells
<1>4. CASE DetailLookupFails(s)
  BY <1>0, <1>4, IdleIsHandlerState, BecomesTyped, TablesUnchanged
     DEF TypeOK, DetailLookupFails
<1>5. CASE ResumeDetail(s)
  <2>1. /\ [h EXCEPT !.pc = "loaded"] \in HandlerState
        /\ [h EXCEPT !.pc = "commit"] \in HandlerState
    BY <1>0 DEF HandlerState, OnLoop
  <2>2. QED
    BY <1>0, <1>5, <2>1, IdleIsHandlerState, BecomesTyped, TablesUnchanged
       DEF TypeOK, ResumeDetail
<1>6. CASE SelectOthers(s)
  <2> DEFINE others == Rows(h.user, "unpaid") \ {h.pay}
             g == [h EXCEPT !.pc = IF others = {} THEN "commit" ELSE "closing",
                            !.victims = others, !.toClose = others]
  <2>1. others \subseteq Payment
    BY DEF Rows
  <2>2. g \in HandlerState
    BY <1>0, <2>1 DEF HandlerState, OnLoop, Awaiting
  <2>3. Becomes(s, g) /\ UNCHANGED <<paymentTable, voucherTable, ptype, mayar, worker>>
    BY <1>6 DEF SelectOthers
  <2>4. QED
    BY <1>0, <2>2, <2>3, BecomesTyped, TablesUnchanged DEF TypeOK
<1>7. ASSUME NEW p \in Payment, CloseInvoice(s, p)
      PROVE  TypeOK'
  <2>1. [h EXCEPT !.toClose = @ \ {p}] \in HandlerState
    BY <1>0 DEF HandlerState
  <2>2. HandlersOK'
    BY <1>0, <1>7, <2>1, BecomesTyped DEF CloseInvoice
  <2>3. TablesOK'
    BY <1>0, <1>7
       DEF CloseInvoice, InvoiceMayClose, TablesOK, PaymentStatus, paymentTable, voucherTable
  <2>4. QED
    BY <2>2, <2>3 DEF TypeOK
<1>8. CASE Settle(s)
  <2>1. h.verdict \in RowStatus /\ h.coupon \in Coupon
    BY <1>0 DEF HandlerState
  <2>2. HandlersOK'
    BY <1>0, <1>8, IdleIsHandlerState, BecomesTyped DEF Settle, StatusChanged
  <2>3. (status \in [Payment -> RowStatus])'
    BY <1>0, <1>8, <2>1 DEF Settle, StatusChanged, Written, TablesOK, RowStatus, PaymentStatus
  <2>4. (paidAt \in [Payment -> BOOLEAN])' /\ (closedAt \in [Payment -> BOOLEAN])'
    BY <1>0, <1>8 DEF Settle, StatusChanged, Written, TablesOK
  <2>5. (ptype \in [User -> Type])'
    BY <1>0, <1>8, <2>1, TicketPaymentsAssumption
       DEF Settle, StatusChanged, Promoted, TablesOK, Type
  <2>6. TablesOK'
    BY <1>0, <1>8, <2>3, <2>4, <2>5
       DEF Settle, StatusChanged, Written, TablesOK, voucherTable, mayar
  <2>7. QED
    BY <2>2, <2>6 DEF TypeOK
<1>9. QED
  BY <1>1, <1>2, <1>3, <1>4, <1>5, <1>6, <1>7, <1>8 DEF SettleStep

\* Steps of the worker, Mayar, administrators, and crashes.
LEMMA OtherStepTyped ==
  ASSUME TypeOK, SyncStep \/ GatewayStep \/ AdminStep \/ CrashStep
  PROVE  TypeOK'
<1> USE DEF TypeOK
<1>1. CASE SyncStep
  <2>1. HandlersOK'
    BY <1>1 DEF SyncStep, SyncBegins, SyncPolls, SyncPollFails, SyncCommits, Written, HandlersOK
  <2>2. CASE SyncCommits
    BY <2>1, <2>2 DEF SyncCommits, Written, TablesOK, RowStatus, PaymentStatus, Resting, voucherTable, mayar
  <2>3. CASE SyncBegins
    BY <2>1, <2>3 DEF SyncBegins, TablesOK, Resting, paymentTable, voucherTable, mayar
  <2>4. ASSUME NEW p \in Payment, SyncPolls(p) \/ SyncPollFails(p)
        PROVE  TypeOK'
    <3>1. PICK paid \in SUBSET Payment, closed \in SUBSET Payment :
            worker' = [worker EXCEPT !.todo = @ \ {p}, !.toPaid = @ \cup paid,
                                     !.toClosed = @ \cup closed]
      <4>1. CASE SyncPolls(p)
        <5>1. /\ {q \in {p} : Mapped(gateway[q]) = "paid"} \subseteq Payment
              /\ {q \in {p} : Mapped(gateway[q]) = "closed"} \subseteq Payment
          OBVIOUS
        <5>2. QED
          BY <4>1, <5>1 DEF SyncPolls
      <4>2. CASE SyncPollFails(p)
        <5>1. worker.toPaid \cup {} = worker.toPaid /\ worker.toClosed \cup {} = worker.toClosed
          OBVIOUS
        <5>2. worker' = [worker EXCEPT !.todo = @ \ {p}, !.toPaid = @ \cup {},
                                       !.toClosed = @ \cup {}]
          BY <4>2, <5>1 DEF SyncPollFails, TablesOK
        <5>3. QED
          BY <5>2
      <4>3. QED
        BY <2>4, <4>1, <4>2
    <3>2. (worker \in [pc : {"idle", "polling"}, todo : SUBSET Payment,
                        toPaid : SUBSET Payment, toClosed : SUBSET Payment])'
      BY <3>1 DEF TablesOK
    <3>3. UNCHANGED <<paymentTable, voucherTable, ptype, mayar>>
      BY <2>4 DEF SyncPolls, SyncPollFails
    <3>4. QED
      BY <2>1, <3>2, <3>3 DEF TablesOK, paymentTable, voucherTable, mayar
  <2>5. QED
    BY <1>1, <2>2, <2>3, <2>4 DEF SyncStep
<1>2. CASE GatewayStep
  <2>1. HandlersOK'
    BY <1>2 DEF GatewayStep, CustomerPays, InvoiceExpires, OddHook, HookLost, HandlersOK
  <2>2. UNCHANGED <<paymentTable, voucherTable, ptype, worker>>
    BY <1>2 DEF GatewayStep, CustomerPays, InvoiceExpires, OddHook, HookLost
  <2>3. (gateway \in [Payment -> PaymentStatus \cup {"none"}])'
    BY <1>2 DEF GatewayStep, CustomerPays, InvoiceExpires, OddHook, HookLost,
       TablesOK, PaymentStatus
  <2>4. (hooks \subseteq Hook)'
    BY <1>2 DEF GatewayStep, CustomerPays, InvoiceExpires, OddHook, HookLost, TablesOK, Hook
  <2>5. QED
    BY <2>1, <2>2, <2>3, <2>4 DEF TablesOK, paymentTable, voucherTable
<1>3. CASE AdminStep
  <2>1. HandlersOK'
    BY <1>3 DEF AdminStep, AdminSetsQuota, AdminSetsStatus, AdminReplaces, AdminWrites, HandlersOK
  <2>2. TablesOK'
    <3>1. PICK v \in Voucher, n \in Int, b \in BOOLEAN : AdminWrites(v, n, b)
      BY <1>3, TicketPaymentsAssumption
         DEF AdminStep, AdminSetsQuota, AdminSetsStatus, AdminReplaces, TablesOK
    <3>2. QED
      BY <3>1 DEF AdminWrites, TablesOK, paymentTable, mayar
  <2>3. QED
    BY <2>1, <2>2
<1>4. CASE CrashStep
  <2>1. HandlersOK'
    BY <1>4, IdleIsHandlerState DEF CrashStep, WorkerCrashes, ProcessCrashes, HandlersOK
  <2>2. TablesOK'
    BY <1>4 DEF CrashStep, WorkerCrashes, ProcessCrashes, Unlocked, TablesOK, Resting,
       paymentTable, voucherTable, mayar
  <2>3. QED
    BY <2>1, <2>2
<1>5. QED
  BY <1>1, <1>2, <1>3, <1>4

\* Where a step of one handler leads.
LEMMA BecomesAt ==
  ASSUME HandlersOK, NEW s \in Slot, NEW h, Becomes(s, h)
  PROVE  \A t \in Slot : api'[t] = IF t = s THEN h ELSE api[t]
BY DEF HandlersOK, Becomes

LEMMA IdleFits == ASSUME NEW s \in Slot PROVE Fits(s, Idle)
BY TicketPaymentsAssumption DEF Fits, Idle, Submitted, Settling

\* What the rest of the system must leave alone for the handler in slot t.
Keeps(t) ==
  /\ api'[t] = api[t]
  /\ \A p \in Payment : status[p] # "absent" => status'[p] # "absent"
  /\ \A p \in Payment : gateway[p] = "paid" => gateway'[p] = "paid"
  /\ api[t].pc \in Submitted =>
       status'[api[t].pay] = status[api[t].pay]
  /\ api[t].pc = "creating" => gateway'[api[t].pay] = gateway[api[t].pay]
  /\ \A v \in Voucher : locked[v] = t =>
       locked'[v] = t /\ active'[v] = active[v] /\ quota'[v] = quota[v]

LEMMA FitsStable ==
  ASSUME NEW t \in Slot, TypeOK, Fits(t, api[t]), Keeps(t)
  PROVE  Fits(t, api[t])'
<1>1. /\ api[t].pay \in Payment \cup {NoPayment} /\ api[t].coupon \in Coupon
      /\ api[t].victims \subseteq Payment
  BY DEF TypeOK, HandlersOK, HandlerState
<1>2. QED
  BY <1>1 DEF Fits, Keeps, Coupon

\* A step that concerns the locals of one handler only, outside of a purchase's
\* open transaction.
LEMMA QuietStep ==
  ASSUME IInv, NEW s \in Slot, NEW h \in HandlerState, Becomes(s, h), Fits(s, h),
         api[s].pc \notin Submitted, h.pc \notin Submitted,
         UNCHANGED <<paymentTable, voucherTable, ptype, mayar, worker>>
  PROVE  IInv'
<1> USE DEF paymentTable, voucherTable, mayar
<1>0. /\ TablesOK /\ HandlersOK /\ TablesFit
      /\ \A t \in Slot : api'[t] = IF t = s THEN h ELSE api[t]
      /\ \A t \in Slot : api[t].pay \in Payment \cup {NoPayment}
      /\ h.pay \in Payment \cup {NoPayment}
  BY BecomesAt DEF IInv, TypeOK, HandlersOK, HandlerState
<1>1. TypeOK'
  BY <1>0, BecomesTyped, TablesUnchanged DEF TypeOK
<1>2. TablesFit'
  BY <1>0 DEF TablesFit, PaidMeansMoney, QuotaNeverNegative
<1>3. ASSUME NEW t \in Slot PROVE Fits(t, api[t])'
  <2>1. CASE t = s
    BY <1>0, <2>1 DEF Fits
  <2>2. CASE t # s
    BY <1>0, <2>2, FitsStable DEF IInv, Keeps
  <2>3. QED
    BY <2>1, <2>2
<1>4. KeysApart'
  BY <1>0 DEF IInv, KeysApart, Fits
<1>5. LocksOwned'
  BY <1>0 DEF IInv, LocksOwned, TypeOK, TablesOK
<1>6. QED
  BY <1>1, <1>2, <1>3, <1>4, <1>5 DEF IInv

\* The handlers that still have an open purchase keep its key, the others get none.
LEMMA KeysApartStable ==
  ASSUME IInv,
         \A t \in Slot :
           /\ api'[t].pc \in Submitted =>
                api[t].pc \in Submitted /\ api'[t].pay = api[t].pay
           /\ api'[t].pay \in {api[t].pay, NoPayment}
  PROVE  KeysApart'
<1>1. /\ \A t \in Slot : api[t].pc \in Submitted => api[t].pay \in Payment
      /\ KeysApart
  BY DEF IInv, Fits
<1>2. QED
  BY <1>1, TicketPaymentsAssumption DEF KeysApart

\* Locks are released only, and a handler that has one keeps its voucher.
LEMMA LocksOwnedStable ==
  ASSUME IInv,
         \A v \in Voucher : locked'[v] \in {locked[v], NoSlot},
         \A t \in Slot : api[t].pc \in Submitted =>
            \/ api'[t].pc \in Submitted /\ api'[t].coupon = api[t].coupon
            \/ \A v \in Voucher : locked'[v] # t
  PROVE  LocksOwned'
<1>1. \A v \in Voucher : locked[v] \in Slot \cup {NoSlot}
  BY DEF IInv, TypeOK, TablesOK
<1>2. QED
  BY <1>1 DEF IInv, LocksOwned

\* The invariant, when every handler is left alone or fits anew.
LEMMA StepInv ==
  ASSUME IInv, TypeOK', TablesFit', KeysApart', LocksOwned',
         \A t \in Slot : Keeps(t) \/ Fits(t, api[t])'
  PROVE  IInv'
BY FitsStable DEF IInv

\* The steps of the webhook and of the detail page keep the invariant.
LEMMA SettleStepInv ==
  ASSUME IInv, NEW s \in Slot, SettleStep(s)
  PROVE  IInv'
<1> DEFINE h == api[s]
<1>0. /\ TablesOK /\ HandlersOK /\ TablesFit /\ Fits(s, h)
      /\ h \in HandlerState /\ h.pay \in Payment \cup {NoPayment}
      /\ NoPayment \notin Payment
  BY TicketPaymentsAssumption DEF IInv, TypeOK, HandlersOK, HandlerState
<1>t. TypeOK'
  BY SettleStepTyped
<1>1. ASSUME NEW m \in hooks, ReceiveHook(s, m)
      PROVE  IInv'
  <2> DEFINE g == [Loaded(m.pay) EXCEPT
                     !.pc = IF (IF m.result = "success" THEN "paid" ELSE "unpaid") = "paid"
                            THEN "loaded" ELSE "commit",
                     !.verdict = IF m.result = "success" THEN "paid" ELSE "unpaid"]
  <2>1. /\ m.pay \in Payment /\ status[m.pay] # "absent"
        /\ api[s] = Idle /\ Becomes(s, g)
        /\ UNCHANGED <<paymentTable, voucherTable, ptype, mayar, worker>>
    BY <1>0, <1>1 DEF ReceiveHook, TablesOK, Hook
  <2>2. g.pay = m.pay /\ g.victims = {} /\ g.pc \in {"loaded", "commit"}
        /\ g.verdict = IF m.result = "success" THEN "paid" ELSE "unpaid"
    BY DEF Loaded, Idle
  <2>3. g \in HandlerState
    BY <1>t, <2>1 DEF TypeOK, HandlersOK, Becomes, IInv
  <2> HIDE DEF g
  <2>4. Fits(s, g)
    BY <1>0, <2>1, <2>2 DEF Fits, Submitted, Settling, PaymentStatus, TablesFit
  <2>5. QED
    BY <2>1, <2>2, <2>3, <2>4, QuietStep DEF Idle, Submitted
<1>2. ASSUME NEW p \in Payment, BeginDetail(s, p)
      PROVE  IInv'
  <2> DEFINE g == [Loaded(p) EXCEPT !.pc = "polling"]
  <2>1. g.pay = p /\ g.victims = {} /\ g.pc = "polling" /\ g.verdict = "absent"
    BY DEF Loaded, Idle
  <2>2. g \in HandlerState
    BY <1>0, <1>2, <1>t DEF BeginDetail, TypeOK, HandlersOK, Becomes
  <2>3. /\ status[p] # "absent" /\ api[s].pc = "idle" /\ Becomes(s, g)
        /\ UNCHANGED <<paymentTable, voucherTable, ptype, mayar, worker>>
    BY <1>2 DEF BeginDetail, Idle
  <2> HIDE DEF g
  <2>4. Fits(s, g)
    BY <2>1, <2>3 DEF Fits, Submitted, Settling
  <2>5. QED
    BY <2>1, <2>2, <2>3, <2>4, QuietStep DEF Submitted
<1>3. CASE MayarTells(s)
  <2> DEFINE g == [h EXCEPT !.pc = "polled", !.verdict = Mapped(gateway[h.pay])]
  <2>1. /\ g.pay = h.pay /\ g.victims = h.victims /\ g.pc = "polled"
        /\ g.verdict = Mapped(gateway[h.pay])
    BY <1>0 DEF HandlerState
  <2>2. g \in HandlerState
    BY <1>0, <1>3, <1>t DEF MayarTells, TypeOK, HandlersOK, Becomes
  <2> HIDE DEF g
  <2>3. Fits(s, g)
    BY <1>0, <1>3, <2>1
       DEF MayarTells, Fits, Mapped, Submitted, Settling, PaymentStatus
  <2>4. QED
    BY <1>3, <2>1, <2>2, <2>3, QuietStep DEF MayarTells, Submitted, g
<1>4. CASE DetailLookupFails(s)
  BY <1>4, IdleFits, IdleIsHandlerState, QuietStep DEF DetailLookupFails, Idle, Submitted
<1>5. CASE ResumeDetail(s)
  <2>1. CASE Becomes(s, Idle)
    BY <1>5, <2>1, IdleFits, IdleIsHandlerState, QuietStep DEF ResumeDetail, Idle, Submitted
  <2>2. ASSUME NEW pc \in {"loaded", "commit"}, Becomes(s, [h EXCEPT !.pc = pc])
        PROVE  IInv'
    <3> DEFINE g == [h EXCEPT !.pc = pc]
    <3>1. /\ g.pay = h.pay /\ g.victims = h.victims /\ g.pc = pc
          /\ g.verdict = h.verdict
      BY <1>0 DEF HandlerState
    <3>2. g \in HandlerState
      BY <1>0 DEF HandlerState, OnLoop
    <3> HIDE DEF g
    <3>3. Fits(s, g)
      BY <1>0, <1>5, <3>1 DEF ResumeDetail, Fits, Submitted, Settling
    <3>4. QED
      BY <1>5, <2>2, <3>1, <3>2, <3>3, QuietStep DEF ResumeDetail, Submitted, g
  <2>3. QED
    BY <1>5, <2>1, <2>2 DEF ResumeDetail
<1>6. CASE SelectOthers(s)
  <2> DEFINE others == Rows(h.user, "unpaid") \ {h.pay}
             g == [h EXCEPT !.pc = IF others = {} THEN "commit" ELSE "closing",
                            !.victims = others, !.toClose = others]
  <2>1. /\ g.pay = h.pay /\ g.victims = others /\ g.pc \in {"closing", "commit"}
        /\ g.verdict = h.verdict
    BY <1>0 DEF HandlerState
  <2>2. g \in HandlerState
    BY <1>0, <1>6, <1>t DEF SelectOthers, TypeOK, HandlersOK, Becomes
  <2>3. \A p \in others : status[p] # "absent"
    BY DEF Rows
  <2>4. Becomes(s, g) /\ h.pc = "loaded"
        /\ UNCHANGED <<paymentTable, voucherTable, ptype, mayar, worker>>
    BY <1>6 DEF SelectOthers
  <2> HIDE DEF g, others
  <2>5. Fits(s, g)
    BY <1>0, <2>1, <2>3, <2>4 DEF Fits, Submitted, Settling
  <2>6. QED
    BY <2>1, <2>2, <2>4, <2>5, QuietStep DEF Submitted
<1>7. ASSUME NEW p \in Payment, CloseInvoice(s, p)
      PROVE  IInv'
  <2> DEFINE g == [h EXCEPT !.toClose = @ \ {p}]
  <2>1. /\ g.pay = h.pay /\ g.victims = h.victims /\ g.pc = h.pc
        /\ g.verdict = h.verdict /\ h.pc = "closing"
    BY <1>0, <1>7 DEF HandlerState, CloseInvoice
  <2>2. /\ \A t \in Slot : api'[t] = IF t = s THEN g ELSE api[t]
        /\ UNCHANGED <<paymentTable, voucherTable, ptype, hooks, worker>>
    BY <1>0, <1>7, BecomesAt DEF CloseInvoice
  <2>3. \A q \in Payment : \/ gateway'[q] = gateway[q]
                           \/ gateway[q] = "unpaid" /\ gateway'[q] = "closed"
    <3>1. \/ gateway[p] = "unpaid" /\ gateway' = [gateway EXCEPT ![p] = "closed"]
          \/ gateway' = gateway
      BY <1>7 DEF CloseInvoice, InvoiceMayClose
    <3>2. gateway \in [Payment -> PaymentStatus \cup {"none"}]
      BY <1>0 DEF TablesOK
    <3>3. QED
      BY <3>1, <3>2
  <2> HIDE DEF g
  <2> USE DEF paymentTable, voucherTable
  <2>4. Fits(s, api[s])'
    BY <1>0, <2>1, <2>2, <2>3 DEF Fits, Submitted, Settling
  <2>5. \A t \in Slot : t # s => Keeps(t)
    BY <2>2, <2>3 DEF Keeps, IInv, Fits, Submitted
  <2>6. TablesFit'
    <3>1. \A q \in Payment : gateway[q] = "paid" => gateway'[q] = "paid"
      BY <2>3
    <3>2. \A m \in hooks : m.pay \in Payment
      BY <1>0 DEF TablesOK, Hook
    <3>3. PaidMeansMoney'
      BY <1>0, <2>2, <3>1 DEF TablesFit, PaidMeansMoney
    <3>4. worker.toPaid \subseteq Payment
      BY <1>0 DEF TablesOK
    <3>5. QED
      BY <1>0, <2>2, <3>1, <3>2, <3>3, <3>4 DEF TablesFit, QuotaNeverNegative
  <2>7. KeysApart'
    BY <2>1, <2>2, KeysApartStable DEF Submitted
  <2>8. LocksOwned'
    BY <2>1, <2>2, LocksOwnedStable DEF Submitted
  <2>9. QED
    BY <1>t, <2>4, <2>5, <2>6, <2>7, <2>8, StepInv
<1>8. CASE Settle(s)
  <2>1. /\ h.pc \in {"commit", "closing"} /\ h.pay \in Payment
        /\ status[h.pay] # "absent" /\ h.verdict \in PaymentStatus
        /\ h.verdict = "paid" => gateway[h.pay] = "paid"
        /\ \A p \in h.victims : status[p] # "absent"
    BY <1>0, <1>8 DEF Settle, StatusChanged, Fits, Submitted, Settling
  <2>2. /\ \A t \in Slot : api'[t] = IF t = s THEN Idle ELSE api[t]
        /\ UNCHANGED <<owner, coupon, quota, active, locked, gateway, hooks, worker>>
    BY <1>0, <1>8, BecomesAt DEF Settle, StatusChanged, Written, voucherTable, mayar
  <2>3. \A p \in Payment :
          \/ status'[p] = status[p]
          \/ p = h.pay /\ status'[p] = h.verdict
          \/ p \in h.victims /\ status'[p] = "closed"
    BY <1>8 DEF Settle, StatusChanged, Written
  <2>4. \A p \in Payment : (status'[p] = "absent") <=> (status[p] = "absent")
    BY <2>1, <2>3 DEF PaymentStatus
  <2>5. Fits(s, api[s])'
    BY <2>2, TicketPaymentsAssumption DEF Fits, Idle, Submitted, Settling
  <2>6. \A t \in Slot : t # s => Keeps(t)
    BY <2>2, <2>4 DEF Keeps, IInv, Fits
  <2>7. TablesFit'
    <3>1. PaidMeansMoney'
      BY <1>0, <2>1, <2>2, <2>3 DEF TablesFit, PaidMeansMoney
    <3>2. QED
      BY <1>0, <2>2, <2>4, <3>1 DEF TablesFit, QuotaNeverNegative, TablesOK
  <2>8. KeysApart'
    BY <2>1, <2>2, KeysApartStable DEF Idle, Submitted
  <2>9. LocksOwned'
    BY <2>1, <2>2, LocksOwnedStable DEF Submitted
  <2>10. QED
    BY <1>t, <2>5, <2>6, <2>7, <2>8, <2>9, StepInv
<1>9. QED
  BY <1>1, <1>2, <1>3, <1>4, <1>5, <1>6, <1>7, <1>8 DEF SettleStep

\* The steps of POST /payment keep the invariant.
LEMMA CreateStepInv ==
  ASSUME IInv, NEW s \in Slot, CreateStep(s)
  PROVE  IInv'
<1> DEFINE h == api[s]
           v == h.coupon
<1>0. /\ TablesOK /\ HandlersOK /\ TablesFit /\ KeysApart /\ LocksOwned
      /\ \A t \in Slot : Fits(t, api[t])
      /\ h \in HandlerState /\ h.pay \in Payment \cup {NoPayment} /\ v \in Coupon
      /\ NoPayment \notin Payment /\ NoSlot \notin Slot /\ NoVoucher \notin Voucher
  BY TicketPaymentsAssumption DEF IInv, TypeOK, HandlersOK, HandlerState
<1>t. TypeOK'
  BY CreateStepTyped DEF IInv
<1>1. ASSUME NEW u \in User, NEW c \in Coupon, BeginCreate(s, u, c)
      PROVE  IInv'
  <2> DEFINE g == [Idle EXCEPT !.pc = "checked", !.user = u, !.coupon = c,
                               !.seenType = ptype[u]]
  <2>1. /\ g.pc = "checked" /\ g.user = u /\ g.pay = NoPayment
        /\ g.verdict = "absent" /\ g.victims = {}
    BY DEF Idle
  <2>2. /\ api[s].pc = "idle" /\ Becomes(s, g)
        /\ UNCHANGED <<paymentTable, voucherTable, ptype, mayar, worker>>
    BY <1>1 DEF BeginCreate, Idle
  <2>3. g \in HandlerState
    BY <1>0, IdleIsHandlerState DEF HandlerState, OnLoop, TablesOK
  <2> HIDE DEF g
  <2>4. Fits(s, g)
    BY <1>0, <2>1 DEF Fits, Submitted, Settling
  <2>5. QED
    BY <2>1, <2>2, <2>3, <2>4, QuietStep DEF Submitted
<1>2. CASE RefuseVoucher(s)
  BY <1>2, IdleFits, IdleIsHandlerState, QuietStep DEF RefuseVoucher, Idle, Submitted
<1>3. ASSUME NEW p \in Payment, GrantFree(s, p)
      PROVE  IInv'
  <2>1. /\ h.pc = "checked" /\ h.user \in User /\ v \in FreeWith
        /\ status[p] = "absent" /\ \A t \in Slot : api[t].pay # p
        /\ v # NoVoucher => locked[v] = NoSlot /\ quota[v] > 0
    BY <1>0, <1>3 DEF GrantFree, Fresh, VoucherTaken, Usable, Fits
  <2>2. /\ \A t \in Slot : api'[t] = IF t = s THEN Idle ELSE api[t]
        /\ UNCHANGED <<active, locked, gateway, hooks, worker>>
    BY <1>0, <1>3, BecomesAt DEF GrantFree, mayar
  <2>3. \A q \in Payment : /\ status'[q] = IF q = p THEN "paid" ELSE status[q]
                           /\ owner'[q] = IF q = p THEN h.user ELSE owner[q]
                           /\ coupon'[q] = IF q = p THEN v ELSE coupon[q]
    BY <1>0, <1>3 DEF GrantFree, InsertRow, TablesOK
  <2>4. \A w \in Voucher : quota'[w] = IF w = v THEN quota[w] - 1 ELSE quota[w]
    BY <1>3 DEF GrantFree
  <2>5. Fits(s, api[s])'
    BY <1>0, <2>2 DEF Fits, Idle, Submitted, Settling
  <2>6. ASSUME NEW t \in Slot, t # s PROVE Keeps(t)
    <3>1. \A w \in Voucher : locked[w] = t => w # v
      BY <1>0, <2>1
    <3>2. \A w \in Voucher : locked[w] = t =>
            locked'[w] = t /\ active'[w] = active[w] /\ quota'[w] = quota[w]
      BY <2>2, <2>4, <3>1
    <3>3. api[t].pc \in Submitted => api[t].pay \in Payment /\ api[t].pay # p
      BY <1>0, <2>1 DEF Fits
    <3>4. QED
      BY <2>2, <2>3, <2>6, <3>2, <3>3 DEF Keeps
  <2>7. TablesFit'
    <3>1. PaidMeansMoney'
      BY <1>0, <2>1, <2>2, <2>3 DEF TablesFit, PaidMeansMoney
    <3>2. QuotaNeverNegative'
      BY <1>0, <2>1, <2>4 DEF TablesFit, QuotaNeverNegative, TablesOK
    <3>3. QED
      BY <1>0, <2>1, <2>2, <2>3, <3>1, <3>2 DEF TablesFit, TablesOK
  <2>8. KeysApart'
    BY <2>2, KeysApartStable DEF Idle, Submitted
  <2>9. LocksOwned'
    BY <2>1, <2>2, LocksOwnedStable DEF Submitted
  <2>10. QED
    BY <1>t, <2>5, <2>6, <2>7, <2>8, <2>9, StepInv
<1>4. ASSUME NEW p \in Payment, SubmitToMayar(s, p)
      PROVE  IInv'
  <2> DEFINE g == [h EXCEPT !.pc = "creating", !.pay = p,
                     !.left = IF v = NoVoucher THEN 0 ELSE quota[v]]
  <2>1. /\ h.pc = "checked" /\ h.user \in User /\ h.verdict = "absent"
        /\ status[p] = "absent" /\ gateway[p] = "none" /\ \A t \in Slot : api[t].pay # p
        /\ v # NoVoucher => locked[v] = NoSlot /\ quota[v] > 0 /\ active[v]
    BY <1>0, <1>4 DEF SubmitToMayar, Fresh, VoucherTaken, Usable, Fits
  <2>2. /\ g.pc = "creating" /\ g.pay = p /\ g.user = h.user /\ g.coupon = v
        /\ g.left = IF v = NoVoucher THEN 0 ELSE quota[v]
        /\ g.victims = h.victims /\ g.verdict = h.verdict
    BY <1>0 DEF HandlerState
  <2>3. Becomes(s, g)
    BY <1>4 DEF SubmitToMayar
  <2> HIDE DEF g
  <2>4. \A t \in Slot : api'[t] = IF t = s THEN g ELSE api[t]
    BY <1>0, <2>3, BecomesAt
  <2>5. /\ \A w \in Voucher : locked'[w] = IF w = v THEN s ELSE locked[w]
        /\ UNCHANGED <<status, owner, coupon, quota, active, gateway, hooks, worker>>
    BY <1>4 DEF SubmitToMayar, paymentTable, mayar
  <2>6. v # NoVoucher => v \in Voucher
    BY <1>0 DEF Coupon
  <2>7. Fits(s, api[s])'
    <3>1. \A q \in h.victims : status[q] # "absent"
      BY <1>0 DEF Fits
    <3>2. QED
      BY <1>0, <2>1, <2>2, <2>4, <2>5, <2>6, <3>1 DEF Fits, Submitted, Settling
  <2>8. \A t \in Slot : t # s => Keeps(t)
    BY <1>0, <2>1, <2>4, <2>5 DEF Keeps
  <2>9. TablesFit'
    BY <1>0, <2>5 DEF TablesFit, PaidMeansMoney, QuotaNeverNegative
  <2>10. KeysApart'
    BY <1>0, <2>1, <2>2, <2>4 DEF KeysApart
  <2>11. LocksOwned'
    BY <1>0, <2>1, <2>2, <2>4, <2>5 DEF LocksOwned, Submitted, TablesOK
  <2>12. QED
    BY <1>t, <2>7, <2>8, <2>9, <2>10, <2>11, StepInv
<1>5. CASE MayarCreates(s)
  <2>1. PICK answer \in {"accepted", "rejected"} : Becomes(s, [h EXCEPT !.pc = answer])
    BY <1>5 DEF MayarCreates
  <2> DEFINE g == [h EXCEPT !.pc = answer]
  <2>2. /\ g.pc = answer /\ g.pay = h.pay /\ g.user = h.user /\ g.coupon = v
        /\ g.left = h.left /\ g.victims = h.victims /\ g.verdict = h.verdict
    BY <1>0 DEF HandlerState
  <2>3. \A t \in Slot : api'[t] = IF t = s THEN g ELSE api[t]
    BY <1>0, <2>1, BecomesAt
  <2> HIDE DEF g
  <2>4. h.pc = "creating" /\ h.pay \in Payment /\ gateway[h.pay] = "none"
    BY <1>0, <1>5 DEF MayarCreates, Fits, Submitted
  <2>5. /\ \A q \in Payment : gateway'[q] = IF q = h.pay THEN "unpaid" ELSE gateway[q]
        /\ UNCHANGED <<status, owner, coupon, quota, active, locked, hooks, worker>>
    BY <1>0, <1>5 DEF MayarCreates, TablesOK, paymentTable, voucherTable
  <2>6. Fits(s, api[s])'
    BY <1>0, <2>2, <2>3, <2>4, <2>5 DEF Fits, Submitted, Settling
  <2>7. \A t \in Slot : t # s => Keeps(t)
    BY <1>0, <2>3, <2>4, <2>5 DEF Keeps, KeysApart, Fits, Submitted
  <2>8. TablesFit'
    <3>1. \A m \in hooks : m.pay \in Payment
      BY <1>0 DEF TablesOK, Hook
    <3>2. worker.toPaid \subseteq Payment
      BY <1>0 DEF TablesOK
    <3>3. \A q \in Payment : gateway[q] = "paid" => gateway'[q] = "paid"
      BY <2>4, <2>5
    <3>4. PaidMeansMoney'
      BY <1>0, <2>5, <3>3 DEF TablesFit, PaidMeansMoney
    <3>5. QED
      BY <1>0, <2>5, <3>1, <3>2, <3>3, <3>4 DEF TablesFit, QuotaNeverNegative
  <2>9. KeysApart'
    BY <2>2, <2>3, <2>4, KeysApartStable DEF Submitted
  <2>10. LocksOwned'
    BY <2>2, <2>3, <2>5, LocksOwnedStable DEF Submitted
  <2>11. QED
    BY <1>t, <2>6, <2>7, <2>8, <2>9, <2>10, StepInv
<1>6. CASE MayarRefuses(s)
  <2> DEFINE g == [h EXCEPT !.pc = "rejected"]
  <2>1. /\ g.pc = "rejected" /\ g.pay = h.pay /\ g.user = h.user /\ g.coupon = v
        /\ g.left = h.left /\ g.victims = h.victims /\ g.verdict = h.verdict
    BY <1>0 DEF HandlerState
  <2>2. \A t \in Slot : api'[t] = IF t = s THEN g ELSE api[t]
    BY <1>0, <1>6, BecomesAt DEF MayarRefuses
  <2> HIDE DEF g
  <2>3. /\ h.pc = "creating"
        /\ UNCHANGED <<status, owner, coupon, quota, active, locked, gateway, hooks, worker>>
    BY <1>6 DEF MayarRefuses, paymentTable, voucherTable, mayar
  <2>4. Fits(s, api[s])'
    BY <1>0, <2>1, <2>2, <2>3 DEF Fits, Submitted, Settling
  <2>5. \A t \in Slot : t # s => Keeps(t)
    BY <2>2, <2>3 DEF Keeps
  <2>6. TablesFit'
    BY <1>0, <2>3 DEF TablesFit, PaidMeansMoney, QuotaNeverNegative
  <2>7. KeysApart'
    BY <2>1, <2>2, <2>3, KeysApartStable DEF Submitted
  <2>8. LocksOwned'
    BY <2>1, <2>2, <2>3, LocksOwnedStable DEF Submitted
  <2>9. QED
    BY <1>t, <2>4, <2>5, <2>6, <2>7, <2>8, StepInv
<1>7. CASE CommitCreate(s)
  <2>1. /\ h.pc = "accepted" /\ h.user \in User /\ h.pay \in Payment
        /\ status[h.pay] = "absent"
        /\ v # NoVoucher => locked[v] = s /\ h.left > 0
    BY <1>0, <1>7 DEF CommitCreate, Fits, Submitted
  <2>2. /\ \A t \in Slot : api'[t] = IF t = s THEN Idle ELSE api[t]
        /\ UNCHANGED <<active, gateway, hooks, worker>>
    BY <1>0, <1>7, BecomesAt DEF CommitCreate, mayar
  <2>3. \A q \in Payment :
          /\ status'[q] = IF q = h.pay THEN "unpaid" ELSE status[q]
          /\ owner'[q] = IF q = h.pay THEN h.user ELSE owner[q]
          /\ coupon'[q] = IF q = h.pay THEN v ELSE coupon[q]
    BY <1>0, <1>7 DEF CommitCreate, InsertRow, TablesOK
  <2>4. \A w \in Voucher : /\ quota'[w] = IF w = v THEN h.left - 1 ELSE quota[w]
                           /\ locked'[w] = IF locked[w] = s THEN NoSlot ELSE locked[w]
    BY <1>7 DEF CommitCreate, Unlocked
  <2>5. Fits(s, api[s])'
    BY <1>0, <2>2 DEF Fits, Idle, Submitted, Settling
  <2>6. ASSUME NEW t \in Slot, t # s PROVE Keeps(t)
    <3>1. \A w \in Voucher : locked[w] = t => w # v
      BY <1>0, <2>1, <2>6
    <3>2. \A w \in Voucher : locked[w] = t =>
            locked'[w] = t /\ active'[w] = active[w] /\ quota'[w] = quota[w]
      BY <2>2, <2>4, <2>6, <3>1
    <3>3. api[t].pc \in Submitted => api[t].pay \in Payment /\ api[t].pay # h.pay
      BY <1>0, <2>1, <2>6 DEF Fits, KeysApart, Submitted
    <3>4. QED
      BY <2>2, <2>3, <2>6, <3>2, <3>3 DEF Keeps
  <2>7. TablesFit'
    <3>1. PaidMeansMoney'
      BY <1>0, <2>1, <2>2, <2>3 DEF TablesFit, PaidMeansMoney
    <3>2. h.left \in Int
      BY <1>0 DEF HandlerState
    <3>3. QuotaNeverNegative'
      BY <1>0, <2>1, <2>4, <3>2 DEF TablesFit, QuotaNeverNegative
    <3>4. QED
      BY <1>0, <2>1, <2>2, <2>3, <3>1, <3>3 DEF TablesFit, TablesOK
  <2>8. KeysApart'
    BY <2>2, KeysApartStable DEF Idle, Submitted
  <2>9. LocksOwned'
    BY <1>0, <2>2, <2>4, LocksOwnedStable
  <2>10. QED
    BY <1>t, <2>5, <2>6, <2>7, <2>8, <2>9, StepInv
<1>8. CASE AbortCreate(s)
  <2>1. /\ \A t \in Slot : api'[t] = IF t = s THEN Idle ELSE api[t]
        /\ UNCHANGED <<status, owner, coupon, quota, active, gateway, hooks, worker>>
    BY <1>0, <1>8, BecomesAt DEF AbortCreate, paymentTable, mayar
  <2>2. \A w \in Voucher : locked'[w] = IF locked[w] = s THEN NoSlot ELSE locked[w]
    BY <1>8 DEF AbortCreate, Unlocked
  <2>3. Fits(s, api[s])'
    BY <1>0, <2>1 DEF Fits, Idle, Submitted, Settling
  <2>4. \A t \in Slot : t # s => Keeps(t)
    BY <2>1, <2>2 DEF Keeps
  <2>5. TablesFit'
    BY <1>0, <2>1 DEF TablesFit, PaidMeansMoney, QuotaNeverNegative
  <2>6. KeysApart'
    BY <2>1, KeysApartStable DEF Idle, Submitted
  <2>7. LocksOwned'
    BY <1>0, <2>1, <2>2, LocksOwnedStable
  <2>8. QED
    BY <1>t, <2>3, <2>4, <2>5, <2>6, <2>7, StepInv
<1>9. QED
  BY <1>1, <1>2, <1>3, <1>4, <1>5, <1>6, <1>7, <1>8 DEF CreateStep

\* The steps of the worker, Mayar, administrators and crashes keep the invariant.
LEMMA OtherStepInv ==
  ASSUME IInv, SyncStep \/ GatewayStep \/ AdminStep \/ CrashStep
  PROVE  IInv'
<1>0. /\ TablesOK /\ HandlersOK /\ TablesFit /\ KeysApart /\ LocksOwned
      /\ \A t \in Slot : Fits(t, api[t])
      /\ NoPayment \notin Payment /\ NoSlot \notin Slot
      /\ hooks \subseteq Hook /\ \A m \in hooks : m.pay \in Payment
      /\ worker.todo \cup worker.toPaid \cup worker.toClosed \subseteq Payment
  BY TicketPaymentsAssumption DEF IInv, TypeOK, TablesOK, Hook
<1>t. TypeOK'
  BY OtherStepTyped DEF IInv
<1>u. ASSUME UNCHANGED <<api, locked>>
      PROVE  KeysApart' /\ LocksOwned'
  BY <1>0, <1>u DEF KeysApart, LocksOwned
<1>1. CASE SyncStep
  <2>1. UNCHANGED <<owner, coupon, quota, active, locked, gateway, hooks, api>>
    BY <1>1 DEF SyncStep, SyncBegins, SyncPolls, SyncPollFails, SyncCommits, Written,
       paymentTable, voucherTable, mayar
  <2>2. CASE SyncCommits
    <3>1. \A p \in Payment :
            \/ status'[p] = status[p]
            \/ p \in worker.toPaid /\ status'[p] = "paid"
            \/ p \in worker.toClosed /\ status'[p] = "closed"
      BY <2>2 DEF SyncCommits, Written
    <3>2. worker'.todo = {} /\ worker'.toPaid = {} /\ worker'.toClosed = {}
      BY <2>2 DEF SyncCommits, Resting
    <3>3. \A p \in Payment : (status'[p] = "absent") <=> (status[p] = "absent")
      BY <1>0, <3>1 DEF TablesFit
    <3>4. PaidMeansMoney'
      BY <1>0, <2>1, <3>1 DEF TablesFit, PaidMeansMoney
    <3>5. TablesFit'
      BY <1>0, <2>1, <3>2, <3>3, <3>4 DEF TablesFit, QuotaNeverNegative
    <3>6. \A t \in Slot : Keeps(t)
      BY <1>0, <2>1, <3>3 DEF Keeps, Fits
    <3>7. QED
      BY <1>t, <1>u, <2>1, <3>5, <3>6, StepInv
  <2>3. CASE ~SyncCommits
    <3>1. UNCHANGED status
      BY <1>1, <2>3 DEF SyncStep, SyncBegins, SyncPolls, SyncPollFails, paymentTable
    <3>2. /\ \A p \in worker'.toPaid : gateway[p] = "paid"
          /\ \A p \in worker'.todo \cup worker'.toPaid \cup worker'.toClosed :
               status[p] # "absent"
      <4>1. CASE SyncBegins
        BY <4>1 DEF SyncBegins, Resting
      <4>2. ASSUME NEW p \in Payment, SyncPolls(p)
            PROVE  <3>2
        <5>1. /\ worker'.todo \subseteq worker.todo
              /\ worker'.toPaid = worker.toPaid \cup {q \in {p} : Mapped(gateway[q]) = "paid"}
              /\ worker'.toClosed = worker.toClosed \cup {q \in {p} : Mapped(gateway[q]) = "closed"}
              /\ p \in worker.todo
          BY <1>0, <4>2 DEF SyncPolls, TablesOK
        <5>2. QED
          BY <1>0, <5>1 DEF Mapped, TablesFit
      <4>3. ASSUME NEW p \in Payment, SyncPollFails(p)
            PROVE  <3>2
        <5>1. /\ worker'.todo \subseteq worker.todo
              /\ worker'.toPaid = worker.toPaid /\ worker'.toClosed = worker.toClosed
          BY <1>0, <4>3 DEF SyncPollFails, TablesOK
        <5>2. QED
          BY <1>0, <5>1 DEF TablesFit
      <4>4. QED
        BY <1>1, <2>3, <4>1, <4>2, <4>3 DEF SyncStep
    <3>3. TablesFit'
      BY <1>0, <2>1, <3>1, <3>2 DEF TablesFit, PaidMeansMoney, QuotaNeverNegative
    <3>4. \A t \in Slot : Keeps(t)
      BY <2>1, <3>1 DEF Keeps
    <3>5. QED
      BY <1>t, <1>u, <2>1, <3>3, <3>4, StepInv
  <2>4. QED
    BY <2>2, <2>3
<1>2. CASE GatewayStep
  <2>1. UNCHANGED <<status, owner, coupon, quota, active, locked, api, worker>>
    BY <1>2 DEF GatewayStep, CustomerPays, InvoiceExpires, OddHook, HookLost,
       paymentTable, voucherTable
  <2>2. \A q \in Payment :
          \/ gateway'[q] = gateway[q]
          \/ gateway[q] = "unpaid" /\ gateway'[q] \in {"paid", "closed"}
    <3>1. gateway \in [Payment -> PaymentStatus \cup {"none"}]
      BY <1>0 DEF TablesOK
    <3>2. QED
      BY <1>2, <3>1 DEF GatewayStep, CustomerPays, InvoiceExpires, OddHook, HookLost
  <2>3. \A m \in hooks' : m.result = "success" => gateway'[m.pay] = "paid"
    <3>1. \A m \in hooks : m.result = "success" => gateway'[m.pay] = "paid"
      BY <1>0, <2>2 DEF TablesFit
    <3>2. ASSUME NEW p \in Payment, CustomerPays(p) PROVE <2>3
      <4>1. gateway'[p] = "paid" /\ hooks' = hooks \cup {[pay |-> p, result |-> "success"]}
        BY <1>0, <3>2 DEF CustomerPays, TablesOK
      <4>2. QED
        BY <3>1, <4>1
    <3>3. ASSUME NEW p \in Payment, OddHook(p) PROVE <2>3
      BY <3>1, <3>3 DEF OddHook
    <3>4. ASSUME NEW p \in Payment, InvoiceExpires(p) PROVE <2>3
      BY <3>1, <3>4 DEF InvoiceExpires
    <3>5. ASSUME NEW m \in hooks, HookLost(m) PROVE <2>3
      BY <3>1, <3>5 DEF HookLost
    <3>6. QED
      BY <1>2, <3>2, <3>3, <3>4, <3>5 DEF GatewayStep
  <2>4. TablesFit'
    BY <1>0, <2>1, <2>2, <2>3 DEF TablesFit, PaidMeansMoney, QuotaNeverNegative
  <2>5. \A t \in Slot : Keeps(t)
    BY <1>0, <2>1, <2>2 DEF Keeps, Fits, Submitted
  <2>6. QED
    BY <1>t, <1>u, <2>1, <2>4, <2>5, StepInv
<1>3. CASE AdminStep
  <2>1. PICK v \in Voucher, n \in Nat, b \in BOOLEAN : AdminWrites(v, n, b)
    BY <1>0, <1>3, TicketPaymentsAssumption DEF AdminStep, AdminSetsQuota,
       AdminSetsStatus, AdminReplaces, TablesOK, TablesFit, QuotaNeverNegative
  <2>2. /\ locked[v] = NoSlot
        /\ UNCHANGED <<status, owner, coupon, locked, gateway, hooks, api, worker>>
    BY <2>1 DEF AdminWrites, paymentTable, mayar
  <2>3. /\ \A w \in Voucher : w # v => quota'[w] = quota[w] /\ active'[w] = active[w]
        /\ quota'[v] \in Nat
    BY <1>0, <2>1 DEF AdminWrites, TablesOK
  <2>4. QuotaNeverNegative'
    BY <1>0, <2>3 DEF TablesFit, QuotaNeverNegative
  <2>5. TablesFit'
    BY <1>0, <2>2, <2>4 DEF TablesFit, PaidMeansMoney
  <2>6. \A t \in Slot : Keeps(t)
    BY <1>0, <2>1, <2>2, <2>3 DEF Keeps
  <2>7. QED
    BY <1>t, <1>u, <2>2, <2>5, <2>6, StepInv
<1>4. CASE WorkerCrashes
  <2>1. UNCHANGED <<status, owner, coupon, quota, active, locked, gateway, hooks, api>>
    BY <1>4 DEF WorkerCrashes, paymentTable, voucherTable, mayar
  <2>2. worker'.todo = {} /\ worker'.toPaid = {} /\ worker'.toClosed = {}
    BY <1>4 DEF WorkerCrashes, Resting
  <2>3. TablesFit'
    BY <1>0, <2>1, <2>2 DEF TablesFit, PaidMeansMoney, QuotaNeverNegative
  <2>4. \A t \in Slot : Keeps(t)
    BY <2>1 DEF Keeps
  <2>5. QED
    BY <1>t, <1>u, <2>1, <2>3, <2>4, StepInv
<1>5. ASSUME NEW w \in Process, ProcessCrashes(w)
      PROVE  IInv'
  <2>1. /\ \A t \in Slot : api'[t] = IF ProcessOf(t) = w THEN Idle ELSE api[t]
        /\ \A v \in Voucher : locked'[v] =
             IF locked[v] \in {t \in Slot : ProcessOf(t) = w} THEN NoSlot ELSE locked[v]
        /\ UNCHANGED <<status, owner, coupon, quota, active, gateway, hooks, worker>>
    BY <1>5 DEF ProcessCrashes, Unlocked, paymentTable, mayar
  <2>2. TablesFit'
    BY <1>0, <2>1 DEF TablesFit, PaidMeansMoney, QuotaNeverNegative
  <2>3. ASSUME NEW t \in Slot PROVE Keeps(t) \/ Fits(t, api[t])'
    <3>1. CASE ProcessOf(t) = w
      BY <1>0, <2>1, <3>1 DEF Fits, Idle, Submitted, Settling
    <3>2. CASE ProcessOf(t) # w
      BY <2>1, <3>2 DEF Keeps
    <3>3. QED
      BY <3>1, <3>2
  <2>4. KeysApart'
    BY <2>1, KeysApartStable DEF Idle, Submitted
  <2>5. LocksOwned'
    BY <1>0, <2>1, LocksOwnedStable
  <2>6. QED
    BY <1>t, <2>2, <2>3, <2>4, <2>5, StepInv
<1>6. QED
  BY <1>1, <1>2, <1>3, <1>4, <1>5 DEF CrashStep

LEMMA InitInv == Init => IInv
<1> SUFFICES ASSUME Init PROVE IInv
  OBVIOUS
<1> USE TicketPaymentsAssumption DEF Init
<1>1. TypeOK
  <2>1. HandlersOK
    BY IdleIsHandlerState DEF HandlersOK
  <2>2. TablesOK
    BY DEF TablesOK, RowStatus, Coupon, Type, Resting, PaymentStatus
  <2>3. QED
    BY <2>1, <2>2 DEF TypeOK
<1>2. TablesFit
  BY DEF TablesFit, PaidMeansMoney, QuotaNeverNegative, Resting
<1>3. KeysApart /\ LocksOwned
  BY DEF KeysApart, LocksOwned, Idle, Submitted
<1>4. \A s \in Slot : Fits(s, api[s])
  BY IdleFits
<1>5. QED
  BY <1>1, <1>2, <1>3, <1>4 DEF IInv

LEMMA StutterInv == IInv /\ UNCHANGED vars => IInv'
<1> SUFFICES ASSUME IInv, UNCHANGED vars PROVE IInv'
  OBVIOUS
<1> USE DEF vars, paymentTable, voucherTable, mayar
<1>1. TypeOK'
  BY TablesUnchanged DEF IInv, TypeOK, HandlersOK
<1>2. TablesFit' /\ KeysApart' /\ LocksOwned'
  BY DEF IInv, TablesFit, PaidMeansMoney, QuotaNeverNegative, KeysApart, LocksOwned
<1>3. \A t \in Slot : Keeps(t)
  BY DEF Keeps
<1>4. QED
  BY <1>1, <1>2, <1>3, StepInv

\* However many handlers, processes, payments and vouchers there are, the locals
\* of every handler in progress fit the committed rows: nothing that a handler
\* relies on after an await of POST /payment has been changed meanwhile.
THEOREM Invariance == Spec => []IInv
<1>1. IInv /\ [Next]_vars => IInv'
  <2> SUFFICES ASSUME IInv, [Next]_vars PROVE IInv'
    OBVIOUS
  <2>1. ASSUME NEW s \in Slot, CreateStep(s) PROVE IInv'
    BY <2>1, CreateStepInv
  <2>2. ASSUME NEW s \in Slot, SettleStep(s) PROVE IInv'
    BY <2>2, SettleStepInv
  <2>3. CASE SyncStep \/ GatewayStep \/ AdminStep \/ CrashStep
    BY <2>3, OtherStepInv
  <2>4. CASE UNCHANGED vars
    BY <2>4, StutterInv
  <2>5. QED
    BY <2>1, <2>2, <2>3, <2>4 DEF Next
<1>2. QED
  BY InitInv, <1>1, PTL DEF Spec

\* Type correctness: every variable and every local keeps its type.
THEOREM TypeCorrect == Spec => []TypeOK
<1>1. IInv => TypeOK
  BY DEF IInv
<1>2. QED
  BY <1>1, Invariance, PTL

\* A payment recorded PAID was free or is paid at Mayar, for any interleaving of
\* webhooks, detail pages and the worker's sync, repeated or out of order.
THEOREM PaidIsBacked == Spec => []PaidMeansMoney
<1>1. IInv => PaidMeansMoney
  BY DEF IInv, TablesFit
<1>2. QED
  BY <1>1, Invariance, PTL

\* The quota of a voucher never goes below zero, although the decrement of
\* validate_and_use_voucher is written long after the check that allowed it.
THEOREM QuotaBounded == Spec => []QuotaNeverNegative
<1>1. IInv => QuotaNeverNegative
  BY DEF IInv, TablesFit
<1>2. QED
  BY <1>1, Invariance, PTL

\* A locked voucher row is locked by a purchase that is waiting for Mayar, and
\* the quota that purchase read is the quota in the row.
THEOREM LocksAreReleased == Spec => []LockIsHeldByCreate
<1>1. IInv => LockIsHeldByCreate
  <2> SUFFICES ASSUME IInv, NEW v \in Voucher, locked[v] # NoSlot
               PROVE  /\ api[locked[v]].pc \in Submitted
                      /\ api[locked[v]].coupon = v /\ api[locked[v]].left = quota[v]
    BY DEF LockIsHeldByCreate
  <2>1. locked[v] \in Slot
    BY DEF IInv, TypeOK, TablesOK
  <2>2. api[locked[v]].pc \in Submitted /\ api[locked[v]].coupon = v
    BY DEF IInv, LocksOwned
  <2>3. QED
    BY <2>1, <2>2, TicketPaymentsAssumption DEF IInv, Fits
<1>2. QED
  BY <1>1, Invariance, PTL

\* When a payment gets its voucher, what was checked before the call to Mayar
\* still holds: the voucher is active, has quota, and loses one unit of it.
THEOREM RedemptionAtomic == Spec => RedemptionIsAtomic
<1> DEFINE Redeems ==
      \A p \in Payment : LET v == coupon'[p] IN
        v # coupon[p] => active[v] /\ quota[v] > 0 /\ quota'[v] = quota[v] - 1
<1>1. IInv /\ [Next]_vars => [Redeems]_vars
  <2> SUFFICES ASSUME IInv, Next, NEW p \in Payment, coupon'[p] # coupon[p]
               PROVE  /\ active[coupon'[p]] /\ quota[coupon'[p]] > 0
                      /\ quota'[coupon'[p]] = quota[coupon'[p]] - 1
    BY DEF RedemptionIsAtomic
  <2>1. PICK s \in Slot : \/ \E q \in Payment : GrantFree(s, q)
                          \/ CommitCreate(s)
    <3>1. \/ \E s \in Slot : \/ \E q \in Payment : GrantFree(s, q)
                             \/ CommitCreate(s)
          \/ UNCHANGED coupon
      <4>1. ASSUME NEW s \in Slot, CreateStep(s) PROVE <3>1
        BY <4>1 DEF CreateStep, BeginCreate, RefuseVoucher, SubmitToMayar, MayarCreates,
           MayarRefuses, AbortCreate, paymentTable
      <4>2. ASSUME NEW s \in Slot, SettleStep(s) PROVE <3>1
        BY <4>2 DEF SettleStep, ReceiveHook, BeginDetail, CloseInvoice, MayarTells,
           DetailLookupFails, ResumeDetail, SelectOthers, Settle, Written, paymentTable
      <4>3. CASE SyncStep
        BY <4>3 DEF SyncStep, SyncBegins, SyncPolls, SyncPollFails, SyncCommits, Written, paymentTable
      <4>4. CASE GatewayStep \/ AdminStep \/ CrashStep
        BY <4>4 DEF GatewayStep, CustomerPays, InvoiceExpires, OddHook, HookLost, AdminStep,
           AdminSetsQuota, AdminSetsStatus, AdminReplaces, AdminWrites, CrashStep, WorkerCrashes, ProcessCrashes, paymentTable
      <4>5. QED
        BY <4>1, <4>2, <4>3, <4>4 DEF Next
    <3>2. QED
      BY <3>1
  <2> DEFINE v == api[s].coupon
  <2>2. /\ coupon \in [Payment -> Coupon] /\ v \in Coupon
        /\ Fits(s, api[s]) /\ TablesFit
    BY DEF IInv, TypeOK, TablesOK, HandlersOK, HandlerState
  <2>3. CASE \E q \in Payment : GrantFree(s, q)
    <3>1. PICK q \in Payment : GrantFree(s, q)
      BY <2>3
    <3>2. coupon' = [coupon EXCEPT ![q] = v] /\ status[q] = "absent"
      BY <3>1 DEF GrantFree, InsertRow, Fresh
    <3>3. coupon'[p] = v /\ v # NoVoucher
      BY <2>2, <3>2 DEF TablesFit
    <3>4. active[v] /\ quota[v] > 0 /\ v \in Voucher
      BY <2>2, <3>1, <3>3 DEF GrantFree, VoucherTaken, Usable, Coupon
    <3>5. quota'[v] = quota[v] - 1
      BY <3>1, <3>4 DEF GrantFree
    <3>6. QED
      BY <3>3, <3>4, <3>5
  <2>4. CASE CommitCreate(s)
    <3>1. coupon' = [coupon EXCEPT ![api[s].pay] = v] /\ status[api[s].pay] = "absent"
      BY <2>2, <2>4 DEF CommitCreate, InsertRow, Fits, Submitted
    <3>2. coupon'[p] = v /\ v # NoVoucher
      BY <2>2, <3>1 DEF TablesFit
    <3>3. active[v] /\ quota[v] > 0 /\ api[s].left = quota[v] /\ v \in Voucher
      BY <2>2, <2>4, <3>2 DEF CommitCreate, Fits, Submitted, Coupon
    <3>4. quota'[v] = quota[v] - 1
      BY <2>4, <3>3 DEF CommitCreate
    <3>5. QED
      BY <3>2, <3>3, <3>4
  <2>5. QED
    BY <2>1, <2>3, <2>4
<1>2. QED
  BY <1>1, Invariance, PTL DEF Spec, RedemptionIsAtomic

-----------------------------------------------------------------------------
(***************************************************************************)
(* TicketPayments implements PaymentLedger.  Every committed step is a     *)
(* step of the ledger because what its handler learnt, from the rows it    *)
(* loaded and from Mayar's answers, is still so when it commits: rows keep *)
(* their owner and voucher, a closed invoice stays closed.                 *)
(***************************************************************************)

\* What the locals h of a handler in progress say of its payment, of the user
\* and of Mayar holds now.
Informed(h) ==
  /\ h.pc \in Submitted \cup {"checked"} => h.seen = "absent"
  /\ h.pc \in Submitted =>
       /\ h.coupon \notin FreeWith
       /\ h.coupon # NoVoucher => <<h.user, h.coupon>> \in Entitled
  /\ h.pc = "accepted" => gateway[h.pay] # "none"
  /\ h.pc \in Settling \cup {"polling", "polled"} =>
       h.user = owner[h.pay] /\ h.coupon = coupon[h.pay]
  /\ h.pc \in {"polling", "polled"} => h.seen = "unpaid"
  /\ h.pc = "loaded" => h.verdict = "paid"
  /\ h.verdict = "closed" => h.pay \in Payment /\ gateway[h.pay] = "closed"
  /\ h.verdict = "unpaid" => h.seen = "unpaid" \/ OddHooks
  /\ h.seen = "paid" => h.pay \in Payment /\ paidAt[h.pay]
  /\ h.seenType # NonParticipant => h.user \in User /\ ptype[h.user] # NonParticipant
  /\ h.victims # {} => h.pc \in Settling /\ h.verdict = "paid"
  /\ \A p \in h.victims : p # h.pay /\ owner[p] = h.user

\* Free payments have no invoice; what the worker and the webhooks in flight
\* say comes from Mayar; paid_at is set for rows that are or were PAID.
TablesInformed ==
  /\ \A p \in Payment :
       /\ status[p] = "absent" => ~paidAt[p]
       /\ status[p] = "paid" => paidAt[p]
       /\ status[p] # "absent" /\ coupon[p] \in FreeWith => gateway[p] = "none"
  /\ \A m \in hooks : m.result # "success" => OddHooks
  /\ \A p \in worker.toClosed : gateway[p] = "closed"

JInv == TablesInformed /\ \A s \in Slot : Informed(api[s])

\* What no step takes back.
Preserved ==
  /\ \A p \in Payment : status[p] # "absent" =>
       owner'[p] = owner[p] /\ coupon'[p] = coupon[p] /\ (paidAt[p] => paidAt'[p])
  /\ \A p \in Payment : gateway[p] = "closed" => gateway'[p] = "closed"
  /\ \A p \in Payment : gateway[p] # "none" => gateway'[p] # "none"
  /\ \A u \in User : ptype[u] # NonParticipant => ptype'[u] # NonParticipant

LEMMA IdleInformed == Informed(Idle) /\ Informed(Idle)'
BY DEF Informed, Idle, Submitted, Settling

\* A handler that waits stays informed whatever the others do.
LEMMA InformedStable ==
  ASSUME NEW t \in Slot, TypeOK, Fits(t, api[t]), Informed(api[t]), Preserved,
         api'[t] = api[t]
  PROVE  Informed(api[t])'
<1> DEFINE h == api[t]
<1>1. /\ h.pay \in Payment \cup {NoPayment} /\ h.victims \subseteq Payment
      /\ h.pc \in Submitted => h.pay \in Payment
      /\ h.pc \in Settling \cup {"polling", "polled"} =>
           h.pay \in Payment /\ status[h.pay] # "absent"
      /\ h.seen = "paid" => status[h.pay] # "absent"
      /\ \A p \in h.victims : status[p] # "absent"
  BY DEF TypeOK, HandlersOK, HandlerState, Fits, Informed, Submitted, Settling
<1>2. api'[t] = h /\ Informed(h)
  OBVIOUS
<1> HIDE DEF h
<1>3. /\ h.pc = "accepted" => gateway'[h.pay] # "none"
      /\ h.pc \in Settling \cup {"polling", "polled"} =>
           h.user = owner'[h.pay] /\ h.coupon = coupon'[h.pay]
  BY <1>1, <1>2 DEF Informed, Preserved, Submitted
<1>4. /\ h.verdict = "closed" => h.pay \in Payment /\ gateway'[h.pay] = "closed"
      /\ h.seen = "paid" => h.pay \in Payment /\ paidAt'[h.pay]
      /\ h.seenType # NonParticipant => h.user \in User /\ ptype'[h.user] # NonParticipant
      /\ \A p \in h.victims : p # h.pay /\ owner'[p] = h.user
  BY <1>1, <1>2 DEF Informed, Preserved
<1>5. QED
  BY <1>2, <1>3, <1>4 DEF Informed

\* A step of one handler that changes its locals only.
LEMMA QuietInformed ==
  ASSUME IInv, JInv, NEW s \in Slot, NEW h, Becomes(s, h), Informed(h),
         UNCHANGED <<paymentTable, voucherTable, ptype, mayar, worker>>
  PROVE  Preserved /\ TablesInformed' /\ Informed(api[s])'
<1> USE DEF paymentTable, voucherTable, mayar
<1>1. api'[s] = h
  BY DEF Becomes, IInv, TypeOK, HandlersOK
<1>2. Informed(h)'
  BY DEF Informed
<1>3. Preserved /\ TablesInformed'
  BY DEF Preserved, JInv, TablesInformed
<1>4. QED
  BY <1>1, <1>2, <1>3

\* A row that is inserted takes the place of no other.
LEMMA InsertRowAt ==
  ASSUME TablesOK, NEW s \in Slot, NEW p \in Payment, NEW st, InsertRow(s, p, st)
  PROVE  \A q \in Payment :
           /\ status'[q] = IF q = p THEN st ELSE status[q]
           /\ owner'[q] = IF q = p THEN api[s].user ELSE owner[q]
           /\ coupon'[q] = IF q = p THEN api[s].coupon ELSE coupon[q]
           /\ paidAt'[q] = IF q # p THEN paidAt[q] ELSE st = "paid"
BY DEF InsertRow, TablesOK

\* A handler writes a participant type; the type of new users is not one.
LEMMA PromotedAt ==
  ASSUME TablesOK, NEW h \in HandlerState, h.user \in User, ptype' = Promoted(h)
  PROVE  /\ \A u \in User : ptype'[u] =
              IF u = h.user /\ TypeOf[h.coupon] # h.seenType THEN TypeOf[h.coupon]
                                                             ELSE ptype[u]
         /\ TypeOf[h.coupon] # NonParticipant
BY TicketPaymentsAssumption DEF Promoted, TablesOK, HandlerState

\* POST /payment.
LEMMA CreateStepInformed ==
  ASSUME IInv, JInv, NEW s \in Slot, CreateStep(s)
  PROVE  Preserved /\ TablesInformed' /\ Informed(api[s])'
<1> DEFINE h == api[s]
           v == h.coupon
<1>0. /\ TablesOK /\ HandlersOK /\ TablesFit /\ Fits(s, h)
      /\ TablesInformed /\ Informed(h)
      /\ h \in HandlerState /\ v \in Coupon
  BY DEF IInv, JInv, TypeOK, HandlersOK, HandlerState
<1>1. ASSUME NEW u \in User, NEW c \in Coupon, BeginCreate(s, u, c)
      PROVE  Preserved /\ TablesInformed' /\ Informed(api[s])'
  <2> DEFINE g == [Idle EXCEPT !.pc = "checked", !.user = u, !.coupon = c,
                               !.seenType = ptype[u]]
  <2>1. /\ g.pc = "checked" /\ g.user = u /\ g.seen = "absent" /\ g.verdict = "absent"
        /\ g.seenType = ptype[u] /\ g.victims = {}
    BY DEF Idle
  <2>2. Becomes(s, g) /\ UNCHANGED <<paymentTable, voucherTable, ptype, mayar, worker>>
    BY <1>1 DEF BeginCreate
  <2> HIDE DEF g
  <2>3. Informed(g)
    BY <2>1 DEF Informed, Submitted, Settling
  <2>4. QED
    BY <2>2, <2>3, QuietInformed
<1>2. CASE RefuseVoucher(s)
  BY <1>2, IdleInformed, QuietInformed DEF RefuseVoucher
<1>3. ASSUME NEW p \in Payment, GrantFree(s, p)
      PROVE  Preserved /\ TablesInformed' /\ Informed(api[s])'
  <2>1. /\ h.user \in User /\ v \in FreeWith
        /\ status[p] = "absent" /\ gateway[p] = "none"
        /\ ptype' = Promoted(h) /\ InsertRow(s, p, "paid") /\ Becomes(s, Idle)
        /\ UNCHANGED <<gateway, hooks, worker>>
    BY <1>0, <1>3 DEF GrantFree, Fresh, Fits, mayar
  <2>2. \A q \in Payment :
           /\ status'[q] = IF q = p THEN "paid" ELSE status[q]
           /\ owner'[q] = IF q = p THEN h.user ELSE owner[q]
           /\ coupon'[q] = IF q = p THEN v ELSE coupon[q]
           /\ paidAt'[q] = IF q # p THEN paidAt[q] ELSE "paid" = "paid"
    BY <1>0, <2>1, InsertRowAt
  <2>3. \A u \in User : ptype[u] # NonParticipant => ptype'[u] # NonParticipant
    BY <1>0, <2>1, PromotedAt
  <2>4. Preserved
    BY <2>1, <2>2, <2>3 DEF Preserved
  <2>5. TablesInformed'
    BY <1>0, <2>1, <2>2 DEF TablesInformed
  <2>6. api'[s] = Idle
    BY <1>0, <2>1, BecomesAt
  <2>7. QED
    BY <2>4, <2>5, <2>6, IdleInformed
<1>4. ASSUME NEW p \in Payment, SubmitToMayar(s, p)
      PROVE  Preserved /\ TablesInformed' /\ Informed(api[s])'
  <2> DEFINE g == [h EXCEPT !.pc = "creating", !.pay = p,
                     !.left = IF v = NoVoucher THEN 0 ELSE quota[v]]
  <2>1. /\ g.pc = "creating" /\ g.pay = p /\ g.user = h.user /\ g.coupon = v
        /\ g.seen = h.seen /\ g.seenType = h.seenType
        /\ g.victims = h.victims /\ g.verdict = h.verdict
    BY <1>0 DEF HandlerState
  <2>2. /\ Becomes(s, g) /\ h.pc = "checked"
        /\ v \notin FreeWith /\ (v # NoVoucher => <<h.user, v>> \in Entitled)
        /\ UNCHANGED <<paymentTable, ptype, mayar, worker>>
    BY <1>4 DEF SubmitToMayar, VoucherTaken, Usable
  <2> HIDE DEF g
  <2>3. h.seen = "absent" /\ h.verdict = "absent" /\ h.victims = {}
    BY <1>0, <2>2 DEF Informed, Fits, Submitted, Settling
  <2>4. api'[s] = g
    BY <1>0, <2>2, BecomesAt
  <2>5. Informed(api[s])'
    BY <1>0, <2>1, <2>2, <2>3, <2>4 DEF Informed, Submitted, Settling
  <2>6. Preserved /\ TablesInformed'
    BY <1>0, <2>2 DEF Preserved, TablesInformed, paymentTable, mayar
  <2>7. QED
    BY <2>5, <2>6
<1>5. CASE MayarCreates(s)
  <2>1. PICK answer \in {"accepted", "rejected"} : Becomes(s, [h EXCEPT !.pc = answer])
    BY <1>5 DEF MayarCreates
  <2> DEFINE g == [h EXCEPT !.pc = answer]
  <2>2. /\ g.pc = answer /\ g.pay = h.pay /\ g.user = h.user /\ g.coupon = v
        /\ g.seen = h.seen /\ g.seenType = h.seenType
        /\ g.victims = h.victims /\ g.verdict = h.verdict
    BY <1>0 DEF HandlerState
  <2>3. api'[s] = g
    BY <1>0, <2>1, BecomesAt
  <2> HIDE DEF g
  <2>4. /\ h.pc = "creating" /\ h.pay \in Payment /\ status[h.pay] = "absent"
        /\ gateway[h.pay] = "none" /\ h.verdict = "absent" /\ h.seen = "absent"
        /\ h.victims = {} /\ UNCHANGED <<paymentTable, voucherTable, ptype, hooks, worker>>
    BY <1>0, <1>5 DEF MayarCreates, Fits, Informed, Submitted, Settling
  <2>5. \A q \in Payment : gateway'[q] = IF q = h.pay THEN "unpaid" ELSE gateway[q]
    BY <1>0, <1>5 DEF MayarCreates, TablesOK
  <2>6. Informed(api[s])'
    BY <1>0, <2>2, <2>3, <2>4, <2>5 DEF Informed, Submitted, Settling
  <2>7. Preserved
    BY <2>4, <2>5 DEF Preserved, paymentTable
  <2>8. TablesInformed'
    <3>1. worker.toClosed \subseteq Payment
      BY <1>0 DEF TablesOK
    <3>2. QED
      BY <1>0, <2>4, <2>5, <3>1 DEF TablesInformed, paymentTable
  <2>9. QED
    BY <2>6, <2>7, <2>8
<1>6. CASE MayarRefuses(s)
  <2> DEFINE g == [h EXCEPT !.pc = "rejected"]
  <2>1. /\ g.pc = "rejected" /\ g.pay = h.pay /\ g.user = h.user /\ g.coupon = v
        /\ g.seen = h.seen /\ g.seenType = h.seenType
        /\ g.victims = h.victims /\ g.verdict = h.verdict
    BY <1>0 DEF HandlerState
  <2>2. /\ Becomes(s, g) /\ h.pc = "creating"
        /\ UNCHANGED <<paymentTable, voucherTable, ptype, mayar, worker>>
    BY <1>6 DEF MayarRefuses
  <2> HIDE DEF g
  <2>3. Informed(g)
    BY <1>0, <2>1, <2>2 DEF Informed, Submitted, Settling
  <2>4. QED
    BY <2>2, <2>3, QuietInformed
<1>7. CASE CommitCreate(s)
  <2>1. /\ h.pay \in Payment /\ status[h.pay] = "absent" /\ v \notin FreeWith
        /\ InsertRow(s, h.pay, "unpaid") /\ Becomes(s, Idle)
        /\ UNCHANGED <<ptype, gateway, hooks, worker>>
    BY <1>0, <1>7 DEF CommitCreate, Fits, Informed, Submitted, mayar
  <2>2. \A q \in Payment :
           /\ status'[q] = IF q = h.pay THEN "unpaid" ELSE status[q]
           /\ owner'[q] = IF q = h.pay THEN h.user ELSE owner[q]
           /\ coupon'[q] = IF q = h.pay THEN v ELSE coupon[q]
           /\ paidAt'[q] = IF q # h.pay THEN paidAt[q] ELSE "unpaid" = "paid"
    BY <1>0, <2>1, InsertRowAt
  <2>3. Preserved
    BY <2>1, <2>2 DEF Preserved
  <2>4. TablesInformed'
    BY <1>0, <2>1, <2>2 DEF TablesInformed
  <2>5. api'[s] = Idle
    BY <1>0, <2>1, BecomesAt
  <2>6. QED
    BY <2>3, <2>4, <2>5, IdleInformed
<1>8. CASE AbortCreate(s)
  <2>1. Becomes(s, Idle) /\ UNCHANGED <<paymentTable, quota, active, ptype, mayar, worker>>
    BY <1>8 DEF AbortCreate
  <2>2. Preserved /\ TablesInformed'
    BY <1>0, <2>1 DEF Preserved, TablesInformed, paymentTable, mayar
  <2>3. api'[s] = Idle
    BY <1>0, <2>1, BecomesAt
  <2>4. QED
    BY <2>2, <2>3, IdleInformed
<1>9. QED
  BY <1>1, <1>2, <1>3, <1>4, <1>5, <1>6, <1>7, <1>8 DEF CreateStep

\* The webhook and the detail page.
LEMMA SettleStepInformed ==
  ASSUME IInv, JInv, NEW s \in Slot, SettleStep(s)
  PROVE  Preserved /\ TablesInformed' /\ Informed(api[s])'
<1> DEFINE h == api[s]
<1>0. /\ TablesOK /\ HandlersOK /\ TablesFit /\ Fits(s, h)
      /\ TablesInformed /\ Informed(h) /\ h \in HandlerState
  BY DEF IInv, JInv, TypeOK, HandlersOK
<1>1. ASSUME NEW m \in hooks, ReceiveHook(s, m)
      PROVE  Preserved /\ TablesInformed' /\ Informed(api[s])'
  <2> DEFINE p == m.pay
             v == IF m.result = "success" THEN "paid" ELSE "unpaid"
             g == [Loaded(p) EXCEPT !.pc = IF v = "paid" THEN "loaded" ELSE "commit",
                                    !.verdict = v]
  <2>1. /\ p \in Payment /\ status[p] # "absent" /\ Becomes(s, g)
        /\ UNCHANGED <<paymentTable, voucherTable, ptype, mayar, worker>>
    BY <1>0, <1>1 DEF ReceiveHook, TablesOK, Hook
  <2>2. /\ g.pc = IF v = "paid" THEN "loaded" ELSE "commit"
        /\ g.pay = p /\ g.user = owner[p] /\ g.coupon = coupon[p]
        /\ g.seen = status[p] /\ g.seenType = ptype[owner[p]]
        /\ g.victims = {} /\ g.verdict = v
    BY DEF Loaded, Idle
  <2>3. owner[p] \in User /\ (status[p] = "paid" => paidAt[p]) /\ (v # "paid" => OddHooks)
    BY <1>0, <2>1 DEF TablesFit, TablesInformed
  <2> HIDE DEF g
  <2>4. Informed(g)
    BY <2>1, <2>2, <2>3 DEF Informed, Submitted, Settling
  <2>5. QED
    BY <2>1, <2>4, QuietInformed
<1>2. ASSUME NEW p \in Payment, BeginDetail(s, p)
      PROVE  Preserved /\ TablesInformed' /\ Informed(api[s])'
  <2> DEFINE g == [Loaded(p) EXCEPT !.pc = "polling"]
  <2>1. /\ status[p] = "unpaid" /\ Becomes(s, g)
        /\ UNCHANGED <<paymentTable, voucherTable, ptype, mayar, worker>>
    BY <1>2 DEF BeginDetail
  <2>2. /\ g.pc = "polling" /\ g.pay = p /\ g.user = owner[p] /\ g.coupon = coupon[p]
        /\ g.seen = status[p] /\ g.seenType = ptype[owner[p]]
        /\ g.victims = {} /\ g.verdict = "absent"
    BY DEF Loaded, Idle
  <2>3. owner[p] \in User
    BY <1>0, <2>1 DEF TablesFit
  <2> HIDE DEF g
  <2>4. Informed(g)
    BY <2>1, <2>2, <2>3 DEF Informed, Submitted, Settling
  <2>5. QED
    BY <2>1, <2>4, QuietInformed
<1>3. CASE MayarTells(s)
  <2> DEFINE g == [h EXCEPT !.pc = "polled", !.verdict = Mapped(gateway[h.pay])]
  <2>1. /\ g.pc = "polled" /\ g.pay = h.pay /\ g.user = h.user /\ g.coupon = h.coupon
        /\ g.seen = h.seen /\ g.seenType = h.seenType
        /\ g.victims = h.victims /\ g.verdict = Mapped(gateway[h.pay])
    BY <1>0 DEF HandlerState
  <2>2. /\ h.pc = "polling" /\ h.pay \in Payment /\ Becomes(s, g)
        /\ UNCHANGED <<paymentTable, voucherTable, ptype, mayar, worker>>
    BY <1>0, <1>3 DEF MayarTells, Fits
  <2> HIDE DEF g
  <2>3. Informed(g)
    BY <1>0, <2>1, <2>2 DEF Informed, Mapped, Submitted, Settling
  <2>4. QED
    BY <2>2, <2>3, QuietInformed
<1>4. CASE DetailLookupFails(s)
  BY <1>4, IdleInformed, QuietInformed DEF DetailLookupFails
<1>5. CASE ResumeDetail(s)
  <2>1. CASE Becomes(s, Idle)
    BY <1>5, <2>1, IdleInformed, QuietInformed DEF ResumeDetail
  <2>2. ASSUME NEW pc \in {"loaded", "commit"}, Becomes(s, [h EXCEPT !.pc = pc]),
               pc = "loaded" => h.verdict = "paid"
        PROVE  Preserved /\ TablesInformed' /\ Informed(api[s])'
    <3> DEFINE g == [h EXCEPT !.pc = pc]
    <3>1. /\ g.pc = pc /\ g.pay = h.pay /\ g.user = h.user /\ g.coupon = h.coupon
          /\ g.seen = h.seen /\ g.seenType = h.seenType
          /\ g.victims = h.victims /\ g.verdict = h.verdict
      BY <1>0 DEF HandlerState
    <3>2. /\ h.pc = "polled" /\ Becomes(s, g)
          /\ UNCHANGED <<paymentTable, voucherTable, ptype, mayar, worker>>
      BY <1>5, <2>2 DEF ResumeDetail
    <3> HIDE DEF g
    <3>3. Informed(g)
      BY <1>0, <2>2, <3>1, <3>2 DEF Informed, Submitted, Settling
    <3>4. QED
      BY <3>2, <3>3, QuietInformed
  <2>3. QED
    BY <1>5, <2>1, <2>2 DEF ResumeDetail
<1>6. CASE SelectOthers(s)
  <2> DEFINE others == Rows(h.user, "unpaid") \ {h.pay}
             g == [h EXCEPT !.pc = IF others = {} THEN "commit" ELSE "closing",
                            !.victims = others, !.toClose = others]
  <2>1. /\ g.pc \in {"commit", "closing"} /\ g.pay = h.pay /\ g.user = h.user
        /\ g.coupon = h.coupon /\ g.seen = h.seen /\ g.seenType = h.seenType
        /\ g.victims = others /\ g.verdict = h.verdict
    BY <1>0 DEF HandlerState
  <2>2. \A p \in others : p # h.pay /\ owner[p] = h.user
    BY DEF Rows
  <2>3. /\ h.pc = "loaded" /\ Becomes(s, g)
        /\ UNCHANGED <<paymentTable, voucherTable, ptype, mayar, worker>>
    BY <1>6 DEF SelectOthers
  <2> HIDE DEF g, others
  <2>4. Informed(g)
    BY <1>0, <2>1, <2>2, <2>3 DEF Informed, Submitted, Settling
  <2>5. QED
    BY <2>3, <2>4, QuietInformed
<1>7. ASSUME NEW p \in Payment, CloseInvoice(s, p)
      PROVE  Preserved /\ TablesInformed' /\ Informed(api[s])'
  <2> DEFINE g == [h EXCEPT !.toClose = @ \ {p}]
  <2>1. /\ g.pc = h.pc /\ g.pay = h.pay /\ g.user = h.user
        /\ g.coupon = h.coupon /\ g.seen = h.seen /\ g.seenType = h.seenType
        /\ g.victims = h.victims /\ g.verdict = h.verdict
    BY <1>0 DEF HandlerState
  <2>2. /\ Becomes(s, g) /\ h.pc = "closing"
        /\ UNCHANGED <<paymentTable, voucherTable, ptype, hooks, worker>>
    BY <1>7 DEF CloseInvoice
  <2>3. api'[s] = g
    BY <1>0, <2>2, BecomesAt
  <2> HIDE DEF g
  <2>4. \A q \in Payment : \/ gateway'[q] = gateway[q]
                           \/ gateway[q] = "unpaid" /\ gateway'[q] = "closed"
    BY <1>0, <1>7 DEF CloseInvoice, InvoiceMayClose, TablesOK
  <2>5. Preserved
    BY <2>2, <2>4 DEF Preserved, paymentTable
  <2>6. TablesInformed'
    <3>1. worker.toClosed \subseteq Payment
      BY <1>0 DEF TablesOK
    <3>2. QED
      BY <1>0, <2>2, <2>4, <3>1 DEF TablesInformed, paymentTable
  <2>7. Informed(api[s])'
    BY <1>0, <2>1, <2>2, <2>3, <2>4 DEF Informed, Submitted, Settling, paymentTable
  <2>8. QED
    BY <2>5, <2>6, <2>7
<1>8. CASE Settle(s)
  <2>1. /\ h.pc \in Settling /\ h.pay \in Payment /\ h.verdict \in PaymentStatus
        /\ status[h.pay] # "absent" /\ h.user = owner[h.pay]
        /\ \A p \in h.victims : status[p] # "absent"
        /\ h.verdict = "closed" => gateway[h.pay] = "closed"
    BY <1>0, <1>8 DEF Settle, StatusChanged, Fits, Informed, Submitted, Settling
  <2>2. /\ Becomes(s, Idle) /\ UNCHANGED <<owner, coupon, gateway, hooks, worker>>
    BY <1>8 DEF Settle, StatusChanged, Written, mayar
  <2>3. \A p \in Payment :
          /\ \/ status'[p] = status[p]
             \/ status[p] # "absent" /\ status'[p] \in PaymentStatus
          /\ status'[p] = "paid" => paidAt'[p]
          /\ paidAt[p] => paidAt'[p]
          /\ status[p] = "absent" => ~paidAt'[p]
    <3> DEFINE own == IF h.verdict = h.seen THEN {} ELSE {h.pay}
               new == [p \in own \cup h.victims |-> IF p \in own THEN h.verdict ELSE "closed"]
    <3>1. /\ \A p \in Payment : status'[p] = IF p \in DOMAIN new THEN new[p] ELSE status[p]
          /\ \A p \in Payment : paidAt'[p] = (paidAt[p] \/ p \in {q \in DOMAIN new : new[q] = "paid"})
      BY <1>8 DEF Settle, StatusChanged, Written
    <3>2. \A p \in DOMAIN new : new[p] \in PaymentStatus /\ status[p] # "absent"
      BY <2>1 DEF PaymentStatus
    <3> HIDE DEF new, own
    <3>3. QED
      BY <1>0, <3>1, <3>2 DEF TablesInformed, TablesOK
  <2>4. \A u \in User : ptype[u] # NonParticipant => ptype'[u] # NonParticipant
    <3>1. h.verdict = "paid" => h.user \in User /\ ptype' = Promoted(h)
      BY <1>0, <1>8, <2>1 DEF Settle, StatusChanged, TablesFit
    <3>2. h.verdict # "paid" => ptype' = ptype
      BY <1>8 DEF Settle, StatusChanged
    <3>3. QED
      BY <1>0, <3>1, <3>2, PromotedAt
  <2>5. Preserved
    BY <2>2, <2>3, <2>4 DEF Preserved
  <2>6. TablesInformed'
    <3>1. \A p \in Payment : status'[p] # "absent" => status[p] # "absent"
      BY <2>3
    <3>2. \A p \in Payment : status'[p] = "absent" => status[p] = "absent"
      BY <2>3 DEF PaymentStatus
    <3>3. QED
      BY <1>0, <2>2, <2>3, <3>1, <3>2 DEF TablesInformed
  <2>7. api'[s] = Idle
    BY <1>0, <2>2, BecomesAt
  <2>8. QED
    BY <2>5, <2>6, <2>7, IdleInformed
<1>9. QED
  BY <1>1, <1>2, <1>3, <1>4, <1>5, <1>6, <1>7, <1>8 DEF SettleStep

\* The worker, Mayar, administrators and crashes.
LEMMA OtherStepInformed ==
  ASSUME IInv, JInv, SyncStep \/ GatewayStep \/ AdminStep \/ CrashStep
  PROVE  Preserved /\ TablesInformed' /\ \A t \in Slot : api'[t] \in {api[t], Idle}
<1>0. /\ TablesOK /\ HandlersOK /\ TablesFit /\ TablesInformed
      /\ worker.toPaid \cup worker.toClosed \subseteq Payment
      /\ gateway \in [Payment -> PaymentStatus \cup {"none"}]
  BY DEF IInv, JInv, TypeOK, TablesOK
<1>1. CASE SyncStep
  <2>1. UNCHANGED <<owner, coupon, ptype, gateway, hooks, api>>
    BY <1>1 DEF SyncStep, SyncBegins, SyncPolls, SyncPollFails, SyncCommits, Written,
       paymentTable, mayar
  <2>2. CASE SyncCommits
    <3>1. \A p \in Payment :
            /\ \/ status'[p] = status[p]
               \/ status[p] # "absent" /\ status'[p] \in PaymentStatus
            /\ status'[p] = "paid" => paidAt'[p]
            /\ paidAt[p] => paidAt'[p]
            /\ status[p] = "absent" => ~paidAt'[p]
      <4> DEFINE new == [p \in worker.toPaid \cup worker.toClosed |->
                           IF p \in worker.toPaid THEN "paid" ELSE "closed"]
      <4>1. /\ \A p \in Payment : status'[p] = IF p \in DOMAIN new THEN new[p] ELSE status[p]
            /\ \A p \in Payment :
                 paidAt'[p] = (paidAt[p] \/ p \in {q \in DOMAIN new : new[q] = "paid"})
        BY <2>2 DEF SyncCommits, Written
      <4>2. \A p \in DOMAIN new : new[p] \in PaymentStatus /\ status[p] # "absent"
        BY <1>0 DEF TablesFit, PaymentStatus
      <4> HIDE DEF new
      <4>3. QED
        BY <1>0, <4>1, <4>2 DEF TablesInformed, TablesOK
    <3>2. worker'.toClosed = {}
      BY <2>2 DEF SyncCommits, Resting
    <3>3. \A p \in Payment : (status'[p] = "absent") <=> (status[p] = "absent")
      BY <3>1 DEF PaymentStatus
    <3>4. TablesInformed'
      BY <1>0, <2>1, <3>1, <3>2, <3>3 DEF TablesInformed
    <3>5. QED
      BY <2>1, <3>1, <3>4 DEF Preserved
  <2>3. CASE ~SyncCommits
    <3>1. UNCHANGED <<status, paidAt>>
      BY <1>1, <2>3 DEF SyncStep, SyncBegins, SyncPolls, SyncPollFails, paymentTable
    <3>2. \A p \in worker'.toClosed : gateway[p] = "closed"
      <4>1. CASE SyncBegins
        BY <4>1 DEF SyncBegins, Resting
      <4>2. ASSUME NEW p \in Payment, SyncPolls(p)
            PROVE  <3>2
        <5>1. worker'.toClosed =
                worker.toClosed \cup {q \in {p} : Mapped(gateway[q]) = "closed"}
          BY <1>0, <4>2 DEF SyncPolls, TablesOK
        <5>2. QED
          BY <1>0, <5>1 DEF Mapped, TablesInformed
      <4>3. ASSUME NEW p \in Payment, SyncPollFails(p)
            PROVE  <3>2
        <5>1. worker'.toClosed = worker.toClosed
          BY <1>0, <4>3 DEF SyncPollFails, TablesOK
        <5>2. QED
          BY <1>0, <5>1 DEF TablesInformed
      <4>4. QED
        BY <1>1, <2>3, <4>1, <4>2, <4>3 DEF SyncStep
    <3>3. QED
      BY <1>0, <2>1, <3>1, <3>2 DEF Preserved, TablesInformed
  <2>4. QED
    BY <2>2, <2>3
<1>2. CASE GatewayStep
  <2>1. UNCHANGED <<status, owner, coupon, paidAt, ptype, api, worker>>
    BY <1>2 DEF GatewayStep, CustomerPays, InvoiceExpires, OddHook, HookLost, paymentTable
  <2>2. \A q \in Payment :
          \/ gateway'[q] = gateway[q]
          \/ gateway[q] = "unpaid" /\ gateway'[q] \in {"paid", "closed"}
    BY <1>0, <1>2 DEF GatewayStep, CustomerPays, InvoiceExpires, OddHook, HookLost
  <2>3. \A m \in hooks' : m.result # "success" => OddHooks
    BY <1>0, <1>2 DEF GatewayStep, CustomerPays, InvoiceExpires, OddHook, HookLost,
       TablesInformed
  <2>4. QED
    BY <1>0, <2>1, <2>2, <2>3 DEF Preserved, TablesInformed
<1>3. CASE AdminStep
  <2>1. UNCHANGED <<paymentTable, ptype, mayar, api, worker>>
    BY <1>3 DEF AdminStep, AdminSetsQuota, AdminSetsStatus, AdminReplaces, AdminWrites
  <2>2. QED
    BY <1>0, <2>1 DEF Preserved, TablesInformed, paymentTable, mayar
<1>4. CASE CrashStep
  <2>1. /\ UNCHANGED <<paymentTable, ptype, mayar>>
        /\ worker' \in {worker, Resting}
        /\ \A t \in Slot : api'[t] \in {api[t], Idle}
    BY <1>4 DEF CrashStep, WorkerCrashes, ProcessCrashes
  <2>2. \A p \in worker'.toClosed : gateway[p] = "closed"
    BY <1>0, <2>1 DEF Resting, TablesInformed
  <2>3. QED
    BY <1>0, <2>1, <2>2 DEF Preserved, TablesInformed, paymentTable, mayar
<1>5. QED
  BY <1>1, <1>2, <1>3, <1>4

\* A step of one handler leaves the locals of the others alone.
LEMMA OneHandlerMoves ==
  ASSUME HandlersOK, NEW s \in Slot, CreateStep(s) \/ SettleStep(s)
  PROVE  \A t \in Slot \ {s} : api'[t] = api[t]
<1>1. ASSUME NEW h, Becomes(s, h) PROVE \A t \in Slot \ {s} : api'[t] = api[t]
  BY <1>1, BecomesAt
<1>2. \E h : Becomes(s, h)
  BY DEF CreateStep, BeginCreate, RefuseVoucher, GrantFree, SubmitToMayar, MayarCreates,
     MayarRefuses, CommitCreate, AbortCreate, SettleStep, ReceiveHook, BeginDetail,
     CloseInvoice, MayarTells, DetailLookupFails, ResumeDetail, SelectOthers, Settle
<1>3. QED
  BY <1>1, <1>2

LEMMA StepInformed ==
  ASSUME IInv, JInv, Next
  PROVE  JInv' /\ Preserved
<1>0. TypeOK /\ HandlersOK /\ \A t \in Slot : Fits(t, api[t]) /\ Informed(api[t])
  BY DEF IInv, JInv, TypeOK
<1>1. ASSUME NEW s \in Slot, CreateStep(s) \/ SettleStep(s)
      PROVE  JInv' /\ Preserved
  <2>1. Preserved /\ TablesInformed' /\ Informed(api[s])'
    BY <1>1, CreateStepInformed, SettleStepInformed
  <2>2. ASSUME NEW t \in Slot \ {s} PROVE Informed(api[t])'
    <3>1. api'[t] = api[t]
      BY <1>0, <1>1, OneHandlerMoves
    <3>2. QED
      BY <1>0, <2>1, <3>1, InformedStable
  <2>3. QED
    BY <2>1, <2>2 DEF JInv
<1>2. CASE SyncStep \/ GatewayStep \/ AdminStep \/ CrashStep
  <2>1. Preserved /\ TablesInformed' /\ \A t \in Slot : api'[t] \in {api[t], Idle}
    BY <1>2, OtherStepInformed
  <2>2. ASSUME NEW t \in Slot PROVE Informed(api[t])'
    <3>1. CASE api'[t] = Idle
      BY <3>1, IdleInformed
    <3>2. CASE api'[t] = api[t]
      BY <1>0, <2>1, <3>2, InformedStable
    <3>3. QED
      BY <2>1, <3>1, <3>2
  <2>3. QED
    BY <2>1, <2>2 DEF JInv
<1>3. QED
  BY <1>1, <1>2 DEF Next

LEMMA InitInformed == Init => JInv
<1> SUFFICES ASSUME Init PROVE JInv
  OBVIOUS
<1>1. TablesInformed
  BY DEF Init, TablesInformed, Resting
<1>2. \A s \in Slot : Informed(api[s])
  BY IdleInformed DEF Init
<1>3. QED
  BY <1>1, <1>2 DEF JInv

LEMMA StutterInformed == JInv /\ UNCHANGED vars => JInv'
BY DEF vars, paymentTable, voucherTable, mayar, JInv, TablesInformed, Informed

\* Whatever a handler or the worker learnt before an await, of the payment, of
\* its user and of the invoice at Mayar, holds when the handler goes on.
THEOREM HandlersStayInformed == Spec => []JInv
<1>1. IInv /\ JInv /\ [Next]_vars => JInv'
  BY StepInformed, StutterInformed
<1>2. QED
  BY Invariance, InitInformed, <1>1, PTL DEF Spec

\* Every step is a step of the ledger, or leaves the ledger alone.
LEMMA CreateStepOfLedger ==
  ASSUME IInv, JInv, NEW s \in Slot, CreateStep(s)
  PROVE  Ledger!Next \/ UNCHANGED Ledger!ledger
<1> DEFINE h == api[s]
           v == h.coupon
<1>0. /\ TablesOK /\ Fits(s, h) /\ Informed(h)
      /\ v \in Voucher \cup {NoVoucher}
  BY DEF IInv, JInv, TypeOK, HandlersOK, HandlerState, Coupon
<1>1. CASE \/ \E u \in User, c \in Coupon : BeginCreate(s, u, c)
           \/ RefuseVoucher(s) \/ \E p \in Payment : SubmitToMayar(s, p)
           \/ MayarRefuses(s) \/ AbortCreate(s)
  BY <1>1 DEF BeginCreate, RefuseVoucher, SubmitToMayar, MayarRefuses, AbortCreate,
     paymentTable, voucherTable, mayar, Ledger!ledger, Ledger!record
<1>2. ASSUME NEW p \in Payment, GrantFree(s, p)
      PROVE  Ledger!Next
  <2>1. /\ h.user \in User /\ status[p] = "absent" /\ v \in FreeWith
        /\ v # NoVoucher => active[v] /\ quota[v] > 0 /\ <<h.user, v>> \in Entitled
    BY <1>0, <1>2 DEF GrantFree, Fresh, VoucherTaken, Usable, Fits
  <2>2. /\ status' = [status EXCEPT ![p] = "paid"]
        /\ owner' = [owner EXCEPT ![p] = h.user] /\ coupon' = [coupon EXCEPT ![p] = v]
        /\ quota' = [w \in Voucher |-> IF w = v THEN quota[w] - 1 ELSE quota[w]]
        /\ UNCHANGED <<active, gateway>>
    BY <1>2 DEF GrantFree, InsertRow, mayar
  <2>3. Ledger!Issue(p, h.user, v)
    BY <2>1, <2>2 DEF Ledger!Issue
  <2>4. QED
    BY <1>0, <2>1, <2>3 DEF Ledger!Next
<1>3. CASE CommitCreate(s)
  <2>1. /\ h.user \in User /\ h.pay \in Payment /\ status[h.pay] = "absent"
        /\ v \notin FreeWith /\ gateway[h.pay] # "none"
        /\ v # NoVoucher => /\ active[v] /\ quota[v] > 0 /\ <<h.user, v>> \in Entitled
                            /\ h.left = quota[v]
    BY <1>0, <1>3 DEF CommitCreate, Fits, Informed, Submitted
  <2>2. /\ status' = [status EXCEPT ![h.pay] = "unpaid"]
        /\ owner' = [owner EXCEPT ![h.pay] = h.user]
        /\ coupon' = [coupon EXCEPT ![h.pay] = v]
        /\ quota' = [w \in Voucher |-> IF w = v THEN h.left - 1 ELSE quota[w]]
        /\ UNCHANGED <<active, gateway>>
    BY <1>3 DEF CommitCreate, InsertRow, mayar
  <2>3. quota' = [w \in Voucher |-> IF w = v THEN quota[w] - 1 ELSE quota[w]]
    BY <2>1, <2>2, TicketPaymentsAssumption
  <2>4. Ledger!Issue(h.pay, h.user, v)
    BY <2>1, <2>2, <2>3 DEF Ledger!Issue
  <2>5. QED
    BY <1>0, <2>1, <2>4 DEF Ledger!Next
<1>4. CASE MayarCreates(s)
  <2>1. h.pay \in Payment /\ status[h.pay] = "absent" /\ gateway[h.pay] = "none"
    BY <1>0, <1>4 DEF MayarCreates, Fits, Submitted
  <2>2. Ledger!Gateway(h.pay, "unpaid")
    BY <1>4, <2>1 DEF MayarCreates, paymentTable, voucherTable, Ledger!Gateway, Ledger!record
  <2>3. QED
    BY <2>1, <2>2 DEF Ledger!Next
<1>5. QED
  BY <1>1, <1>2, <1>3, <1>4 DEF CreateStep

\* Rows that were written, each with a reason, are a record of the ledger.
LEMMA WrittenIsRecord ==
  ASSUME TablesOK, NEW new, Written(new), UNCHANGED <<quota, active, gateway>>,
         \A p \in Payment \cap DOMAIN new :
            status[p] # "absent" /\ (new[p] # status[p] => Ledger!Justified(p, new[p]))
  PROVE  Ledger!Next
<1>1. /\ status' = [p \in Payment |-> IF p \in DOMAIN new THEN new[p] ELSE status[p]]
      /\ UNCHANGED <<owner, coupon>>
  BY DEF Written
<1>2. DOMAIN status' = Payment
  BY <1>1
<1>3. ASSUME NEW p \in Payment, status'[p] # status[p]
      PROVE  status[p] # "absent" /\ Ledger!Justified(p, status'[p])
  <2>1. p \in DOMAIN new /\ status'[p] = new[p]
    BY <1>1, <1>3
  <2>2. status[p] # "absent" /\ Ledger!Justified(p, new[p])
    BY <1>3, <2>1
  <2>3. QED
    BY <2>1, <2>2 DEF Ledger!Justified
<1>4. Ledger!Record
  BY <1>1, <1>2, <1>3 DEF Ledger!Record
<1>5. QED
  BY <1>4 DEF Ledger!Next

LEMMA SettleStepOfLedger ==
  ASSUME IInv, JInv, NEW s \in Slot, SettleStep(s)
  PROVE  Ledger!Next \/ UNCHANGED Ledger!ledger
<1> DEFINE h == api[s]
<1>0. TablesOK /\ Fits(s, h) /\ Informed(h)
  BY DEF IInv, JInv, TypeOK
<1>1. CASE \/ \E m \in hooks : ReceiveHook(s, m)
           \/ \E p \in Payment : BeginDetail(s, p)
           \/ MayarTells(s) \/ DetailLookupFails(s) \/ ResumeDetail(s) \/ SelectOthers(s)
  BY <1>1 DEF ReceiveHook, BeginDetail, MayarTells, DetailLookupFails, ResumeDetail,
     SelectOthers, paymentTable, voucherTable, mayar, Ledger!ledger, Ledger!record
<1>2. ASSUME NEW p \in Payment, CloseInvoice(s, p)
      PROVE  Ledger!Next \/ UNCHANGED Ledger!ledger
  <2>1. UNCHANGED <<paymentTable, voucherTable>>
    BY <1>2 DEF CloseInvoice
  <2>2. CASE gateway[p] = "unpaid" /\ gateway' = [gateway EXCEPT ![p] = "closed"]
    <3>1. Ledger!Gateway(p, "closed")
      BY <2>1, <2>2 DEF paymentTable, voucherTable, Ledger!Gateway, Ledger!record
    <3>2. QED
      BY <3>1 DEF Ledger!Next
  <2>3. CASE UNCHANGED gateway
    BY <2>1, <2>3 DEF paymentTable, voucherTable, Ledger!ledger, Ledger!record
  <2>4. QED
    BY <1>2, <2>2, <2>3 DEF CloseInvoice, InvoiceMayClose
<1>3. CASE Settle(s)
  <2> DEFINE own == IF h.verdict = h.seen THEN {} ELSE {h.pay}
             new == [p \in own \cup h.victims |-> IF p \in own THEN h.verdict ELSE "closed"]
  <2>1. /\ h.pc \in Settling /\ h.pay \in Payment /\ h.verdict \in PaymentStatus
        /\ status[h.pay] # "absent" /\ h.user = owner[h.pay]
        /\ h.verdict = "paid" => gateway[h.pay] = "paid"
        /\ h.verdict = "closed" => gateway[h.pay] = "closed"
        /\ h.verdict = "unpaid" => h.seen = "unpaid" \/ OddHooks
    BY <1>0, <1>3 DEF Settle, StatusChanged, Fits, Informed, Submitted, Settling
  <2>2. \A p \in h.victims : /\ status[p] # "absent" /\ p # h.pay /\ owner[p] = owner[h.pay]
                             /\ gateway[h.pay] = "paid"
    BY <1>0, <2>1 DEF Fits, Informed
  <2>3. ASSUME NEW p \in Payment \cap DOMAIN new
        PROVE  status[p] # "absent" /\ Ledger!Justified(p, new[p])
    <3>1. CASE p \in own
      <4>1. p = h.pay /\ new[p] = h.verdict /\ h.verdict # h.seen
        BY <3>1
      <4> HIDE DEF new
      <4>2. QED
        BY <2>1, <4>1 DEF Ledger!Justified, Ledger!PaidFor, PaymentStatus
    <3>2. CASE p \notin own
      <4>1. p \in h.victims /\ new[p] = "closed"
        BY <3>2
      <4> HIDE DEF new
      <4>2. Ledger!Superseded(p)
        BY <2>1, <2>2, <4>1 DEF Ledger!Superseded
      <4>3. QED
        BY <2>2, <4>1, <4>2 DEF Ledger!Justified
    <3>3. QED
      BY <3>1, <3>2
  <2>4. Written(new) /\ UNCHANGED <<quota, active, gateway>>
    BY <1>3 DEF Settle, StatusChanged, voucherTable, mayar
  <2> HIDE DEF new
  <2>5. QED
    BY <1>0, <2>3, <2>4, WrittenIsRecord
<1>4. QED
  BY <1>1, <1>2, <1>3 DEF SettleStep

LEMMA OtherStepOfLedger ==
  ASSUME IInv, JInv, SyncStep \/ GatewayStep \/ AdminStep \/ CrashStep
  PROVE  Ledger!Next \/ UNCHANGED Ledger!ledger
<1>0. TablesOK /\ TablesFit /\ TablesInformed
  BY DEF IInv, JInv, TypeOK
<1>1. CASE SyncCommits
  <2> DEFINE new == [p \in worker.toPaid \cup worker.toClosed |->
                       IF p \in worker.toPaid THEN "paid" ELSE "closed"]
  <2>1. ASSUME NEW p \in Payment \cap DOMAIN new
        PROVE  status[p] # "absent" /\ Ledger!Justified(p, new[p])
    BY <1>0 DEF TablesFit, TablesInformed, Ledger!Justified, Ledger!PaidFor
  <2>2. Written(new) /\ UNCHANGED <<quota, active, gateway>>
    BY <1>1 DEF SyncCommits, voucherTable, mayar
  <2> HIDE DEF new
  <2>3. QED
    BY <1>0, <2>1, <2>2, WrittenIsRecord
<1>2. CASE SyncBegins \/ \E p \in Payment : SyncPolls(p) \/ SyncPollFails(p)
  BY <1>2 DEF SyncBegins, SyncPolls, SyncPollFails, paymentTable, voucherTable, mayar,
     Ledger!ledger, Ledger!record
<1>3. ASSUME NEW p \in Payment, CustomerPays(p)
      PROVE  Ledger!Next
  <2>1. Ledger!Gateway(p, "paid")
    BY <1>3 DEF CustomerPays, paymentTable, voucherTable, Ledger!Gateway, Ledger!record
  <2>2. QED
    BY <2>1 DEF Ledger!Next
<1>4. ASSUME NEW p \in Payment, InvoiceExpires(p)
      PROVE  Ledger!Next
  <2>1. Ledger!Gateway(p, "closed")
    BY <1>4 DEF InvoiceExpires, paymentTable, voucherTable, Ledger!Gateway, Ledger!record
  <2>2. QED
    BY <2>1 DEF Ledger!Next
<1>5. CASE (\E p \in Payment : OddHook(p)) \/ (\E m \in hooks : HookLost(m))
  BY <1>5 DEF OddHook, HookLost, paymentTable, voucherTable, Ledger!ledger, Ledger!record
<1>6. CASE AdminStep
  <2>1. PICK v \in Voucher :
          \E n \in AdminQuotas \cup {quota[v]}, b \in BOOLEAN : AdminWrites(v, n, b)
    BY <1>0, <1>6 DEF AdminStep, AdminSetsQuota, AdminSetsStatus, AdminReplaces, TablesOK
  <2>2. Ledger!Administer(v)
    BY <2>1 DEF AdminWrites, paymentTable, mayar, Ledger!Administer, Ledger!record
  <2>3. QED
    BY <2>2 DEF Ledger!Next
<1>7. CASE CrashStep
  BY <1>7 DEF CrashStep, WorkerCrashes, ProcessCrashes, paymentTable, voucherTable, mayar,
     Ledger!ledger, Ledger!record
<1>8. QED
  BY <1>1, <1>2, <1>3, <1>4, <1>5, <1>6, <1>7 DEF SyncStep, GatewayStep

LEMMA StepOfLedger ==
  IInv /\ JInv /\ [Next]_vars => [Ledger!Next]_(Ledger!ledger)
<1>1. CASE UNCHANGED vars
  BY <1>1 DEF vars, paymentTable, voucherTable, mayar, Ledger!ledger, Ledger!record
<1>2. QED
  BY <1>1, CreateStepOfLedger, SettleStepOfLedger, OtherStepOfLedger DEF Next

\* The handlers with their open transactions and awaits, the worker and Mayar
\* implement the ledger: a payment and its unit of quota appear in one step, and
\* each later change of a recorded status has its reason at Mayar.
THEOREM LedgerImplemented == Spec => ImplementsLedger
<1>1. Init => Ledger!Init
  BY DEF Init, Ledger!Init
<1>2. QED
  BY <1>1, StepOfLedger, Invariance, HandlersStayInformed, PTL
     DEF Spec, ImplementsLedger, Ledger!Spec

\* Whoever writes UNPAID over PAID commits a report without success that he had
\* not yet seen to agree with the row.
LEMMA UnpaidIsTakenBack ==
  ASSUME IInv, JInv, Next, NEW p \in Payment, status[p] = "paid", status'[p] = "unpaid"
  PROVE  \E s \in Slot : TakesBack(s, p)
<1>0. TablesOK
  BY DEF IInv, TypeOK
<1>1. ASSUME UNCHANGED status PROVE FALSE
  BY <1>1
<1>2. ASSUME NEW s \in Slot, CreateStep(s)
      PROVE  FALSE
  <2>1. ASSUME NEW q \in Payment, NEW st, status[q] = "absent", InsertRow(s, q, st)
        PROVE  FALSE
    BY <1>0, <2>1, InsertRowAt
  <2>2. ASSUME NEW q \in Payment, GrantFree(s, q)
        PROVE  FALSE
    BY <2>1, <2>2 DEF GrantFree, Fresh
  <2>3. ASSUME CommitCreate(s)
        PROVE  FALSE
    <3>1. api[s].pay \in Payment /\ status[api[s].pay] = "absent"
      BY <2>3 DEF IInv, Fits, CommitCreate, Submitted
    <3>2. QED
      BY <2>1, <2>3, <3>1 DEF CommitCreate
  <2>4. QED
    BY <1>1, <1>2, <2>2, <2>3
       DEF CreateStep, BeginCreate, RefuseVoucher, SubmitToMayar, MayarCreates, MayarRefuses,
           AbortCreate, paymentTable
<1>3. ASSUME NEW s \in Slot, SettleStep(s)
      PROVE  \E t \in Slot : TakesBack(t, p)
  <2>1. CASE Settle(s)
    <3> DEFINE h == api[s]
               own == IF h.verdict = h.seen THEN {} ELSE {h.pay}
               new == [q \in own \cup h.victims |-> IF q \in own THEN h.verdict ELSE "closed"]
    <3>1. Written(new)
      BY <2>1 DEF Settle, StatusChanged
    <3>2. p \in DOMAIN new /\ new[p] = "unpaid"
      BY <3>1 DEF Written
    <3>3. p \in own /\ h.verdict = "unpaid"
      BY <3>2
    <3>4. QED
      BY <2>1, <3>3 DEF TakesBack
  <2>2. QED
    BY <1>1, <1>3, <2>1
       DEF SettleStep, ReceiveHook, BeginDetail, CloseInvoice, MayarTells, DetailLookupFails,
           ResumeDetail, SelectOthers, paymentTable
<1>4. CASE SyncStep
  <2>1. ASSUME SyncCommits
        PROVE  FALSE
    BY <2>1 DEF SyncCommits, Written
  <2>2. QED
    BY <1>1, <1>4, <2>1 DEF SyncStep, SyncBegins, SyncPolls, SyncPollFails, paymentTable
<1>5. CASE GatewayStep \/ AdminStep \/ CrashStep
  BY <1>1, <1>5
     DEF GatewayStep, CustomerPays, InvoiceExpires, OddHook, HookLost, AdminStep, AdminSetsQuota,
         AdminSetsStatus, AdminReplaces, AdminWrites, CrashStep, WorkerCrashes, ProcessCrashes,
         paymentTable
<1>6. QED
  BY <1>2, <1>3, <1>4, <1>5 DEF Next

\* What is PAID stays PAID unless the customer paid another invoice too: no stale
\* handler, repeated webhook, late poll or closing of other payments takes it
\* away, and a report without success does only if its handler had seen more
\* than UNPAID.
THEOREM PaidStaysPaid == Spec => PaidIsFinal
<1> DEFINE StaysPaid ==
      \A p \in Payment :
        status[p] = "paid" /\ (\A q \in Payment \ {p} : owner[q] = owner[p] => gateway[q] # "paid")
          => status'[p] = "paid" \/ \E s \in Slot : TakesBack(s, p)
<1>1. IInv /\ JInv /\ [Next]_vars => [StaysPaid]_vars
  <2> SUFFICES ASSUME IInv, JInv, Next, NEW p \in Payment, status[p] = "paid",
                      \A q \in Payment \ {p} : owner[q] = owner[p] => gateway[q] # "paid"
               PROVE  status'[p] = "paid" \/ \E s \in Slot : TakesBack(s, p)
    OBVIOUS
  <2>1. /\ status \in [Payment -> RowStatus]
        /\ coupon[p] \in FreeWith \/ gateway[p] = "paid"
        /\ coupon[p] \in FreeWith => gateway[p] = "none"
    BY DEF IInv, JInv, TypeOK, TablesOK, TablesFit, PaidMeansMoney, TablesInformed
  <2>2. CASE UNCHANGED Ledger!ledger
    BY <2>2 DEF Ledger!ledger, Ledger!record
  <2>3. ASSUME NEW q \in Payment, NEW u \in User, NEW c \in Voucher \cup {NoVoucher},
               Ledger!Issue(q, u, c)
        PROVE  status'[p] = "paid"
    BY <2>1, <2>3 DEF Ledger!Issue
  <2>4. CASE Ledger!Record
    <3>1. Ledger!Justified(p, status'[p]) => status'[p] \in {"paid", "unpaid"}
      BY <2>1 DEF Ledger!Justified, Ledger!Superseded
    <3>2. status'[p] \in {"paid", "unpaid"}
      BY <2>4, <3>1 DEF Ledger!Record
    <3>3. QED
      BY <3>2, UnpaidIsTakenBack
  <2>5. CASE \/ \E q \in Payment, new \in {"unpaid", "paid", "closed"} : Ledger!Gateway(q, new)
             \/ \E v \in Voucher : Ledger!Administer(v)
    BY <2>5 DEF Ledger!Gateway, Ledger!Administer, Ledger!record
  <2>6. Ledger!Next \/ UNCHANGED Ledger!ledger
    BY StepOfLedger
  <2>7. QED
    BY <2>2, <2>3, <2>4, <2>5, <2>6 DEF Ledger!Next
<1>2. QED
  BY <1>1, Invariance, HandlersStayInformed, PTL DEF Spec, PaidIsFinal

\* The payments made with voucher v.
UsedWith(v) == {p \in Payment : coupon[p] = v}

\* A payment comes with the decrement of its voucher's quota, and of no other.
LEMMA IssueConserves ==
  ASSUME IInv, IsFiniteSet(Payment), QuotaConserved,
         NEW p \in Payment, NEW u, NEW c \in Coupon, Ledger!Issue(p, u, c)
  PROVE  QuotaConserved'
<1> SUFFICES ASSUME NEW v \in Voucher
             PROVE  quota'[v] + Cardinality(UsedWith(v)') = InitialQuota[v]
  BY DEF QuotaConserved, UsedWith
<1>1. /\ coupon \in [Payment -> Coupon] /\ quota \in [Voucher -> Int]
      /\ coupon[p] = NoVoucher /\ NoVoucher \notin Voucher
  BY TicketPaymentsAssumption DEF IInv, TypeOK, TablesOK, TablesFit, Ledger!Issue
<1>2. /\ \A q \in Payment : coupon'[q] = IF q = p THEN c ELSE coupon[q]
      /\ quota'[v] = IF v = c THEN quota[v] - 1 ELSE quota[v]
  BY <1>1 DEF Ledger!Issue
<1>3. quota[v] + Cardinality(UsedWith(v)) = InitialQuota[v]
  BY DEF QuotaConserved, UsedWith
<1>4. IsFiniteSet(UsedWith(v)) /\ p \notin UsedWith(v)
  BY <1>1, FS_Subset DEF UsedWith
<1>5. CASE v = c
  <2>1. UsedWith(v)' = UsedWith(v) \cup {p}
    BY <1>2, <1>5 DEF UsedWith
  <2>2. Cardinality(UsedWith(v)') = Cardinality(UsedWith(v)) + 1
    BY <1>4, <2>1, FS_AddElement
  <2>3. Cardinality(UsedWith(v)) \in Nat
    BY <1>4, FS_CardinalityType
  <2>4. QED
    BY <1>1, <1>2, <1>3, <1>5, <2>2, <2>3
<1>6. CASE v # c
  <2>1. UsedWith(v)' = UsedWith(v)
    BY <1>1, <1>2, <1>6 DEF UsedWith
  <2>2. QED
    BY <1>2, <1>3, <1>6, <2>1
<1>7. QED
  BY <1>5, <1>6

\* Without an administrator, each voucher's quota and the payments made with it
\* always add up to the initial quota, however many purchases overlap, are
\* rolled back or die with their process.
THEOREM QuotaIsConserved ==
  ASSUME IsFiniteSet(Payment), AdminQuotas = {}
  PROVE  Spec => []QuotaConserved
<1>1. Init => QuotaConserved
  <2> SUFFICES ASSUME Init, NEW v \in Voucher
               PROVE  quota[v] + Cardinality(UsedWith(v)) = InitialQuota[v]
    BY DEF QuotaConserved, UsedWith
  <2>1. UsedWith(v) = {}
    BY TicketPaymentsAssumption DEF Init, UsedWith
  <2>2. Cardinality(UsedWith(v)) = 0
    BY <2>1, FS_EmptySet
  <2>3. quota[v] = InitialQuota[v] /\ InitialQuota[v] \in Nat
    BY TicketPaymentsAssumption DEF Init
  <2>4. QED
    BY <2>2, <2>3
<1>2. IInv /\ JInv /\ QuotaConserved /\ [Next]_vars => QuotaConserved'
  <2> SUFFICES ASSUME IInv, JInv, QuotaConserved, [Next]_vars PROVE QuotaConserved'
    OBVIOUS
  <2>1. ASSUME NEW p \in Payment, NEW u \in User, NEW c \in Voucher \cup {NoVoucher},
               Ledger!Issue(p, u, c)
        PROVE  QuotaConserved'
    BY <2>1, IssueConserves DEF Coupon
  <2>2. ASSUME UNCHANGED <<coupon, quota>>
        PROVE  QuotaConserved'
    BY <2>2 DEF QuotaConserved
  <2>3. ASSUME NEW v \in Voucher, Ledger!Administer(v)
        PROVE  UNCHANGED <<coupon, quota>>
    BY <2>3 DEF Ledger!Administer, Ledger!record, IInv, TypeOK, TablesOK
  <2>4. CASE UNCHANGED Ledger!ledger
    BY <2>2, <2>4 DEF Ledger!ledger, Ledger!record
  <2>5. CASE \/ Ledger!Record
             \/ \E p \in Payment, new \in {"unpaid", "paid", "closed"} : Ledger!Gateway(p, new)
    BY <2>2, <2>5 DEF Ledger!Record, Ledger!Gateway, Ledger!record
  <2>6. QED
    BY StepOfLedger, <2>1, <2>2, <2>3, <2>4, <2>5 DEF Ledger!Next
<1>3. QED
  BY <1>1, <1>2, Invariance, HandlersStayInformed, PTL DEF Spec

(***************************************************************************)
(* The participant type, while the worker is not deployed: its sync marks  *)
(* payments PAID and leaves the user's type alone.                         *)
(***************************************************************************)

HasTypeOf(u, p) == owner[p] = u /\ paidAt[p] /\ ptype[u] = TypeOf[coupon[p]]

TypesFollow ==
  /\ worker = Resting
  /\ \A u \in User : ptype[u] # NonParticipant => \E p \in Payment : HasTypeOf(u, p)
  /\ \A p \in Payment : paidAt[p] => owner[p] \in User /\ ptype[owner[p]] # NonParticipant

\* Nothing is marked as paid, and no type is written.
LEMMA NobodyPromoted ==
  ASSUME TypesFollow, worker' = Resting, UNCHANGED ptype,
         \A p \in Payment :
            /\ paidAt'[p] <=> paidAt[p]
            /\ paidAt[p] => owner'[p] = owner[p] /\ coupon'[p] = coupon[p]
  PROVE  TypesFollow'
BY DEF TypesFollow, HasTypeOf

\* One payment is or stays marked as paid, and its user is promoted.
LEMMA OnePromoted ==
  ASSUME IInv, TypesFollow, NEW h \in HandlerState, Informed(h), h.user \in User,
         NEW p \in Payment, ptype' = Promoted(h), worker' = Resting,
         owner'[p] = h.user, coupon'[p] = h.coupon, paidAt'[p],
         \A q \in Payment \ {p} : paidAt'[q] <=> paidAt[q],
         \A q \in Payment : paidAt[q] => owner'[q] = owner[q] /\ coupon'[q] = coupon[q]
  PROVE  TypesFollow'
<1>1. /\ \A u \in User : ptype'[u] =
           IF u = h.user /\ TypeOf[h.coupon] # h.seenType THEN TypeOf[h.coupon]
                                                          ELSE ptype[u]
      /\ TypeOf[h.coupon] # NonParticipant
  BY PromotedAt DEF IInv, TypeOK
<1>2. \A q \in Payment : paidAt[q] => paidAt'[q]
  OBVIOUS
<1>3. ptype'[h.user] # NonParticipant
  BY <1>1 DEF Informed
<1>4. ASSUME NEW u \in User, ptype'[u] # NonParticipant
      PROVE  \E q \in Payment : HasTypeOf(u, q)'
  <2>1. CASE ptype'[u] = ptype[u]
    <3>1. PICK q \in Payment : HasTypeOf(u, q)
      BY <1>4, <2>1 DEF TypesFollow
    <3>2. HasTypeOf(u, q)'
      BY <1>2, <2>1, <3>1 DEF HasTypeOf
    <3>3. QED
      BY <3>2
  <2>2. CASE ptype'[u] # ptype[u]
    <3>1. HasTypeOf(u, p)'
      BY <1>1, <2>2 DEF HasTypeOf
    <3>2. QED
      BY <3>1
  <2>3. QED
    BY <2>1, <2>2
<1>5. ASSUME NEW q \in Payment, paidAt'[q]
      PROVE  owner'[q] \in User /\ ptype'[owner'[q]] # NonParticipant
  <2>1. CASE q = p
    BY <1>3, <2>1
  <2>2. CASE q # p
    <3>1. owner'[q] = owner[q] /\ owner[q] \in User /\ ptype[owner[q]] # NonParticipant
      BY <1>5, <2>2 DEF TypesFollow
    <3>2. QED
      BY <1>1, <3>1
  <2>3. QED
    BY <2>1, <2>2
<1>6. QED
  BY <1>4, <1>5 DEF TypesFollow

LEMMA TypesFollowStep ==
  ASSUME IInv, JInv, ~SyncJob, TypesFollow, Next
  PROVE  TypesFollow'
<1>0. /\ TablesOK /\ HandlersOK /\ TablesInformed /\ TablesFit
      /\ \A s \in Slot : api[s] \in HandlerState /\ Fits(s, api[s]) /\ Informed(api[s])
      /\ worker = Resting
      /\ \A p \in Payment : paidAt[p] => status[p] # "absent"
  BY DEF IInv, JInv, TypeOK, HandlersOK, TypesFollow, TablesInformed
<1>1. ASSUME NEW s \in Slot, NEW p \in Payment, GrantFree(s, p)
      PROVE  TypesFollow'
  <2>1. /\ api[s].user \in User /\ status[p] = "absent" /\ ~paidAt[p]
        /\ ptype' = Promoted(api[s]) /\ InsertRow(s, p, "paid") /\ worker' = Resting
    BY <1>0, <1>1 DEF GrantFree, Fresh, Fits, TablesInformed
  <2>2. \A q \in Payment :
           /\ owner'[q] = IF q = p THEN api[s].user ELSE owner[q]
           /\ coupon'[q] = IF q = p THEN api[s].coupon ELSE coupon[q]
           /\ paidAt'[q] = IF q # p THEN paidAt[q] ELSE "paid" = "paid"
    BY <1>0, <2>1, InsertRowAt
  <2>3. QED
    BY <1>0, <2>1, <2>2, OnePromoted
<1>2. ASSUME NEW s \in Slot, CommitCreate(s)
      PROVE  TypesFollow'
  <2>1. /\ api[s].pay \in Payment /\ status[api[s].pay] = "absent" /\ ~paidAt[api[s].pay]
        /\ ptype' = ptype /\ InsertRow(s, api[s].pay, "unpaid") /\ worker' = Resting
    BY <1>0, <1>2 DEF CommitCreate, Fits, Submitted, TablesInformed
  <2>2. \A q \in Payment :
           /\ owner'[q] = IF q = api[s].pay THEN api[s].user ELSE owner[q]
           /\ coupon'[q] = IF q = api[s].pay THEN api[s].coupon ELSE coupon[q]
           /\ paidAt'[q] = IF q # api[s].pay THEN paidAt[q] ELSE "unpaid" = "paid"
    BY <1>0, <2>1, InsertRowAt
  <2>3. QED
    BY <2>1, <2>2, NobodyPromoted
<1>3. ASSUME NEW s \in Slot, Settle(s)
      PROVE  TypesFollow'
  <2> DEFINE h == api[s]
             own == IF h.verdict = h.seen THEN {} ELSE {h.pay}
             new == [p \in own \cup h.victims |-> IF p \in own THEN h.verdict ELSE "closed"]
  <2>1. /\ h \in HandlerState /\ Informed(h) /\ h.pay \in Payment /\ status[h.pay] # "absent"
        /\ h.user = owner[h.pay] /\ h.coupon = coupon[h.pay] /\ owner[h.pay] \in User
    BY <1>0, <1>3 DEF Settle, StatusChanged, Fits, Informed, Submitted, Settling, TablesFit
  <2>2. /\ UNCHANGED <<owner, coupon>> /\ worker' = Resting
        /\ ptype' = IF h.verdict = "paid" THEN Promoted(h) ELSE ptype
    BY <1>0, <1>3 DEF Settle, StatusChanged, Written
  <2>3. \A p \in Payment : paidAt'[p] = (paidAt[p] \/ p \in {q \in DOMAIN new : new[q] = "paid"})
    BY <1>3 DEF Settle, StatusChanged, Written
  <2>4. \A p \in Payment :
          p \in {q \in DOMAIN new : new[q] = "paid"}
            <=> p = h.pay /\ h.verdict = "paid" /\ h.verdict # h.seen
    OBVIOUS
  <2>5. h.verdict = "paid" /\ h.verdict = h.seen => paidAt[h.pay]
    BY <2>1 DEF Informed
  <2> HIDE DEF new, own, h
  <2>6. CASE h.verdict = "paid"
    <3>1. paidAt'[h.pay] /\ \A q \in Payment \ {h.pay} : paidAt'[q] <=> paidAt[q]
      BY <2>1, <2>3, <2>4, <2>5, <2>6
    <3>2. QED
      BY <2>1, <2>2, <2>6, <3>1, OnePromoted
  <2>7. CASE h.verdict # "paid"
    <3>1. \A q \in Payment : paidAt'[q] <=> paidAt[q]
      BY <2>3, <2>4, <2>7
    <3>2. QED
      BY <2>2, <2>7, <3>1, NobodyPromoted
  <2>8. QED
    BY <2>6, <2>7
<1>4. ASSUME NEW s \in Slot, CreateStep(s) \/ SettleStep(s),
             ~CommitCreate(s), ~Settle(s), ~\E p \in Payment : GrantFree(s, p)
      PROVE  UNCHANGED <<paymentTable, ptype, worker>>
  BY <1>4 DEF CreateStep, BeginCreate, RefuseVoucher, SubmitToMayar, MayarCreates,
     MayarRefuses, AbortCreate, SettleStep, ReceiveHook, BeginDetail, CloseInvoice,
     MayarTells, DetailLookupFails, ResumeDetail, SelectOthers
<1>5. CASE SyncStep
  BY <1>0, <1>5 DEF SyncStep, SyncBegins, SyncPolls, SyncPollFails, SyncCommits, Resting
<1>6. CASE GatewayStep \/ AdminStep
  BY <1>6 DEF GatewayStep, CustomerPays, InvoiceExpires, OddHook, HookLost, AdminStep,
     AdminSetsQuota, AdminSetsStatus, AdminReplaces, AdminWrites, paymentTable,
     TypesFollow, HasTypeOf
<1>7. ASSUME UNCHANGED <<paymentTable, ptype, worker>>
      PROVE  TypesFollow'
  BY <1>7 DEF paymentTable, TypesFollow, HasTypeOf
<1>8. CASE CrashStep
  <2>1. UNCHANGED <<paymentTable, ptype>> /\ worker' \in {worker, Resting}
    BY <1>8 DEF CrashStep, WorkerCrashes, ProcessCrashes
  <2>2. QED
    BY <1>0, <1>7, <2>1
<1>9. QED
  BY <1>1, <1>2, <1>3, <1>4, <1>5, <1>6, <1>7, <1>8 DEF Next

\* A user with a PAID payment has the type of a payment that is or was PAID,
\* although webhooks, detail pages and free purchases write the type from what
\* they loaded before their awaits, and only when it differs from that.
THEOREM PaidUsersHaveTheirType ==
  ASSUME ~SyncJob
  PROVE  Spec => []PaidRowSetsType
<1>1. Init => TypesFollow
  BY DEF Init, TypesFollow
<1>2. IInv /\ JInv /\ TypesFollow /\ [Next]_vars => TypesFollow'
  <2>1. TypesFollow /\ UNCHANGED vars => TypesFollow'
    BY DEF vars, paymentTable, TypesFollow, HasTypeOf
  <2>2. QED
    BY <2>1, TypesFollowStep
<1>3. JInv /\ TypesFollow => PaidRowSetsType
  <2> SUFFICES ASSUME JInv, TypesFollow, NEW u \in User, Rows(u, "paid") # {}
               PROVE  ptype[u] \in
                        {TypeOf[coupon[p]] : p \in {q \in Payment : owner[q] = u /\ paidAt[q]}}
    BY DEF PaidRowSetsType
  <2>1. ptype[u] # NonParticipant
    BY DEF Rows, JInv, TablesInformed, TypesFollow
  <2>2. PICK p \in Payment : HasTypeOf(u, p)
    BY <2>1 DEF TypesFollow
  <2>3. QED
    BY <2>2 DEF HasTypeOf
<1>4. QED
  BY <1>1, <1>2, <1>3, Invariance, HandlersStayInformed, PTL DEF Spec
=============================================================================
