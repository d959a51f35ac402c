--------------------------- MODULE PaymentLedger ---------------------------
(***************************************************************************)
(* What the payment subsystem promises, without its handlers, locks and    *)
(* awaits: a payment and the voucher unit it uses come into being in one   *)
(* step, and afterwards its recorded status changes only for a reason that *)
(* lies with the gateway.  TicketPayments implements this specification.   *)
(***************************************************************************)
EXTENDS Integers

CONSTANTS
  User, Payment, Voucher, NoUser, NoVoucher,
  InitialQuota, FreeWith, Entitled, AdminQuotas,
  Reversible  \* TRUE: the gateway may report that a payment is not paid after all

VARIABLES
  status,     \* [Payment -> recorded status, or "absent"]
  owner,      \* [Payment -> the user who issued it]
  coupon,     \* [Payment -> the voucher it used, or NoVoucher]
  quota, active,
  gateway     \* [Payment -> the gateway's own status, or "none"]

record == <<status, owner, coupon>>
ledger == <<record, quota, active, gateway>>

Init ==
  /\ status = [p \in Payment |-> "absent"]
  /\ owner = [p \in Payment |-> NoUser]
  /\ coupon = [p \in Payment |-> NoVoucher]
  /\ quota = InitialQuota
  /\ active = [v \in Voucher |-> TRUE]
  /\ gateway = [p \in Payment |-> "none"]

\* A payment appears together with the use of its voucher, or not at all.
Issue(p, u, c) ==
  /\ status[p] = "absent"
  /\ c # NoVoucher => active[c] /\ quota[c] > 0 /\ <<u, c>> \in Entitled
  /\ c \notin FreeWith => gateway[p] # "none"
  /\ status' = [status EXCEPT ![p] = IF c \in FreeWith THEN "paid" ELSE "unpaid"]
  /\ owner' = [owner EXCEPT ![p] = u]
  /\ coupon' = [coupon EXCEPT ![p] = c]
  /\ quota' = [v \in Voucher |-> IF v = c THEN quota[v] - 1 ELSE quota[v]]
  /\ UNCHANGED <<active, gateway>>

\* The reasons for which a recorded status may change.
PaidFor(p) == gateway[p] = "paid"
Superseded(p) == \E q \in Payment \ {p} : owner[q] = owner[p] /\ gateway[q] = "paid"
Justified(p, new) ==
  \/ new = "paid" /\ PaidFor(p)
  \/ new = "closed" /\ (gateway[p] = "closed" \/ Superseded(p))
  \/ new = "unpaid" /\ Reversible

Record ==
  /\ DOMAIN status' = Payment
  /\ \A p \in Payment : status'[p] # status[p] =>
       status[p] # "absent" /\ Justified(p, status'[p])
  /\ UNCHANGED <<owner, coupon, quota, active, gateway>>

\* The gateway's side: an invoice is made once and ends paid or closed.
Gateway(p, new) ==
  /\ \/ gateway[p] = "none" /\ status[p] = "absent" /\ new = "unpaid"
     \/ gateway[p] = "unpaid" /\ status[p] # "absent" /\ new = "paid"
     \/ gateway[p] = "unpaid" /\ new = "closed"
  /\ gateway' = [gateway EXCEPT ![p] = new]
  /\ UNCHANGED <<record, quota, active>>

Administer(v) ==
  /\ \E n \in AdminQuotas \cup {quota[v]}, b \in BOOLEAN :
       quota' = [quota EXCEPT ![v] = n] /\ active' = [active EXCEPT ![v] = b]
  /\ UNCHANGED <<record, gateway>>

Next ==
  \/ \E p \in Payment, u \in User, c \in Voucher \cup {NoVoucher} : Issue(p, u, c)
  \/ Record
  \/ \E p \in Payment, new \in {"unpaid", "paid", "closed"} : Gateway(p, new)
  \/ \E v \in Voucher : Administer(v)

Spec == Init /\ [][Next]_ledger
=============================================================================
