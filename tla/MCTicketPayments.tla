------------------------- MODULE MCTicketPayments -------------------------
(***************************************************************************)
(* Instances of TicketPayments for TLC.                                    *)
(***************************************************************************)
EXTENDS TicketPayments, TLC

\* One unit of quota: the second request of two must find it used.
MCQuota1 == [v \in Voucher |-> 1]
MCNone == {}
MCAll == User \X Voucher
\* A voucher with a participant type of its own, the ticket's type otherwise.
MCTypeOf == [c \in Coupon |-> IF c = NoVoucher THEN "attendee" ELSE "speaker"]
MCOneType == [c \in Coupon |-> "attendee"]
MCTypes == {"attendee", "speaker"}
\* The ticket costs nothing; the one that goes with the voucher does.
MCFreeTicket == {NoVoucher}
MCAdminQuotas == {0, 2}

MCSymmetry == Permutations(User) \cup Permutations(Payment)
=============================================================================
