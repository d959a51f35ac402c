\* A free ticket and a paid one with a voucher that an administrator rewrites;
\* Mayar also reports payments that did not succeed; the worker is not deployed.
SPECIFICATION Spec
SYMMETRY MCSymmetry
CONSTANTS
  User = {u1}
  Payment = {p1, p2}
  Voucher = {v1}
  Process = {w1, w2}
  Handler = {1}
  ParticipantType <- MCTypes
  NonParticipant = NonParticipant
  NoUser = NoUser
  NoPayment = NoPayment
  NoVoucher = NoVoucher
  NoSlot = NoSlot
  InitialQuota <- MCQuota1
  FreeWith <- MCFreeTicket
  Entitled <- MCAll
  TypeOf <- MCTypeOf
  AdminQuotas <- MCAdminQuotas
  SyncJob = FALSE
  DoublePay = FALSE
  OddHooks = TRUE
INVARIANTS
  QuotaNeverNegative
  PaidRowSetsType
PROPERTIES
  RedemptionIsAtomic
  PaidIsFinal
