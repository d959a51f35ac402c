\* One customer with two invoices, both payable; webhook, detail page and worker.
SPECIFICATION FairSync
CONSTANTS
  User = {u1}
  Payment = {p1, p2}
  Voucher = {v1}
  Process = {w1, w2}
  Handler = {1}
  ParticipantType <- MCTypes
  NonParticipant = NonParticipant
  NoUser = NoUser
  NoPayment = NoPayment
  NoVoucher = NoVoucher
  NoSlot = NoSlot
  InitialQuota <- MCQuota1
  FreeWith <- MCNone
  Entitled <- MCAll
  TypeOf <- MCOneType
  AdminQuotas <- MCNone
  SyncJob = TRUE
  DoublePay = TRUE
  OddHooks = FALSE
INVARIANTS
  PaidMeansMoney
PROPERTIES
  ImplementsLedger
  PaidCustomerIsServed
