\* Participant types with the worker deployed.
SPECIFICATION Spec
SYMMETRY MCSymmetry
CONSTANTS
  User = {u1}
  Payment = {p1}
  Voucher = {v1}
  Process = {w1, w2}
  Handler = {1}
  ParticipantType <- MCTypes
  NonParticipant = NonParticipant
  NoUser = NoUser
  NoPayment = NoPayment
  NoVoucher = NoVoucher
  NoSlot = NoSlot
  InitialQuota <- MCQuota1
  FreeWith <- MCNone
  Entitled <- MCAll
  TypeOf <- MCTypeOf
  AdminQuotas <- MCNone
  SyncJob = TRUE
  DoublePay = FALSE
  OddHooks = FALSE
INVARIANTS
  PaidRowSetsType
