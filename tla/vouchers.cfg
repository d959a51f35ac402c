\* Two customers, two API processes, one voucher with one unit of quota.
SPECIFICATION Spec
SYMMETRY MCSymmetry
CONSTANTS
  User = {u1, u2}
  Payment = {p1, p2, p3}
  Voucher = {v1}
  Process = {w1, w2}
  Handler = {1}
  ParticipantType <- MCTypes
  NonParticipant = NonParticipant
  NoUser = NoUser
  NoPayment = NoPayment
  NoVoucher = NoVoucher
  NoSlot = NoSlot
  InitialQuota <- MCQuota1
  FreeWith <- MCNone
  Entitled <- MCAll
  TypeOf <- MCTypeOf
  AdminQuotas <- MCNone
  SyncJob = FALSE
  DoublePay = FALSE
  OddHooks = FALSE
INVARIANTS
  TypeOK
  QuotaConserved
  LockIsHeldByCreate
