\* One API process with two requests in progress.
SPECIFICATION FairHandlers
CONSTANTS
  User = {u1}
  Payment = {p1, p2}
  Voucher = {v1}
  Process = {w1}
  Handler = {1, 2}
  ParticipantType <- MCTypes
  NonParticipant = NonParticipant
  NoUser = NoUser
  NoPayment = NoPayment
  NoVoucher = NoVoucher
  NoSlot = NoSlot
  InitialQuota <- MCQuota1
  FreeWith <- MCNone
  Entitled <- MCAll
  TypeOf <- MCTypeOf
  AdminQuotas <- MCNone
  SyncJob = FALSE
  DoublePay = FALSE
  OddHooks = FALSE
PROPERTIES
  EveryCreateIsAnswered
