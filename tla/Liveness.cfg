SPECIFICATION FairSpec
CONSTANTS
  u1 = u1 p1 = p1 p2 = p2 o1 = o1 o2 = o2 pay1 = pay1 k1 = k1
  None = None
  Isolation = "READ_COMMITTED"
  Served = {"balance", "withdraw", "create", "charge", "preauth", "complete", "pay", "cancel"}
  Users <- OneUser
  Procs <- TwoProcs
  WorkerOf <- OneWorker
  Refs <- AllRefs
  PaymentIds <- OnePayment
  ChargeAmounts <- TwoPoints
  Adjustments <- TwoPoints
  OrderIds <- OneOrder
  ClientKeys <- OneKey
  MinHold = 2
  MaxHold = 2
  Fees <- TwoPoints
  MaxRows = 1
PROPERTIES RequestsAnswered
\* once its only user has withdrawn, the instance may stop
CHECK_DEADLOCK FALSE
