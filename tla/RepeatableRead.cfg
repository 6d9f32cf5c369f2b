SPECIFICATION Spec
CONSTANTS
  u1 = u1 p1 = p1 p2 = p2 o1 = o1 o2 = o2 pay1 = pay1 k1 = k1
  None = None
  Isolation = "REPEATABLE_READ"
  Served = {"create", "charge", "credit", "creditown", "preauth", "complete", "pay"}
  Users <- OneUser
  Procs <- TwoProcs
  WorkerOf <- OwnWorkers
  Refs <- AllRefs
  PaymentIds <- OnePayment
  ChargeAmounts <- ThreePoints
  Adjustments <- OnlyOnePoint
  OrderIds <- TwoOrders
  ClientKeys <- OneKey
  MinHold = 2
  MaxHold = 2
  Fees <- OnlyOnePoint
  MaxRows = 1
SYMMETRY Interchangeable
INVARIANTS NoOverdraft OrdersSettledOnce ChargedOnce OneOrderPerKey
