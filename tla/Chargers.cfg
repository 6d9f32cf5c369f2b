SPECIFICATION ChargersSpec
CONSTANTS
  c1 = c1 c2 = c2 o1 = o1 b1 = b1 b2 = b2 b3 = b3 avg = avg
  None = None
  Chargers <- Two
  Listed <- Two
  Statuses = {"2", "8"}
  Valid = {"2"}
  Wait = "2"
  Interval = 1
  Period = 2
  Limit = 2
  MaxClock = 3
  MaxLives = 2
  Bands <- NineBands
  MinKwh = 1
  MaxKwh = 40000
  OrderIds <- OneOrder
  Operators <- ThreeOperators
  Average <- avg
  Tariffs <- RateTable
  Output <- Outputs
  Holds = {1000, 1003, 50000, 200000}
  Energies = {0, 1, 333, 40000, 40001}
  Concerns <- Apart
INVARIANTS ChargersTypeOK QuotaPerLife AmountBuysExactly RateCoversOutput
PROPERTIES AnswersSettle OperatorKept
CHECK_DEADLOCK FALSE
