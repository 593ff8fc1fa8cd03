CONSTANTS
  Users <- MCUsers
  Sellers <- MCSellers
  Prices <- MCPrices
  Discounts <- MCDiscounts
  Quantities <- MCQuantities
  Stocks <- MCStocks
  Topups <- MCTopups
  Types <- MCTypes
  SizeMod = 2
  MoneyMod = 16
  MaxItems = 2
  MaxOrders = 2
  MaxRows = 2
  MaxBalance = 2
SPECIFICATION FairSpec
INVARIANTS
  TypeOK
  OneUnitReserved
  OneRowPerItem
PROPERTIES
  RemovalLeavesNoRow
  CheckoutOutcome
  MoneyTakenClosesOrder
  OrderLeavesOneWay
  NoOverdraft
  ImplementsLedger
  CheckoutEnds
