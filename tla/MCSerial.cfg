CONSTANTS
  Users <- MCUsers
  Sellers <- MCSellers
  Prices <- MCPrices
  Discounts <- MCDiscounts
  Quantities <- MCQuantities
  Stocks <- MCStocks
  Topups <- MCTopups
  Types <- MCTypes
  SizeMod = 3
  MoneyMod = 16
  MaxItems = 2
  MaxOrders = 2
  MaxRows = 2
  MaxBalance = 20
  Threads <- MCThreads
  Killable = FALSE
  MaxRequests = 6
SPECIFICATION FairSerialSpec
PROPERTIES
  ImplementsMarket
  CheckoutGoesOn
CHECK_DEADLOCK FALSE
