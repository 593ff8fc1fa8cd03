CONSTANTS
  Users <- MCUsers
  Sellers <- MCSellers
  Prices <- MCPrices
  Discounts <- MCDiscounts
  Quantities <- MCQuantities
  Stocks <- MCStocks
  Topups <- MCTopups
  Types <- MCTypes
  SizeMod = 3
  MoneyMod = 16
  MaxItems = 2
  MaxOrders = 2
  MaxRows = 2
  MaxBalance = 8
  Threads <- MCThreads2
  Killable = FALSE
  MaxRequests = 3
SPECIFICATION MCSpec
INVARIANT NoOversell
CHECK_DEADLOCK FALSE
