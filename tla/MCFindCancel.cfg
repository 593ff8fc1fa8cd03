CONSTANTS
  Users <- MCUsers
  Sellers <- MCSellers
  Prices <- MCPrices
  Discounts <- MCDiscounts
  Quantities <- MCQuantities
  Stocks <- MCStocks
  Topups <- MCTopups
  Types <- MCTypes
  SizeMod = 3
  MoneyMod = 16
  MaxItems = 2
  MaxOrders = 2
  MaxRows = 2
  MaxBalance = 2
SPECIFICATION Spec
PROPERTY CancelClosesOrder
