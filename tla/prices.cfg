SPECIFICATION FairSpec
CONSTANTS
  Requests <- Threads
  Prices = {2, 4}
  Entries = {6}
  MonthLength = 2
  MaxDay = 2
  MaxRequests = 2
INVARIANTS TypeOK PricesAreOfTheirMonth 
PROPERTY PriceKeepsUp
