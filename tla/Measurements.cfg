CONSTANTS
  Channels = {"cpu", "rss"}
  MaxLog = 4
  Prices = {0, 1000, 1004, 1030, 1100}
  RingSize = 5
  Short = 3
  Long = 4
  Lookback = 3
  RsiPeriods = 4
  MinData = 2
  MaxPrices = 7
  Stocks = {a, b, l}
  LongStocks = {l}
  Series = {v1, v2}
  MaxStocks = 3
SPECIFICATION AllSpec
INVARIANTS OneAlertPerExcursion PriceAtExact VerdictsBacked HistoryKept
PROPERTY ExitNoticed
CHECK_DEADLOCK FALSE
