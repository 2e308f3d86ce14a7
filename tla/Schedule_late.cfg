\* Four payments a season, over a year of four months of two days.
CONSTANTS
  MonthDays = 2
  YearMonths = 4
  SeasonStart = 1
  SeasonMonths = 2
  Installments = {4}
  Seasons = {1, 2}
  Prices = {10}
  Discounts = {0, 3}
  Rate = 3
  MaxSeason = 3
  SignBy = 5
  LastDay = 24
  NoTerms = NoTerms
SPECIFICATION Spec
CHECK_DEADLOCK FALSE
INVARIANTS SeasonAddsUp
