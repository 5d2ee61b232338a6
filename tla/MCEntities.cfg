SPECIFICATION Spec
CONSTANTS
  Currency = {RUB, USD}
  Cents = {1, 7}
  Factor <- MCFactor
  MaxCents = 24
  CentsEnd = 20
  MaxMinutes = 60
  MaxFailures = 10
  Steps = 4
INVARIANTS MoneyTypeOK ProductsAreNearest SharesAddUp StoredAsSent BackoffTypeOK
PROPERTIES DelaysGrow
