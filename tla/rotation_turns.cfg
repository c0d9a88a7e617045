SPECIFICATION LiveSpec
CONSTANTS
  Rates = {1, 2, 6}
  Most = 7
  Heaviest = 5
  MaxChanges = 3
  MaxCrashes = 2
  Shapes <- Lists
INVARIANT TypeOK
INVARIANT SpendIsRepaid
PROPERTY OncePerLap
PROPERTY EveryUnitIsAsked
