SPECIFICATION FairSpec
CONSTANTS
  w1 = w1
  here = here
  there = there
  Workers <- MCWorkers
  Start = here
  Places <- MCPlaces
  MaxTyped = 2
  MaxBudget = 4
INVARIANTS SleepsSeen Settled PlaceKept
PROPERTIES EverythingServed GoesIdle
CHECK_DEADLOCK FALSE
