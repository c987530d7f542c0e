SPECIFICATION Spec
CONSTANTS
  SeqMod = 8
  Cars <- TwoCars
  Ring = 8
  Capacity = 4
  PingEvery = 1
  TripLimit = 1
  MaxFlight = 2
  MaxClock = 3
  MaxDrift = 1
  MaxRace = 2
VIEW View
INVARIANTS
  ClockWithinTrip
  CarsInBetween
PROPERTY
  NoEarlyStart
