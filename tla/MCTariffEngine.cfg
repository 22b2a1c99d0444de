SPECIFICATION Spec
CONSTANTS
  Tariffs <- MCTariffs
  NoTariff = NoTariff
  Energies <- MCEnergies
  Durations <- MCDurations
INVARIANTS
  BilledOnce
  WithinRounding
  PricesAreProgressive
CHECK_DEADLOCK FALSE
