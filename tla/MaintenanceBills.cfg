SPECIFICATION FairSpec
CONSTANTS
  north = north
  nowhere = nowhere
  p1 = p1
  p2 = p2
  r1 = r1
  r2 = r2
  Plots = {p1, p2}
  Sectors = {north}
  NoSector = nowhere
  SectorOf <- MCSectorOfTwo
  Areas = {1540}
  NoArea = NoArea
  Rates = {5, 11}
  NoRate = NoRate
  NoPlot = NoPlot
  Runs = {r1, r2}
INVARIANTS
  TypeOK
  BilledOnce
  ReportedTruly
  NeighboursPayAlike
PROPERTIES
  CallsEnd
