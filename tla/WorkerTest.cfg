CONSTANTS
  Worker = {w1, w2, w3}
  Main = Main
  Times = 3
  NoValue = NoValue
SPECIFICATION Spec
INVARIANTS AllJobsTaken SignalsExact
PROPERTY TestEnds
