SPECIFICATION Spec
CONSTANTS
  SIZE = 5
  MaxCoordinate = 99
  Layout <- SmallLayout
INVARIANTS TypeOK OneKing GameoverIsWon ShutInBesideThrone
PROPERTY MoveTakesEnemies
