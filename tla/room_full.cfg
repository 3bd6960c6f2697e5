SPECIFICATION BoundedSpec
CONSTANTS
  SIZE = 11
  MaxCoordinate = 99
  MaxMoves = 2
  Layout <- StartLayout
PROPERTY PlaysByTheRules
