SPECIFICATION Spec
CONSTANTS
  m1 = m1  m2 = m2  glass = glass  paper = paper  other = other
  red = red  blue = blue
  Model = {m1, m2}
  Category = {glass, paper, other}
  Charted = {glass, paper}
  Null = Null
  Tables <- MCTables
  Type = {"bar", "line"}
  Colour = {red, blue}
  ErrorBody = ErrorBody
INVARIANT TypeOK
INVARIANT ScreenIsCurrent
INVARIANT DrawnChartsAreListed
INVARIANT NoFiguresAfterError
INVARIANT RatesAddUp
