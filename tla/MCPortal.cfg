SPECIFICATION Spec
CONSTANTS
  home = home
  away = away
  People = {ana, bob}
  Imeis = {m1}
  Places = {home, away}
  Forms <- AllForms
  Browsers = {b1, b2}
SYMMETRY Symmetry
INVARIANTS PlaceOfOneRequest AnswersAreTrue
CHECK_DEADLOCK FALSE
