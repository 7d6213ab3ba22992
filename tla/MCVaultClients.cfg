SPECIFICATION Spec
CONSTANTS
  c1 = c1
  c2 = c2
  Clients = {c1, c2}
  a1 = a1
  a2 = a2
  Aliases = {a1, a2}
  ph = ph
  Phrases = {ph}
  Yes = Yes
  NoRecord = NoRecord
  MaxIds = 3
  MaxRotations = 1
SYMMETRY Symmetry
INVARIANTS Coherent InjectsOwn
PROPERTIES OnlyCreateFills
