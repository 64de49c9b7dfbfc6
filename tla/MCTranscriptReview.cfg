SPECIFICATION Spec
CONSTANTS
  Users = {author, reviewer}
  Requests = {r1, r2}
  MaxVersion = 2
INVARIANTS
  DecisionsStand
  NoMeansNo
VIEW Undocumented
SYMMETRY Symmetry
