SPECIFICATION Spec
CONSTANTS
  Roles = {role}
  Levels = {junior, senior}
  Stacks = {stack}
  Rubrics = {rubric}
  Questions = {question}
  Tracks = {track}
  Candidates = {candidate}
  Requests = {r1, r2}
  None = None
PROPERTIES
  ProfilesStayOnOffer
  NothingIsStranded
CONSTRAINT Bound
ACTION_CONSTRAINT Prompt
SYMMETRY Symmetry
CHECK_DEADLOCK FALSE
