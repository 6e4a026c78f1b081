CONSTANTS
  MaxRounds = 2
  MaxLines = 3
  Chunks = {{"text"}, {"search"}, {"finish"}}
SPECIFICATION Spec
INVARIANTS
  Verbatim
