CONSTANTS
  MaxRounds = 2
  MaxLines = 4
  Chunks = {{"text"}, {"search"}, {"more", "text"}, {"client"}, {"finish", "usage"}, {"usage"}}
SPECIFICATION Spec
INVARIANTS
  InterceptedHidden
