SPECIFICATION Spec
CONSTANTS
  Chunk = 11
  Slack = {0, 2, 4}
  HelpLines = 1
  Args <- Texts
  MaxQueued = 2
  MaxUnits = 9
INVARIANTS
  BlocksFit
  PlaceholderIsFilled
PROPERTY
  ImplementsReplyStream
