\* Requests in one read: in one of them a header ends right behind its colon.
SPECIFICATION Spec
CONSTANTS
  Input <- OneRead
  Parts <- MCParts
INVARIANTS
  NothingThrown
CHECK_DEADLOCK FALSE
