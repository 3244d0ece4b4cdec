\* Requests whole, in two reads, and with one token missing or wrong; the
\* routes with whole requests, and logins in two reads.
SPECIFICATION ExchangeSpec
CONSTANTS
  Input <- ExchangeInput
  Parts <- ExchangeParts
  Files <- RepositoryFiles
INVARIANTS
  ExchangeInv
  RequestRight
  RoutedRight
  ThrownOnlyIf
  CompleteMeansEnded
  NothingBehindBuffer
CHECK_DEADLOCK FALSE
