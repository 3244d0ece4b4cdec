\* Whole requests to every route, those nothing answers among them. Every file
\* the program names is there.
SPECIFICATION ExchangeSpec
CONSTANTS
  Input <- Routes
  Parts <- RouteParts
  Files = {"index.htm", "mhw.html", "cat.jpg"}
INVARIANTS
  UnsupportedRefused
CHECK_DEADLOCK FALSE
