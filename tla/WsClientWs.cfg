SPECIFICATION Spec
CONSTANTS
  Handlers = {h1, h2}
  Fds = {4, 5, 6}
  Null = null
  Junk = junk
CHECK_DEADLOCK FALSE
INVARIANT ClientWsFound
