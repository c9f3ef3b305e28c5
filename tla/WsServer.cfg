SPECIFICATION LiveSpec
CONSTANTS
  Handlers = {h1, h2}
  Fds = {4, 5, 6}
  Null = null
  Junk = junk
CHECK_DEADLOCK FALSE
INVARIANTS
  ClientWsLive
  Published
  DescriptorsHeld
PROPERTY BrokenClientEnds
