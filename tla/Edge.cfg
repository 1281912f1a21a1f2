CONSTANTS
  local = local
  mapped = mapped
  other = other
  proxy = proxy
  junk = junk
  clientAddress = clientAddress
  otherAddress = otherAddress
  proxyAddress = proxyAddress
  Unknown = Unknown
  NoAddress = NoAddress
  phone = phone
  tablet = tablet
  guest = guest
  host = host
  visitor = visitor
  c1 = c1
  c2 = c2
  Spellings <- MCSpellings
  Addresses <- MCAddresses
  Canonical <- MCCanonical
  Trusted = {proxy}
  Limit = 2
  Window = 2
  Capacity = 2
  MaxSafe = 7
  Places = {c1, c2}
  Bearers = {phone, tablet, guest}
  Holder <- MCHolder
  MaximumConnections = 2
  MaximumConnectionsPerUser = 1
  NoEntry = NoEntry
  MaxMoves = 4
  MaxLines = 4
  black = black
  white = white
  Sides = {black, white}
  None = None
  Budget = 4
  Allowances = {0, 1, 3}
SPECIFICATION MCSpec
CHECK_DEADLOCK FALSE
INVARIANTS InStep ClockStandsForChooser
PROPERTIES ImplementsFixedWindow PlacesAreGivenBack ImplementsIdealClock ThinkTimeEnds
