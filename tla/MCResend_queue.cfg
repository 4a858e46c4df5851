SPECIFICATION FairSpec
CONSTANTS
  d1 = d1
  i1 = i1
  i2 = i2
  ida = ida
  Dests = {d1}
  Ids = {ida}
  NoId = NoId
  Ifaces = {i1, i2}
  NoIf = NoIf
  NoRoute = NoRoute
  NoSource = NoSource
  Refused = {}
  SeqMod = 4
  resend_delay = 1
  DelayMax = 3
  CharMod = 256
  REQUEST_TIMEOUT = 3
  RESEND_MAX = 2
  Recent = 1
  Lag = 1
  Asked <- Requests
  Found <- Routes
  BuffersMayFill = FALSE
INVARIANTS
  UpdateArmed
  Backoff
  AnswerUnderWay
PROPERTY
  EntriesLeave
