CONSTANTS
  s1 = s1
  s2 = s2
  p1 = p1
  p2 = p2
  p3 = p3
  Sock = {s1}
  Pack = {p1, p2}
  Dest <- SameSock
  Chunks <- AllShort
  m_nSockThread = 2
  m_maxWsaSend = 2
  Faults = {"fin", "reset", "timeout", "short", "post", "fatal"}
  None = None
SPECIFICATION Spec
INVARIANTS TypeOK CheckEntryHeld SentOnce
