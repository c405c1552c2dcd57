CONSTANTS
  s1 = s1
  s2 = s2
  p1 = p1
  p2 = p2
  p3 = p3
  Sock = {s1, s2}
  Pack = {p1, p2, p3}
  Dest <- TwoSocks
  Chunks <- LongFirst
  m_nSockThread = 2
  m_maxWsaSend = 2
  Faults = {}
  None = None
SPECIFICATION AskedSpec
INVARIANTS OneSend SendCountExact ReplyConserved NoneForgotten
