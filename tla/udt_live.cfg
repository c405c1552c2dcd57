CONSTANTS
  m_iMaxSeqNo = 15
  ISN = 0
  NBlocks = 2
  SndBufSize = 2
  RcvBufSize = 3
  FlightFlag = 3
  PeerWindow = 3
  MaxInNet = 2
  Conditions = {}
SPECIFICATION FairSpec
PROPERTY AllDelivered
