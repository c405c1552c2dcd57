CONSTANTS
  m_iMaxSeqNo = 15
  ISN = 14
  NBlocks = 3
  SndBufSize = 2
  RcvBufSize = 3
  FlightFlag = 3
  PeerWindow = 3
  MaxInNet = 2
  Conditions = {"load", "linger", "dead"}
SPECIFICATION Spec
INVARIANTS TypeOK AckOrder LossListsFit
PROPERTY StreamSpec
