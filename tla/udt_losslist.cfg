CONSTANTS
  m_iMaxSeqNo = 15
  m_iSize = 6
  Window = 6
  ISN = 0
SPECIFICATION Spec
INVARIANTS ListWellFormed ListIsSet
