SPECIFICATION MCSpec
CONSTANTS
  None = None
  n1 = n1  n2 = n2  a = a  b = b  p = p
  Nodes = {n1, n2}  Clients = {a, b, p}  NodeOf <- MCNodeOf  Stay = {p}
  MaxSessions = 2  Handlers = {"mesh", "sfu"}  WritesFail = TRUE
  MaxSN = 7  MaxNackPairSize = 3  MaxBufferTSDelta = 5
  NackStarts = {5}  NackLength = 11  MaxLate = 4
  Receivers = {f1, f2}  Rates = {1, 2, 4}  Second = 2  MaxTime = 5
  Readers = {g1, g2}  MaxPubs = 2
  RtpSeqMod = 16  WordMod = 4096  LostMod = 256  Byte = 16  MaxDropout = 4  MaxMisorder = 3
  Starts = {1, 4, 10, 15}  Length = 24  MaxPackets = 8  MaxReports = 2
  ByteMod = 4  StringMuxByte = 2  MaxLenStreamID = 3  Bases = {2, 3, 10}
INVARIANT LossIsSigned
CHECK_DEADLOCK FALSE
