SPECIFICATION Spec
CONSTANTS
  KeySize = 2
  CertSize = 1
  TagLen = 1
  HeaderSize = 1
  MaxChunk = 3
  LenModulus = 4
  RecvSize = 3
  Certificates <- MCCertificates
  Now = 1
  Lengths = {0, 3}
  MaxSent = 2
  MaxCorrupt = 1
INVARIANT MaxReadIsNatural
INVARIANT RefusedForCause
INVARIANT NoMessageIsStuck
PROPERTY IsSecureChannel
CHECK_DEADLOCK FALSE
