SPECIFICATION FairSpec
CONSTANTS
  Request = {r1, r2}
  User = {alice}
  Password = {p1, p2, p3}
  Cipher = {c1, c2}
  p1 = p1
  p2 = p2
  p3 = p3
  c1 = c1
  c2 = c2
  Enc <- ShortCrypt
  Garbage = Garbage
  Seconds = 2
  Faults = {"mysql"}
  None = None
INVARIANTS SignupOwnsName SigninVerdict ContextAlive KnownUserSafe TokenKnown
PROPERTY RequestsEnd
