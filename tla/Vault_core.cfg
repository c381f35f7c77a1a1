SPECIFICATION FairSpec
CONSTANTS
  Client = {c1, c2}
  Main = main
  Provider = {p1, p2}
  Key = {k1, k2}
  NoKey = nokey
  Passphrase = {w0, w1}
  NoPass = nopass
  EmptyPass = w0
  NoThread = nothread
INVARIANTS
  TypeOK
PROPERTIES
  VaultIsKept
  IsAtomicKeyMap
  LockIsReleased
