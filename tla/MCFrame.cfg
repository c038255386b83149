SPECIFICATION Spec
CONSTANTS
  Messages <- MCMessages
  Fragile <- MCFragile
  Seqs = {255}
  Bits <- MCBits
INVARIANTS
  TypeOK
  LanguagesAgree
  RoundTrip
  DamageIsRefused
CHECK_DEADLOCK FALSE
