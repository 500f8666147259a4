\* Enrollment, revocation and replay under late, repeated, overlapping calls.
SPECIFICATION Spec
CONSTANTS
  d1 = d1 d2 = d2 d3 = d3 k1 = k1 k2 = k2 service = service
  n1 = n1 n2 = n2 c1 = c1 c2 = c2
  Devices <- McDevices
  Tokens <- McTokens
  Service = service
  Holds <- McHolds
  Enrolls <- McEnrolls
  Signers <- McSigners
  Nonces <- McNonces
  Calls <- McCalls
  MaxPerMinute = 1
  Minute = 2
  Tolerance = 1
  NonceTtl = 3
  MaxDelay = 1
  MaxSkew = 1
  MaxNow = 4
SYMMETRY Symmetric
INVARIANTS
  TypeOK
  AppliedOnce
  RevokedNeverApplied
  RegistrationBounded
