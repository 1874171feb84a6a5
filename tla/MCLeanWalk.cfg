SPECIFICATION Spec
CONSTANT MAX_BUILD_ATTEMPTS = 3
INVARIANTS LandOnlyOverCertifiedHead BuildRoundsBounded WalkBounded
PROPERTIES KeepsContract
CHECK_DEADLOCK FALSE
