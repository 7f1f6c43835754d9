\* Codes and slugs of sampled ids, with every sentry and three choices of random letters.
SPECIFICATION CodeSpec
CONSTANTS
    GroupIds  <- MCGroupIds
    CouponIds <- MCCouponIds
    Noise     <- MCNoise
    Fillers   <- MCFillers
    Typed     <- MCTyped
INVARIANT RoundTrip
CHECK_DEADLOCK FALSE
