CONSTANTS
    Authors = {alice, bob, carol}
    Names = {wanted, other}
    Want = wanted
    Times = {1, 2}
    MaxEvents = 3
SPECIFICATION Spec
INVARIANT TypeOK
INVARIANT OwnerCorrect
INVARIANT ClockNeverChooses
INVARIANT OrderIrrelevant
INVARIANT InjectionHarmless
INVARIANT SoleClaimantWins
