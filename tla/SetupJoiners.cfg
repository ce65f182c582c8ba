\* Two joiners hold the invitation; two stops anywhere; the final message may come
\* in time or too late.
SPECIFICATION Spec
CONSTANTS
    Creator = creator
    Joiners = {joiner1, joiner2}
    Timeout = 1
    Margin = 1
    SkewAllowed = 0
    Skews = {0}
    MaxClock = 1
    MaxStops = 2
SYMMETRY Symmetry
INVARIANTS
    OneCarrierPerMessage
    HonestTrafficIsAdmitted
    OneJoinerProceeds
PROPERTIES
    OffersOneContract
