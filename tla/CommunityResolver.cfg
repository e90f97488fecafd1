SPECIFICATION Spec
CONSTANTS
    c1 = c1
    c2 = c2
    here = here
    across = across
    far = far
    nat = nat
    Null = Null
    CommunityIds = {1, 2, 3}
    Cities = {c1, c2}
    Places = {here, across, far}
    Natives = {nat}
    Texts <- MCTexts
    Normal <- MCNormal
    Near <- MCNear
    Registered <- MCRegistered
    Requests <- MCRequests
INVARIANTS
    ResolvedWithinCity
    FoundByPresentName
    NoContradictedWinner
    AgreementNeverSwitches
PROPERTIES
    ConfirmedNeverSwitches
