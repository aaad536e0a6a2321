SPECIFICATION Spec
CONSTANTS
    Actors = {a1, a2}
    Emails = {e1, e2}
    Allowed = {e1}
    NameOf <- Team
    Roles = {"owner", "viewer"}
    Nobody = Nobody
    MaxAsked = 1
    MaxInvites = 2
SYMMETRY Interchangeable
INVARIANTS
    MembershipsAreInvites
    DecisionStands
    InvitesAreSent
CHECK_DEADLOCK FALSE
