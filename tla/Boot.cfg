SPECIFICATION Spec
CONSTANTS
    v1 = v1
    v2 = v2
    k1 = k1
    k2 = k2
    Values = {v1, v2}
    None = None
    Bad = Bad
    Keys = {k1, k2}
    FlagKeys = {k1}
    KvMayFail = FALSE
    MaxChanges = 2
    MaxBoots = 3
INVARIANTS LegacyOnce FollowsUndisturbed KeysAgree
PROPERTIES PanelRespected
CHECK_DEADLOCK FALSE
