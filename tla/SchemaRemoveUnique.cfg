SPECIFICATION Spec
CONSTANTS
    Fields <- FewFields
    Removed = Removed
    MaxFailures = 0
INVARIANT RemoveDropsConstraints
