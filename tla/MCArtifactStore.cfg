CONSTANTS
    blob = blob
    manifest = manifest
    group = group
    whole = whole
    top = top
    Object = {blob, manifest, group}
    Kids <- MCKids
    Group = {group}
    Root = {group}
    Batch = {whole, top}
    Contents <- MCContents
    Writers = {1}
    None = None
    MaxIncoming = 1
SPECIFICATION Spec
INVARIANTS
    PresentIsDurable
    ClaimsAreOwned
    ClosedUnlessTorn
    CommittedIsPresent
PROPERTIES
    KeptSurvives
