\* Requests that load the same key Secret for the manifest and for its images.
SPECIFICATION Spec
CONSTANTS
    Handlers = {h1, h2}
    ManifestKeys <- OneKey
    ImageKeys <- OneKey
    Size <- Sizes
SYMMETRY Symmetry
INVARIANTS
    TypeOK
    StalenessBounded
    AloneIsExact
