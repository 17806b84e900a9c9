SPECIFICATION Spec
SYMMETRY Symmetry
CONSTANTS
    Editors = {e1, e2}
    Looks = {plain, dark}
    Images = {i1}
    None = none
    FirstLook = plain
    HistoryLimit = 2
    MaxEvents = 3
    MaxCalls = 2
INVARIANTS
    RowsAgree
    LabelIsTrue
PROPERTIES
    OnlyKnownWorkIsReplaced
    KeptImagesAreSpared
