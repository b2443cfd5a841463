SPECIFICATION ReadsSpec
CONSTANTS
    Keys <- MCKeys
    Under <- MCUnder
    Searched <- MCSearched
    Bodies <- MCBodies
    PageSizes = {1, 2}
    MaxWrites = 2
    Target = 1
    Scenes <- MCScenes
INVARIANTS
    ListingsTrue
    DownloadWhole
    CacheCurrent
PROPERTIES
    Ends
CHECK_DEADLOCK FALSE
