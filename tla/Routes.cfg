CONSTANTS
    delete_note = delete_note
    remove_note = remove_note
    delete_delete_note = delete_delete_note
    note = note
    Tools = {delete_note, remove_note, delete_delete_note}
    Candidate <- MCCandidate
    Listings <- MCListings
    Configs <- MCConfigs
    Handlers = {h1}
    NoConfig = NoConfig
SPECIFICATION Spec
PROPERTIES
    FirstMapServes
    NoTakeover
    LoosenedOnlyUnmarked
SYMMETRY MCSymmetry
