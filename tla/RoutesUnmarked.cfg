CONSTANTS
    delete_note = delete_note
    remove_note = remove_note
    delete_delete_note = delete_delete_note
    note = note
    Tools = {delete_note, remove_note, delete_delete_note}
    Candidate <- MCCandidate
    Listings <- UnmarkedListings
    Configs <- UnmarkedConfigs
    Handlers = {h1}
    NoConfig = NoConfig
SPECIFICATION Spec
PROPERTY
    NoRugPull
SYMMETRY MCSymmetry
