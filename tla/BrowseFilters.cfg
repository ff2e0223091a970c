CONSTANTS
    None = None
    Text = {"", "orc"}
    Kind = {"magic", "mundane"}
    Bound = {1, 2}
    Rarity = {"rare"}
    RarityCapable = {"magic"}
    CatalogPage = {"monsters", "items"}
    MaxMoves = 3
SPECIFICATION Spec
INVARIANTS TypeOK BoxWritesWhatItShows
PROPERTIES RenderedFiltersSurvive ChoicesFit Settles
CHECK_DEADLOCK FALSE
