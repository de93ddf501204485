SPECIFICATION Spec
CONSTANTS
    gap = 1
    TextHeight = {1, 3}
    OpenHeight = 3
    ViewHeight = {2, 4}
    MouseScrollThreshold = 2
    MaxMessages = 2
INVARIANTS ScrollMovesExactly ClickHitsWhatIsShown ShownIsStored SpinnersTurn
PROPERTIES EndStaysInView
