SPECIFICATION Spec
CONSTANTS
    Panes <- TwoPanes
    Words = {w1, w2, w3}
    MaxCreates = 3
INVARIANTS OneCopy RetryIsSafe
PROPERTIES NothingDropped
