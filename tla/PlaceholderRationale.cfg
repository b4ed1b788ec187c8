SPECIFICATION DocumentSpec
CONSTANTS
    Drafts <- MCDrafts
    Additions <- MCAdditions
    Projects <- MCProjects
    MaxAdded <- MCMaxAdded
INVARIANT PlaceholderRationaleFails
CHECK_DEADLOCK FALSE
