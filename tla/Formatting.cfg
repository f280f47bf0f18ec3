\* Answers of up to five lines; three messages of three characters.
SPECIFICATION Spec
CONSTANTS
    Lines <- MCLines
    MaxLines = 5
    MaxText = 3
    MaxMessages = 3
    MaxBubble = 7
INVARIANTS
    Sendable
    TextIsWhole
    ImagesInOrder
    FlexShowsAll
\* A reply is built once.
CHECK_DEADLOCK FALSE
