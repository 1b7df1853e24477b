\* A buffer that two or three texts fill; the logging thread never ends.
SPECIFICATION TextSpec
CONSTANTS
    BUF_SIZE = 48
    DEPTH = 2
    Prefix = 4
    Lengths = {0, 1, 2, 9, 40}
    Digits = {1, 5}
    MaxOps = 3
    MaxNesting = 3
INVARIANTS
    InContent
    WholeText
