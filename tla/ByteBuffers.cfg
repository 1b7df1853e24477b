\* Two buffers, constructed empty or with two bytes, grown up to MaxCapacity.
SPECIFICATION BuffersSpec
CONSTANTS
    Byte = {0, 1}
    Zero = 0
    Names = {write, writing}
    Payloads <- MCPayloads
    InitSizes = {0, 2}
    MaxCapacity = 4
SYMMETRY Interchangeable
INVARIANT BuffersInBounds
PROPERTY ImplementsQueues
