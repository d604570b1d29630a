\* The user types 0 at the prompt (or anything std::cin cannot parse).
CONSTANTS
    a1 = a1
    a2 = a2
    a3 = a3
    Adapters <- MCAdapters
    NoAdapter = NoAdapter
    AdapterInfo <- MCAdapterInfo
    NdisList <- MCNdisList
    ZeroMAC = ZeroMAC
    Inputs = {0, 1, 2, 3}
    Names <- MCNames
    SizeWidth = 16
SPECIFICATION Spec
CHECK_DEADLOCK FALSE
INVARIANT SelectionInBounds
