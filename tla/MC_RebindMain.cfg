\* main() over every routable list of up to three adapters, every best
\* adapter and every index typed from 0 to 3 (0 is what a bad input leaves).
CONSTANTS
    a1 = a1
    a2 = a2
    a3 = a3
    Adapters <- MCAdapters
    NoAdapter = NoAdapter
    AdapterInfo <- MCAdapterInfo
    NdisList <- MCNdisList
    ZeroMAC = ZeroMAC
    Inputs = {0, 1, 2, 3}
    Names <- MCNames
    SizeWidth = 16
SPECIFICATION Spec
INVARIANT TypeOK
INVARIANT BindingFromSelection
CHECK_DEADLOCK FALSE
