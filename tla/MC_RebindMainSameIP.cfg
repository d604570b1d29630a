\* Two Ethernet adapters with the same IPv4 address.
CONSTANTS
    a1 = a1
    a2 = a2
    a3 = a3
    Adapters <- MCAdapters
    NoAdapter = NoAdapter
    AdapterInfo <- MCAdapterInfoSameIP
    NdisList <- MCNdisList
    ZeroMAC = ZeroMAC
    Inputs = {1, 2, 3}
    Names <- MCNames
    SizeWidth = 16
SPECIFICATION Spec
CHECK_DEADLOCK FALSE
INVARIANT BindingAddressesDistinct
