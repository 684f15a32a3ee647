SPECIFICATION Spec
CONSTANTS
    Groups = {{5}}
    MaxPid = 7
    Depth = 2
    Wrap = 2
    Rounds = 2
    MaxSocks = 5
    UdpSlots = 3
    LoopSlots = 16
    Addresses = {1}
PROPERTIES NeverSpins
