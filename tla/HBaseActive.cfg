SPECIFICATION Spec
CONSTANTS
    h1 = h1
    h2 = h2
    h3 = h3
    Hosts <- MCHosts
    None = None
SYMMETRY MCSymmetry
PROPERTIES
    OnlyOnActiveMaster
