CONSTANTS
    MaxNumber = 2
    Texts <- SomeTexts
    Malformed = Malformed
    Images = {i1, i2, i3}
    NoImage = NoImage
    Ports = {p0}
    EmptyPorts = p0
    NoPorts = NoPorts
    NoVersion = NoVersion
    NoCall = NoCall
SPECIFICATION Spec
SYMMETRY ImageSymmetry
INVARIANTS
    Ascending
    NewestFound
PROPERTIES
    ImplementsCatalog
