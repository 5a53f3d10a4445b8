SPECIFICATION Spec
CONSTANTS
    Ids = {e1, e2}
    Ports = {p1, p2}
    Devices = {usb, com, plain}
    Serials = {usb, com}
    ById = {usb}
    Loop2Devices = {com, plain}
    Flows = {f1, f2}
    Nothing = Nothing
SYMMETRY Symmetry
VIEW View
INVARIANTS
    UniqueConsoles
    UniqueLinks
    UidFollowsIdentity
    Loop2Answered
PROPERTIES
    KeepsRegistry
