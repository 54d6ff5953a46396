SPECIFICATION Spec
CONSTANTS
    EntryBits = {1, 16}
    MappedSizes = {4, 8, 12}
    ObjectNames = {x}
    NoName = NoName
    Eeproms <- SmallEeproms
    Mappings <- SmallMappings
INVARIANTS
    ImageCovered
    MembersInPlace
PROPERTY SizeAsDescribed
CHECK_DEADLOCK FALSE
