CONSTANTS
    Slots = {3}
    Names = {"old"}
    Content <- MCContent
    Bytes = {0, 1}
    Typed = {0}
    Modes <- MCModes
    MaxLength = 2
    MaxWant = 2
SPECIFICATION Spec
INVARIANTS TypeOK DescriptorsOwned
PROPERTY ReadsInOrder
CHECK_DEADLOCK FALSE
