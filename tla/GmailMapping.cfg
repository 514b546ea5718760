CHECK_DEADLOCK FALSE
SPECIFICATION Spec
CONSTANTS
    MaxParts = 5
    Trees <- SmallTrees
    Parts <- MailParts
    None = None
INVARIANTS
    TypeOK
    BodyIsLastText
    FilesInOrder
