\* Tasks of two blocks and a variable, of any length, with any joins and any text;
\* directories at most two deep, values one.
CONSTANTS
    W = W
    NoName = NoName
    Unset = Unset
    Unknown = Unknown
    Name = {W}
    Word <- AllWords
    Up = ".."
    TaskCwd <- Root
    Start <- Root
    ProcessCwd <- HomeDir
    Home <- HomeDir
    Present <- Dirs
    Policies <- OnePolicy
    Hosts <- AllHosts
    Texts <- AllTexts
    Joins = {"seq", "and", "or"}
    MaxBlocks = 2
    MaxDepth = 2
    MaxValue = 1
\* A task has been judged.
CHECK_DEADLOCK FALSE
SPECIFICATION Spec
INVARIANTS
    NoHalfSwitch
    RefusalDeserved
    FindingsAreExcused
