SPECIFICATION Spec
CONSTANTS
    Groups = {g1, g2}
    FileNames <- MCFileNames
    FolderNames <- MCFolderNames
    Contents = {c1, c2}
    NoUid = NoUid
    Folder = Folder
    MaxLines = 3
    MaxLost = 1
SYMMETRY Symmetry
INVARIANTS TypeOK WhereRecorded UploadServed
PROPERTY OnlyMatchedLost
CHECK_DEADLOCK FALSE
