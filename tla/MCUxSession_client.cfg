SPECIFICATION FairUxSpec
CONSTANTS
    Upcase <- MCUpcase
    Sep <- MCSep
    Dot <- MCDot
    Roots <- MCRoots
    Excludes <- MCExcludes
    Vol <- MCVol
    Dos <- MCDos
    Manifest <- MCManifest
    BackupRoot <- MCBackupRoot
    Colon <- MCColon
    Images <- MCImages
    OwnFiles <- MCOwnFiles
    MaxRoots = 4
    MaxPatterns = 4
    MaxRootChars = 5
    MaxPatternChars = 3
    MaxListed = 1
    MaxHappenings = 5
INVARIANTS
    UxTypeOK
    NothingLeft
    UsesLiveParts
    RootsAgree
    OwnFilesExcluded
    ActiveShown
PROPERTIES
    Settles
CHECK_DEADLOCK FALSE
