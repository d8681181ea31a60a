SPECIFICATION Spec
CONSTANTS
    Paths = {p1, p2}
    Registrars = {job, other}
    Job = job
    Gets = {g1}
    MaxSize = 2
    MaxChanges = 1
    U32 = 32
    I32 = 16
    Medias <- MCMedias
    ReceiverJsons <- MCReceiverJsons
    MediaJsons <- MCMediaJsons
INVARIANTS TypeOK UrlNamesItsFile AnswerIsWhatWasAsked LaunchedAppIsUsable LoadedIsReported
CHECK_DEADLOCK FALSE
