SPECIFICATION FairSpec
CONSTANTS
    t1 = t1
    t2 = t2
    c1 = c1
    Tasks = {t1, t2}
    Request <- MCRequest
    Dirs = {"in"}
    Root = "in"
    Texts = {"film", "news", Blank}
    Blank = Blank
    NoText = NoText
    Stems = {"film", "film+", "film_temp", "news"}
    Temporary = {"film_temp"}
    Extends <- MCExtends
    Exts = {"ts", "mp4"}
    Video = {"ts", "mp4"}
    NoExt = NoExt
    Cleaned <- MCCleaned
    ConfigMode = "post"
    OutputFormat = "mp4"
    DeleteOriginal = TRUE
    Cleaners = {c1}
    Periods = {1}
    Dates = {2}
    MaxFaults = 1
    NoPath = NoPath
    NoFile = NoFile
    NoRow = NoRow
INVARIANTS RecordingsKept CompletedPathsLead
PROPERTY ExpiredRowsGo
CONSTRAINT NewsLater
CHECK_DEADLOCK FALSE
