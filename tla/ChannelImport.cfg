SPECIFICATION Spec
CONSTANTS
    i1 = i1
    i2 = i2
    i3 = i3
    h1 = h1
    h2 = h2
    Urls = {"u1", "u2", "lo", "file"}
    Fetchable = {"u1", "u2", "lo"}
    Names = {"n1", "n2"}
    Groups = {"g1"}
    Absent = Absent
    Ids = {i1, i2, i3}
    Refused = {"lo"}
    Submitted <- MCSubmitted
    Playlists <- MCPlaylists
    Importers = {h1, h2}
    ChunkSize = 2
    NoRow = NoRow
    NoId = NoId
    NoOne = NoOne
    NoPlaylist = NoPlaylist
INVARIANTS ImportInv ParsedAsWritten
PROPERTIES ImportedAreStored ImplementsTable
SYMMETRY Symmetry
CHECK_DEADLOCK FALSE
