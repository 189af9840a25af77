SPECIFICATION LibSpec
CONSTANTS
    Base = 8
    MaxLit = 2
    Slots = 8
    Unroll = 4
    OneByte = 6
    TwoBytes = 50
    Chunk = 8
    MaxName = 6
    Sector = 2
    Disc <- MCDisc
    RootRecord <- MCRootRecord
    DiscTruth <- MCDiscTruth
    DiscFolders <- MCDiscFolders
    Builds = {TRUE, FALSE}
    Images <- MCImages
    Readable <- MCReadable
    Paths <- MCPaths
    Places <- MCPlaces
    Folders <- MCFolders
    Offsets = {0, 2, 5}
    Sizes = {2, 9, 15}
    Payloads <- MCWritten
    Filters <- MCFilters
    Counts = {0, 4}
    Starts = {0, 1}
    Packable <- MCBlocks
    Trees <- MCTrees
    Stored <- MCStored
    MaxFile = 5
    MaxChanges = 2
    MaxPath = 8
    Width = 16
INVARIANTS RoundTrip FileTrue NamesTrue
