SPECIFICATION FairSpec
CONSTANT p1 = p1
CONSTANT p2 = p2
CONSTANT s1 = s1
CONSTANT s2 = s2
CONSTANT j1 = j1
CONSTANT j2 = j2
CONSTANT NoPhoto = NoPhoto
CONSTANT Photos = {p1, p2}
CONSTANT Imported = {p2}
CONSTANT Seeders = {s1, s2}
CONSTANT Jobs = {j1, j2}
CONSTANT MaxFaults = 1
CONSTANT MaxAsks = 1
INVARIANT FilesMatchRows
INVARIANT NothingStranded
INVARIANT OneOpenJob
INVARIANT UnseenOnlyIfLate
PROPERTY PhotosAreAnalyzed
CHECK_DEADLOCK FALSE
