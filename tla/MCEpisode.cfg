SPECIFICATION Spec
CONSTANTS
    Segments = 2
    Routes = {r1, r2}
    SegmentWorkers = 2
    TargetWords = 2
    MaxWindow = 2
    MaxDepth = 1
    MaxMishaps = 2
    Clips = {"a1", "a2"}
    EpisodeOf <- MCEpisodeOf
    Cuts = {"x", "y"}
    Jobs = {j1, j2}
    DiarizedEpisodes = {"e1", "e2"}
    Diarizations <- MCDiarizations
    Norm = 13
    MaxRuns = 3
    MinSeg = 2
    MaxSeg = 9
    Gap = 1
    Snap = 1
    Latin = 10
    SoundAlike = {{2, 12}}
    MaxMerge = 3
    IouPercent = 45
    r1 = r1
    r2 = r2
    j1 = j1
    j2 = j2
SYMMETRY MCSymmetry
INVARIANT KeptIsOnRecord
INVARIANT EveryAnswerOnRecord
INVARIANT BoughtOnce
INVARIANT FusedFromCurrent
INVARIANT ScramStopsSpending
INVARIANT EachClipSettlesOnce
INVARIANT ObjectMatchesRow
INVARIANT ClipIsPlayable
INVARIANT SpeakersKeptApart
INVARIANT EveryPlanIsSound
INVARIANT EveryCutIsSound
INVARIANT EveryFoldedCountIsLeast
INVARIANT EveryScanReachesAll
PROPERTY LinkingIsSound
