\* Three requests at a time, for two plugins that load, one that does not want to
\* and one that cannot be loaded, by full and shortened names.
CONSTANTS
    FullNames = {"recorder", "replay", "shy", "broken"}
    Names <- MCNames
    Matches <- MCMatches
    Broken = {"broken"}
    Unwilling = {"shy"}
    MaxRequests = 3
SPECIFICATION Spec
INVARIANTS TypeOK ListComesTrue
