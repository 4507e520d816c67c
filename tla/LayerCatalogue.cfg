CONSTANTS
    Days <- DaysAround
    Hazards = {"none", "tornado", "hail", "wind", "severe", "any"}
SPECIFICATION Requesting
INVARIANTS
    LayersAreNotShared
    SourcesAgree
