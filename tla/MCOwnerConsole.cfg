SPECIFICATION BridgeSpec
CONSTANTS
    Broadcasts = {s1, s2}
    Scenes <- MCScenes
PROPERTIES OwnerCatchesUp ActionsConclude
CHECK_DEADLOCK FALSE
