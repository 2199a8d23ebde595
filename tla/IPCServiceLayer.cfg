SPECIFICATION FairSpec
CONSTANTS
    MaxLayers = 3
    MaxInbox = 1
    Settings <- SoundSettings

    
    
PROPERTIES
    EveryLayerIsServed
