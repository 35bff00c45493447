SPECIFICATION Spec
CONSTANTS
    Content <- Chain
    Matchkey <- Keys
    Streamed <- Names
    Score <- Alike
    MaxSize = 2
    StartRows = 2
    MaxRows = 4
    MaxEdits = 2
INVARIANTS OneClusterEach ClustersConnected StreamFollowsLinks
PROPERTIES IdsStayInTheFamily
CHECK_DEADLOCK FALSE
