SPECIFICATION FairSpec
CONSTANTS
    h1 = h1  h2 = h2  h3 = h3
    m1 = m1  m2 = m2
    NoHost = NoHost  Service = Service
    Hosts <- TwoHosts
    Methods <- TwoMethods
    MaxLives = 2
    MaxFaults = 1
CHECK_DEADLOCK FALSE
INVARIANTS SomeoneSurvives ServesWhatItPublished
PROPERTIES NodesLeadSomewhere SomeoneServes
