SPECIFICATION Spec
CONSTANTS
    Throttle = 1
    MaxTime = 1
    main = main
    side = side
    ann = ann
    bob = bob
    eve = eve
CONSTANTS
    Contests <- TwoContests
    Clients <- ThreeClients
    Watches <- TwoWatchMain
    Joined <- Nobody
PROPERTIES
    OthersStay
