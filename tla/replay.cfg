SPECIFICATION FairSpec
CONSTANTS
    n1 = n1
    n2 = n2
    c1 = c1
    c2 = c2
    c3 = c3
    END = END
    Asked = Asked
    Blank = Blank
    Nodes = {n1, n2}
    Entry = n1
    Contents = {c1, c2, c3}
    StopContents = {c3}
    Route <- MCRoute
    MaxIterations = 4
    PauseSets = {{}, {n2}, {n1, n2}}
CHECK_DEADLOCK FALSE
 
 
 
PROPERTY StreamsEnd
