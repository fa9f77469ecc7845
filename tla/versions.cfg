SPECIFICATION Spec
CONSTANTS
    i1 = i1
    i2 = i2
    q1 = q1
    q2 = q2
    NoAnswer = NoAnswer
    Items = {i1, i2}
    Queries = {q1}
    Names <- MCNames
    MaxBranches = 2
    MaxVersions = 7
    MaxNames = 2
SYMMETRY MCSymmetry
INVARIANT LineageComplete
 
 
