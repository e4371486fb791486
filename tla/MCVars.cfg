CONSTANTS
    Names = {"x"}
    Vals = {"v1", "v2"}
    Opts = {"o1", "o2"}
    NoVal = NoVal
    NoEq = NoEq
    Absent = Absent
    InitVal <- MCInitVal
    Heap = {h1, h2, h3, h4}
    NoAddr = NoAddr
    MaxLocals = 1
    MaxLvps = 3
    MaxDepth = 2
    FuncIds = {f1, f2}
    NoFunc = NoFunc
SYMMETRY MCSymmetry
VIEW MCView
SPECIFICATION Spec
INVARIANTS
    TypeOK
    HeapOwned
    FuncnodeRefcount
    FramesMatchCalls
PROPERTIES
    VarScopesRefined
