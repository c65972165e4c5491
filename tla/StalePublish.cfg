CONSTANTS
    Uri = {u1}
    Text <- OneOfTwo
    Renderable <- OneOfTwo
    Renderer = {r1}
    Job = {j1, j2}
    Worker = {w1}
    Loop = loop
    Empty = empty
    None = None
    Received = {"didOpen", "didChange"}
    MaxEdits = 2
    MaxRequests = 0
    MaxMessages = 2
    Late = {}
SPECIFICATION Safe
SYMMETRY Symmetry
INVARIANTS
    NewestVersionShown
