CONSTANTS
    Uri = {u1}
    Text <- TwoTexts
    Renderable <- OneOfTwo
    Renderer = {r1}
    Job = {j1, j2, j3}
    Worker = {w1, w2}
    Loop = loop
    Empty = empty
    None = None
    Received = {"didOpen", "didChange", "didClose", "executeCommand"}
    MaxEdits = 2
    MaxRequests = 2
    MaxMessages = 3
    Late = {}
SPECIFICATION Safe
SYMMETRY Symmetry
INVARIANTS
    ClosedIsForgotten
    NewestPublishDelivered
    StoredRenderShown
    DeferredShowServed
PROPERTIES
    PublishesInOrder
    BaselineKept
