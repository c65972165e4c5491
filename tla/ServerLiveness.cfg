CONSTANTS
    Uri = {u1}
    Text <- TwoTexts
    Renderable <- OneOfTwo
    Renderer = {r1}
    Job = {j1, j2}
    Worker = {w1, w2}
    Loop = loop
    Empty = empty
    None = None
    Received = {"didOpen", "didChange", "didClose", "executeCommand", "didChangeWatchedFiles", "didChangeConfig"}
    MaxEdits = 2
    MaxRequests = 1
    MaxMessages = 2
    Late = {"didClose"}
SPECIFICATION Spec
PROPERTIES
    EventuallySettles
    EditsArePublished
