\* A dashboard asks for the stream.
SPECIFICATION Spec
CONSTANTS
    c1 = c1
    Clients = {c1}
    Buffer = 1
    MaxEvents = 1
INVARIANT StreamServed
