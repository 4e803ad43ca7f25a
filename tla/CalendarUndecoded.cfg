CONSTANTS
    a = a
    b = b
    c = c
    v = v
    w = w
    NoId = NoId
    Malformed = Malformed
    NotAList = NotAList
    NoPage = NoPage
    Ids = {a, b, c}
    Contents = {v, w}
    Pages <- SmallPages
    MaxPages = 3
    MaxEvents = 2
    MaxFieldChars = 1
    MaxBytes = 4
    Margin = 2
    Timeout = 1
    Lifetimes = {3, 5}
SPECIFICATION GatewaySpec
INVARIANT
    WindowWasServed
