\* An allowlist of patterns only.
CONSTANTS
    a = a
    b = b
    c = c
    front = front
    other = other
    ai = ai
    tel = tel
    Conn = {a, b, c}
    IpOf <- IpOf_Three
    NameOf <- NameOf_Three
    Lists <- Lists_Pats
    Mtimes = {1}
    Fallback <- Fallback_Ai
    Window = 1
    MaxFile = 3
    Keep = 2
    TailLen = 3
    MaxKnown = 2
    None = None
    Torn = Torn
    Junk = Junk
SPECIFICATION SniSpec
INVARIANT FallbackIfUnreadable
