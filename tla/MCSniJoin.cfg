\* Two connections share an address; a rotation keeps two lines.
CONSTANTS
    a = a
    b = b
    c = c
    front = front
    other = other
    ai = ai
    tel = tel
    Conn = {a, b, c}
    IpOf <- IpOf_Three
    NameOf <- NameOf_Three
    Lists <- Lists_Three
    Mtimes = {1, 2}
    Fallback <- Fallback_Ai
    Window = 2
    MaxFile = 3
    Keep = 2
    TailLen = 3
    MaxKnown = 3
    None = None
    Torn = Torn
    Junk = Junk
SPECIFICATION SniSpec
INVARIANTS NameIsTrue NewestNameUsed ExclusionIsListed
