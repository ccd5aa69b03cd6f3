SPECIFICATION Spec
CONSTANTS
    k1 = k1
    k2 = k2
    a1 = a1
    a2 = a2
    b1 = b1
    A = A
    B = B
    Desktops = {k1, k2}
    Links = {a1, a2, b1}
    Phones = {A, B}
    PhoneOf <- TwoPhones
    Nobody = Nobody
    NoEntry = NoEntry
SYMMETRY SocketSymmetry
INVARIANTS
    TypeOK
    SlotIsTheSession
    OneLivePhone
    CorpsesExpire
    PresenceExact
CHECK_DEADLOCK FALSE
