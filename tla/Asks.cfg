SPECIFICATION Spec
CONSTANTS
    a1 = a1
    a2 = a2
    s1 = s1
    Asks = {a1, a2}
    Sessions = {s1}
    SessionOf <- OneThread
    NoAsk = NoAsk
    Sources = {"fetch", "refresh"}
    MaxStamp = 4
PROPERTIES StaysBusy AnsweredStaysGone DraftIsKept RefreshSettles
CHECK_DEADLOCK FALSE
SYMMETRY Alike
