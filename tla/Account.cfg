SPECIFICATION FairSpec
CONSTANTS
    MaxClients = 2
    MaxOutstanding = 1
    Menus <- AllClients
    AsksMayFail = TRUE
    MaxEdits = 2
    Writers <- ButFirst
    PushesMayFail = TRUE
    MaxCodes = 2
    SignInMayFail = TRUE
    MayCancel = TRUE
INVARIANTS NoForeignMenu AsksAreHeld NoEditForgotten
PROPERTIES BeginOwnsTheFlow DeferredResumes OverlayNeverHangs
