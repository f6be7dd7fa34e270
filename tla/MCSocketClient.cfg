CONSTANTS
    send = send
    react = react
    Presses = {send, react}
    MaxProcs = 2
SPECIFICATION SocketSpec
INVARIANTS NothingOrphaned NeverSilent TheFileHeals
PROPERTIES ImplementsCalls EveryPressSettles
CHECK_DEADLOCK FALSE
