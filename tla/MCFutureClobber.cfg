CONSTANTS
    Futures = {f1, f2}
    Main = main
    Workers = {w1}
    Callbacks = {c1}
    Waiting = {c1}
    NoFuture = NoFuture
    NoCallback = NoCallback
CHECK_DEADLOCK FALSE
SPECIFICATION Spec
INVARIANT WakeIsOnTheWay
