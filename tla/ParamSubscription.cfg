SPECIFICATION FairSpec
CONSTANTS
    Natives = {n1, n2}
    Closers = {c1, c2}
    Subscriber = subscriber
    Dispatcher = dispatcher
    None = None
    Bindings = {"cpp", "python"}
    MaxSamples = 3
PROPERTIES
    DeliversSerially
    PythonIsQuiet
    SubscriptionCallsReturn
CHECK_DEADLOCK FALSE
