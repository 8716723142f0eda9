SPECIFICATION Spec
INVARIANTS ReadsWhatArrived FieldsTile ForwardedOnceInOrder
CONSTANTS
    Headers <- SomeHeaders
    Datagrams <- SomeDatagrams
    Events <- SomeEvents
    Forward = {"ok"}
