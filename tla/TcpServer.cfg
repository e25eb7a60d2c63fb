SPECIFICATION FairSpec
\* A tablet that connects twice and a phone, with one or two frames on each connection.
CONSTANTS
    a1 = a1
    a2 = a2
    b = b
    tablet = tablet
    phone = phone
    Conns = {a1, a2, b}
    Devices = {tablet, phone}
    NoDevice = NoDevice
    Owner <- MCOwner
    MaxClients = 3
    MaxFrames <- MCMaxFrames
    Sends <- MCSends
INVARIANTS AnswersHold ServedProved OnePerDevice SocketsHeld
PROPERTY LostAreDropped
