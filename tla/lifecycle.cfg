\* A listening socket, two connections and one number to fight for.
SPECIFICATION Spec
CONSTANTS
    Clients = {c1, c2, c3}
    Browsers = {b1}
    Workers = {w1}
    Fds = {3, 4, 5, 6}
    Listener = listener
    Reserved = reserved
    Free = free
    NoFd = nofd
INVARIANT OwnDescriptor
PROPERTIES
    
    StopEnds
\* The destructor may have returned.
CHECK_DEADLOCK FALSE
