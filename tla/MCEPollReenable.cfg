SPECIFICATION Spec

CONSTANTS
    ch1 = ch1
    ch2 = ch2
    ch3 = ch3
    fd1 = fd1
    fd2 = fd2
    NoChannel = NoChannel
    NoFd = NoFd
    Channels <- MCChannels
    Fds <- MCFds
    kInitEventListSize = 1

SYMMETRY Symmetry

INVARIANT NeverExits
CHECK_DEADLOCK FALSE
