SPECIFICATION Spec
CONSTANTS
    Users = {alice, bob}
    Clients = {"web", "app"}
    BackChannelLogoutURI = {"web"}
    Logins = {1, 2}
    Ends = {1, 2}
    Travel <- MCTravel
SYMMETRY Symmetry
INVARIANTS
    
    LoggedOutIsOver
PROPERTIES
    NoStrayLogout
CHECK_DEADLOCK FALSE
