CONSTANTS
    Users = {u1}
    NoUser = NoUser
    MaxFailures = 2
SPECIFICATION Spec
PROPERTIES LoginStartsTracking
