SPECIFICATION FairSpec
CONSTANTS
    Requests = {"q1"}
    Hours = {1}
    MaxHour = 2
    MaxRequests = 1
    MaxMishaps = 1
PROPERTIES
    AutoOffIsEarned
    Settles
