SPECIFICATION OpsSpec
CONSTANTS
    Requests = {"q1"}
    Hours = {1}
    MaxHour = 2
    MaxRequests = 1
    MaxMishaps = 1
PROPERTY ChoiceRecorded
