SPECIFICATION FairSpec
CONSTANTS
    Joins <- MCJoins
    ApPass = "right"
    None = None
    Gtks = {"g"}
    WPA_POLLS = 5
    MaxSends = 5
    MaxNonces = 2
INVARIANTS
    JoinIsKeyed
    Msg4EchoesMsg3
PROPERTIES
    LostMsg2IsFinal
    JoinEnds
CHECK_DEADLOCK FALSE
