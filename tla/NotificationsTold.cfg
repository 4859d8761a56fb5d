CONSTANTS
    q1 = q1
    q2 = q2
    s1 = s1
    s2 = s2
    s3 = s3
    Topic = {q1, q2}
    Kinds <- MCKinds
    ChannelSize = 2
    MaxChanges = 2
    Sub = {s1, s2, s3}
    Topics <- MCTopics
    Apart = {s3}
    MaxNames = 2
    MaxFailures = 1
SPECIFICATION FairSpec
CHECK_DEADLOCK FALSE
INVARIANT EverySubscriberCounted
PROPERTY PaidIsTold
