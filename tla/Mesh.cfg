\* Two questions one way, one the other, and a slot on each node.
CONSTANTS
    n1 = n1
    n2 = n2
    q1 = q1
    q2 = q2
    q3 = q3
    Nodes <- MCNodes
    Questions <- MCQuestions
    Asker <- MCAsker
    Owner <- MCOwner
    Slots = 1
    MaxRestarts = 1
SPECIFICATION FairSpec
INVARIANTS CrossesOnceApproved ToldIsTrue
PROPERTY RequestsEnd
\* The system rests when nobody asks any more; RequestsEnd excludes other ends.
CHECK_DEADLOCK FALSE
