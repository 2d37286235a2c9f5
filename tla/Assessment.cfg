SPECIFICATION BankSpec
CONSTANTS
    q1 = q1  q2 = q2
    x1 = x1  listening = listening  writing = writing
    Papers = {q1, q2}
    Exams = {x1}
    Skills = {listening, writing}
INVARIANTS
    StorageAgreesWithRows
PROPERTIES
    SamplesAreFinal
CHECK_DEADLOCK FALSE
SYMMETRY Symmetry
