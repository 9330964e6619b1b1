SPECIFICATION FairSpec
CONSTANT MaxCalls = 7
INVARIANTS AcceptsPrograms RejectsNoProgram StopsAtFirstError PreviousIsName
PROPERTY ReadsOn
