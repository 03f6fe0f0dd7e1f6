SPECIFICATION FairSpec
CONSTANTS
  l1 = l1
  l2 = l2
  Lines = {l1, l2}
  LinesOf <- MCLinesOf
  Data = {d1}
  Miss = miss
INVARIANTS TypeOK AnswersTheRequest NoStrayAnswer CpuNotForgotten
PROPERTIES Implements CpuAnswered
