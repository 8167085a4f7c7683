SPECIFICATION ReportSpec
CONSTANTS
  Day = 4
  MonthOf <- MCMonthOf
  MaxRangeDays = 8
  WeekFrom = 7
  MonthFrom = 8
  Recent = 1
  Space = {w1, w2}
  Ours = w1
  Person = {p1}
  Questions <- MCQuestions
  r1 = r1
  r2 = r2
  Request = {r1, r2}
  Limit = 1
  Ttl = 2
  MaxEntries = 1
  MaxTime = 1
  MaxRecords = 1
SYMMETRY MCSymmetry
INVARIANTS
  AnswersTheQuestion
  ShownIsChosen
  FiguresAddUp
