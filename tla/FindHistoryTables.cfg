SPECIFICATION Spec
CONSTANTS
  dbo = dbo
  hr = hr
  account = account
  payroll = payroll
  region = region
  lb = lb
  lc = lc
  la = la
  le = le
  lh = lh
  lr = lr
  amount = amount
  salary = salary
  show = show
  y1 = y1
  y2 = y2
  t = t
  blank = blank
  Null = Null
  Word = {amount, salary, show}
  Stop = {show}
  Name = {dbo, hr, account, payroll, region, lb, lc, la, le, lh, lr}
  Letter <- MCLetter
  Second <- MCSecond
  Example = {{account}, {payroll, region}}
  FullTurns = 3
  MaxQueryLength = 13
  Number <- MCNumber
  Text <- MCText
  Blank = blank
  TextRank <- MCRank
  FourDigits <- MCFourDigits
  KpiColumns = 2
  TopRows = 4
  TopItems = 2
  MostFollowups = 4
  PromptRows = 1
  MaxAttempts = 3
  MinWait = 1
  MaxWait = 10
  Questions <- MCQuestions
  Answers <- MCAnswers
  Results <- MCResults
INVARIANTS
  HistoryTablesIncluded
CHECK_DEADLOCK FALSE
