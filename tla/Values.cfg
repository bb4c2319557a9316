CONSTANTS
 Parm = {"bmc_host", "pdu_host", "pdu_slot_no", "max_num_tests", "stack_mode"}
 Text = {"", "7", "normal"}
 Integral = {"7"}
 Half = {0, 1, 2, 3}
 Item = {"", "x"}
 Key = {"k1", "k2"}
 Word = {"w1", "w2", "w3"}
 MaxLines = 3
 MaxWidth = 3
 Field = {"f1", "f2"}
 Leaf = {"1", "2"}
 MaxEntries = 2
 Width = 4
 Export = {"", "5", "False"}
 IsInt = {"5"}
 Boot = {"b1"}
 MaxNames = 2
SPECIFICATION MCSpec
INVARIANTS
  AnswersAreTrue
  ChecksAreComplete
  InputsAreJudged
  PartsComeBack
  VariablesAreHeard
CHECK_DEADLOCK FALSE
