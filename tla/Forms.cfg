SPECIFICATION FormsSpec
INVARIANTS
    AnswersKept RecipesRight
CHECK_DEADLOCK FALSE
