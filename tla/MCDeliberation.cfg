SPECIFICATION FairSpec
CONSTANTS
    Tools <- MCTools
    Answers <- MCAnswers
    Refusals <- MCRefusals
    Budgets <- MCBudgets
    TokenBound <- MCTokenBound
INVARIANTS
    OneChoicePerTurn
    SafeMeansUnsent
    SpendingWithinAggregate
PROPERTIES
    CancelLands
CHECK_DEADLOCK FALSE
