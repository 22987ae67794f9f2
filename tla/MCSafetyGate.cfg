SPECIFICATION Spec
CONSTANTS
    Order <- MCOrder
    Questions <- MCQuestions
    Needs <- MCNeeds
    Wants <- MCWants
    Follows <- MCFollows
    PerLayer = 2
    Total = 3
    MaxLate = 1
    None = None
\* The run ends when the result is out.
CHECK_DEADLOCK FALSE
INVARIANTS
    BuyableIsEarned
    EveryLayerAccountedFor
    GateWithinBudget
PROPERTIES
    GateAnswers
