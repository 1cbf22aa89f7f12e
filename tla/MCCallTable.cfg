SPECIFICATION Spec
CONSTANTS
    SlotSpan = 3
    GenSpan = 2
    StreamWakers = 1
    StreamNos = {0, 1}
    Tasks = {t1, t2}
    Outcomes = {"Ok", "Err"}
    NoWaker = NoWaker
    NoOutcome = NoOutcome
    OutcomeKey = OutcomeKey
    N = 2
    Reservations = {0, 1, 2}
    Budgets = {2, NoBudget}
    NoBudget = NoBudget
    BudgetMax = 2
    MaxLives = 2
INVARIANTS BudgetConserved NoLostWaker ForgottenStaysForgotten
PROPERTIES PortSpec NeverReissued
CHECK_DEADLOCK FALSE
