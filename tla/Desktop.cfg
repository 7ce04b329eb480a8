\* The three windows and every dialog; the user acts at most six times.
SPECIFICATION Spec
CONSTANTS
    NumWindows = 3
    Downloads = 2
    MaxBrowses = 2
    MaxInputs = 6
INVARIANTS ShownAsMeant ActiveInFront UsableDialogs EveryQuestionIsOpen
    OnlyAHiddenQuestionIsConfirmedUnseen ChoicesAreOfTheirBrowse
CHECK_DEADLOCK FALSE
