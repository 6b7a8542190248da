SPECIFICATION Spec
CONSTANTS
    Prompts = {number, tone}
    NoPrompt = none
    Mergeable = {tone}
    Silent = {}
    Single = {}
    Few = {}
    FEW = 3
    MAX_AUDIO_BUF_LIST = 2
    RETRIGGER_VOICE = TRUE
    MaxWaiting = 2
INVARIANTS CurrentFits AssertsHold ChoicePlays CallSettles

