SPECIFICATION FairSpec
CONSTANTS
    Prompts = {number, tone}
    NoPrompt = none
    Mergeable = {tone}
    Silent = {number}
    Single = {tone}
    Few = {number}
    FEW = 1
    MAX_AUDIO_BUF_LIST = 4
    RETRIGGER_VOICE = FALSE
    MaxWaiting = 2
INVARIANTS CallHeard PromptWillEnd
PROPERTIES CallHeardAgain
