CONSTANTS
    Sender = {daily, buscar, bot, validator}
    Runner = {daily, buscar}
    MinDelay = 2
    NoOne = NoOne
SPECIFICATION FairSpec
PROPERTIES CardsSpaced KeepsAlert SendEnds
