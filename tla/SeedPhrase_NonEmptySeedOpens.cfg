SPECIFICATION PhraseSpec
CONSTANTS
    WordCounts <- SomeCounts
    LexiconSize = 8
    MAX_WORD_REPEATS = 2
    SeedLines <- SomeSeedLines
    PassphraseLines <- SomePassphrases
    Mnemonics = {"mnemonic", "repetitive"}
    Repetitive = {"repetitive"}
INVARIANT NonEmptySeedOpens
CHECK_DEADLOCK FALSE
