CONSTANTS
    Settings = {}
    CustomKeys = {}
    NameOf <- NoNames
    PublishTimeouts = {}
    DelimiterTexts <- ShortTexts
    MaxBuilderCalls = 0
SPECIFICATION RequestSpec
INVARIANTS InvalidDelimiterRefused
CHECK_DEADLOCK FALSE
