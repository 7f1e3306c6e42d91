SPECIFICATION MCSpec
CONSTANTS
    Questions <- MCQuestions
    Literals <- MCLiterals
    CodeUnit <- MCCodeUnit
    Upper <- MCUpper
    Numerals <- MCNumerals
    MaxNodes = 8
    MaxNesting = 2
    IsExpression <- MCIsExpression
    Lower <- MCLower
    AllowedElements <- MCAllowedElements
    StrippedElements <- MCStrippedElements
    UnwrappedElements <- MCUnwrappedElements
    SvgTextElements <- MCSvgTextElements
    VoidElements <- MCVoidElements
    RawTextElements <- MCRawTextElements
    CustomElementNames <- MCCustomElementNames
    AllowedAttributes <- MCAllowedAttributes
    SvgTextAttributes <- MCSvgTextAttributes
    MetadataNames <- MCMetadataNames
    EventNames <- MCEventNames
    ForbiddenNames <- MCForbiddenNames
    MalformedNames <- MCMalformedNames
    Scheme <- MCScheme
    SafeImages <- MCSafeImages
    Trimmed <- MCTrimmed
    StyleTokens <- MCStyleTokens
    HtmlTokens <- MCHtmlTokens
    HtmlCleaned <- MCHtmlCleaned
    Templates <- MCTemplates
    Data <- MCData
    Declared <- MCDeclared
    Pascal <- MCPascal
    Profile <- MCProfile
    MaxCopies = 3
    MaxRenders = 3
    MAX_CROSSING_DEPTH = 6
    NATIVE_STRINGIFY_DEPTH = 4
    UNTRACKED_CONTAINERS = 2
    MAX_JSON_DEPTH = 3
INVARIANTS
    RepeatsAddressTree StaticReadingHolds ReadsBack SanitizedHolds
    ValuesCross SurfaceTold RealmsApart
CHECK_DEADLOCK FALSE
