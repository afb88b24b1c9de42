\* The rule table built from every trace of up to two lines.
CONSTANTS
    Relation = {"cc_flags", "cc_link"}
    Target = {"t1", "t2"}
    Token <- MC_Token
    Item = {"a", "b"}
    Unquote <- MC_Unquote
    MaxItems = 3
    MaxLines = 2
SPECIFICATION Spec
\* The run stops once the input is over.
CHECK_DEADLOCK FALSE
INVARIANTS
    TypeOK
    RulesFromLastLine
    ItemsAtFirstOccurrence
