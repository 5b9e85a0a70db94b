\* Four articles, two of them siblings, before and after the upgrade.
CONSTANTS
    Articles <- Four
    Looks <- FourLooks
    Window = 2
SPECIFICATION Spec
INVARIANTS
    TypeOK
    SiblingsToldApart
    SentOnce
    MarkIsNotTaken
    MarkFollowsItsArticle
