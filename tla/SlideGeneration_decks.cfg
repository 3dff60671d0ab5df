\* Every body at and around the limits, with every slide of up to two blocks in the answers.
SPECIFICATION Spec
CONSTANTS
    dark1 = dark1
    dark2 = dark2
    dark3 = dark3
    light1 = light1
    light2 = light2
    custom = custom
    NoNumber = NoNumber
    NoSlides = NoSlides
    NoTemplate = NoTemplate
    NoTheme = NoTheme
    NoIndex = NoIndex
    NoLayout = NoLayout
    Bodies <- MCBodies
    Answers <- MCAnswers
    Families <- MCFamilies
    Themes <- MCThemes
    DefaultTheme = light1
    Layouts <- OwnLayouts
    LimitOf <- MCLimitOf
INVARIANTS
    TypeOK
    CappedWithoutTemplate
    TemplateFollowed
    OneFamily
    LayoutHasContent
