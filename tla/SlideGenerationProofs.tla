------------------------ MODULE SlideGenerationProofs ------------------------
(***************************************************************************)
(* Proofs about SlideGeneration, for any bodies, answers, palette families *)
(* and limits.                                                             *)
(***************************************************************************)
EXTENDS SlideGeneration, WellFoundedInduction, TLAPS

(* Sequences and numbers *)

\* A function on 1..n is a sequence, also when n is negative: it is empty then.
LEMMA FunctionIsSeq ==
    ASSUME NEW S, NEW n \in Int, NEW f, f \in [1..n -> S]
    PROVE  /\ f \in Seq(S)
           /\ DOMAIN f = 1..n
           /\ Len(f) = IF n > 0 THEN n ELSE 0
<1>1. CASE n >= 0
    BY <1>1
<1>2. CASE n < 0
    <2>1. 1..n = 1..0
        BY <1>2
    <2>2. f \in [1..0 -> S]
        BY <2>1
    <2> QED BY <1>2, <2>1, <2>2
<1> QED BY <1>1, <1>2

\* A nonempty set of natural numbers has a least element ...
LEMMA LeastExists ==
    ASSUME NEW K \in SUBSET Nat, K # {}
    PROVE  \E k \in K : \A j \in K : k <= j
<1> DEFINE R == OpToRel(<, Nat)
<1>1. IsWellFoundedOn(R, Nat)
    BY NatLessThanWellFounded, Zenon
<1>2. PICK x \in K : \A y \in K : ~ (<<y, x>> \in R)
    <2> HIDE DEF R
    <2> QED BY <1>1, WFMin
<1>3. \A y \in K : ~ (y < x)
    BY <1>2 DEF OpToRel
<1> QED BY <1>3

\* ... and one of positions a greatest.
LEMMA GreatestExists ==
    ASSUME NEW n \in Nat, NEW K \in SUBSET (1..n), K # {}
    PROVE  \E k \in K : \A j \in K : j <= k
<1> DEFINE M == {n - k : k \in K}
<1>1. M \in SUBSET Nat /\ M # {}
    <2>1. \A k \in K : n - k \in Nat
        OBVIOUS
    <2>2. M # {}
        OBVIOUS
    <2> QED BY <2>1, <2>2
<1>2. PICK m \in M : \A j \in M : m <= j
    <2> HIDE DEF M
    <2> QED BY <1>1, LeastExists
<1>3. PICK k \in K : m = n - k
    BY <1>2
<1>4. \A j \in K : n - k <= n - j
    BY <1>2, <1>3
<1> QED BY <1>4

(* Operators of the model *)

\* FamilyOf returns a nonempty sequence of themes.
LEMMA FamilyOfType ==
    ASSUME NEW t \in Themes
    PROVE  FamilyOf(t) \in Seq(Themes) /\ Len(FamilyOf(t)) > 0
<1>1. CASE FamiliesWith(t) = {}
    BY <1>1 DEF FamilyOf
<1>2. CASE FamiliesWith(t) # {}
    <2>1. FamiliesWith(t) \in SUBSET Nat
        BY FamiliesAssumption DEF FamiliesWith
    <2>2. PICK m \in FamiliesWith(t) : \A j \in FamiliesWith(t) : m <= j
        BY <1>2, <2>1, LeastExists
    <2> DEFINE c == CHOOSE k \in FamiliesWith(t) : \A j \in FamiliesWith(t) : k <= j
    <2>3. c \in FamiliesWith(t)
        BY <2>2
    <2>4. FamilyOf(t) = Families[c]
        BY <1>2 DEF FamilyOf
    <2>5. Families[c] \in Seq(Themes) /\ \E j \in DOMAIN Families[c] : Families[c][j] = t
        <3> HIDE DEF c
        <3> QED BY <2>3, FamiliesAssumption DEF FamiliesWith
    <2> HIDE DEF c
    <2> QED BY <2>4, <2>5
<1> QED BY <1>1, <1>2

\* Rotate picks a theme of the family.
LEMMA RotateInFamily ==
    ASSUME NEW t \in Themes, NEW i \in Nat
    PROVE  /\ Rotate(t, i) \in Themes
           /\ \E j \in DOMAIN FamilyOf(t) : Rotate(t, i) = FamilyOf(t)[j]
<1> DEFINE f == FamilyOf(t)
<1>1. f \in Seq(Themes) /\ Len(f) \in Nat /\ Len(f) > 0
    BY FamilyOfType
<1> HIDE DEF f
<1>2. (i % Len(f)) + 1 \in 1..Len(f)
    BY <1>1
<1>3. Rotate(t, i) = f[(i % Len(f)) + 1]
    BY DEF Rotate, f
<1>4. (i % Len(f)) + 1 \in DOMAIN f
    BY <1>1, <1>2
<1>5. Rotate(t, i) \in Themes
    BY <1>1, <1>2, <1>3
<1> QED BY <1>3, <1>4, <1>5 DEF f

\* A theme is one of its family.
LEMMA ThemeInFamily ==
    ASSUME NEW t \in Themes
    PROVE  \E j \in DOMAIN FamilyOf(t) : t = FamilyOf(t)[j]
<1>1. CASE FamiliesWith(t) = {}
    <2>1. FamilyOf(t) = <<t>>
        BY <1>1 DEF FamilyOf
    <2>2. 1 \in DOMAIN <<t>> /\ <<t>>[1] = t
        OBVIOUS
    <2> QED BY <2>1, <2>2
<1>2. CASE FamiliesWith(t) # {}
    <2>1. FamiliesWith(t) \in SUBSET Nat
        BY FamiliesAssumption DEF FamiliesWith
    <2>2. PICK m \in FamiliesWith(t) : \A j \in FamiliesWith(t) : m <= j
        BY <1>2, <2>1, LeastExists
    <2> DEFINE c == CHOOSE k \in FamiliesWith(t) : \A j \in FamiliesWith(t) : k <= j
    <2>3. c \in FamiliesWith(t)
        BY <2>2
    <2>4. FamilyOf(t) = Families[c]
        BY <1>2 DEF FamilyOf
    <2> HIDE DEF c
    <2> QED BY <2>3, <2>4 DEF FamiliesWith
<1> QED BY <1>1, <1>2

\* The layout of a slide is one that a block of it gave, whose content it has.
LEMMA BlocksLayoutShown ==
    ASSUME NEW blocks \in Seq(Block)
    PROVE  /\ BlocksLayout(blocks) \in Layouts
           /\ Shows(BlocksLayout(blocks)) \subseteq
                UNION {BlockParts(blocks[k]) : k \in DOMAIN blocks}
<1> DEFINE placing == {k \in DOMAIN blocks : BlockLayout(blocks[k]) # NoLayout}
<1>1. CASE placing = {}
    <2>1. BlocksLayout(blocks) = "hero"
        BY <1>1 DEF BlocksLayout
    <2>2. Shows("hero") = {}
        BY DEF Shows, Shown
    <2> QED BY <2>1, <2>2, LayoutsAssumption DEF OwnLayouts
<1>2. CASE placing # {}
    <2>1. placing \in SUBSET (1..Len(blocks)) /\ Len(blocks) \in Nat
        OBVIOUS
    <2>2. PICK m \in placing : \A j \in placing : j <= m
        <3> HIDE DEF placing
        <3> QED BY <1>2, <2>1, GreatestExists
    <2> DEFINE c == CHOOSE k \in placing : \A j \in placing : j <= k
    <2>3. c \in placing
        BY <2>2
    <2>4. BlocksLayout(blocks) = BlockLayout(blocks[c])
        BY <1>2 DEF BlocksLayout
    <2> HIDE DEF c
    <2>5. blocks[c] \in Block /\ c \in DOMAIN blocks
        BY <2>3
    <2>6. ASSUME NEW b \in Block, BlockLayout(b) # NoLayout
          PROVE  BlockLayout(b) \in Layouts /\ Shows(BlockLayout(b)) \subseteq BlockParts(b)
        <3>1. b.type \in BlockTypes
            BY DEF Block
        <3>2. CASE b.type = "cards"
            <4>1. BlockLayout(b) \in {"three-cards", "card-grid"}
                BY <3>2 DEF BlockLayout, CardsLayout
            <4>2. Shows(BlockLayout(b)) \subseteq {"cards"}
                BY <4>1 DEF Shows, Shown
            <4>3. "cards" \in BlockParts(b)
                BY <3>2 DEF BlockParts, BlockFills, Parts
            <4> QED BY <4>1, <4>2, <4>3, LayoutsAssumption DEF OwnLayouts
        <3>3. CASE b.type = "bullet-list"
            <4>1. BlockLayout(b) = "bullet-slide"
                BY <3>3 DEF BlockLayout
            <4>2. Shows(BlockLayout(b)) \subseteq {"bullets"}
                BY <4>1 DEF Shows, Shown
            <4>3. "bullets" \in BlockParts(b)
                BY <3>3 DEF BlockParts, BlockFills, Parts
            <4> QED BY <4>1, <4>2, <4>3, LayoutsAssumption DEF OwnLayouts
        <3>4. CASE b.type \in {"stats", "steps", "quote"}
            <4>1. BlockLayout(b) = b.type
                BY <3>4 DEF BlockLayout
            <4>2. Shows(BlockLayout(b)) \subseteq {b.type}
                BY <3>4, <4>1 DEF Shows, Shown
            <4>3. b.type \in BlockParts(b)
                BY <3>4 DEF BlockParts, BlockFills, Parts
            <4> QED BY <3>4, <4>1, <4>2, <4>3, LayoutsAssumption DEF OwnLayouts
        <3>5. CASE b.type = "timeline"
            <4>1. BlockLayout(b) = "timeline"
                BY <3>5 DEF BlockLayout
            <4>2. Shows(BlockLayout(b)) \subseteq {"timelineEvents"}
                BY <4>1 DEF Shows, Shown
            <4>3. "timelineEvents" \in BlockParts(b)
                BY <3>5 DEF BlockParts, BlockFills, Parts
            <4> QED BY <4>1, <4>2, <4>3, LayoutsAssumption DEF OwnLayouts
        <3>6. CASE b.type = "image"
            <4>1. BlockLayout(b) = "image-left"
                BY <3>6 DEF BlockLayout
            <4>2. Shows(BlockLayout(b)) = {}
                BY <4>1 DEF Shows, Shown
            <4> QED BY <4>1, <4>2, LayoutsAssumption DEF OwnLayouts
        <3>7. CASE b.type \in {"chart", "diagram"}
            <4>1. BlockLayout(b) = "diagram"
                BY <3>7 DEF BlockLayout
            <4>2. Shows(BlockLayout(b)) \subseteq {"cards"}
                BY <4>1 DEF Shows, Shown
            <4>3. "cards" \in BlockParts(b)
                BY <3>7 DEF BlockParts, BlockFills, Parts
            <4> QED BY <4>1, <4>2, <4>3, LayoutsAssumption DEF OwnLayouts
        <3>8. CASE b.type \in {"header", "paragraph", "unknown"}
            BY <2>6, <3>8 DEF BlockLayout
        <3> QED BY <3>1, <3>2, <3>3, <3>4, <3>5, <3>6, <3>7, <3>8 DEF BlockTypes
    <2>7. BlockLayout(blocks[c]) # NoLayout
        BY <2>3
    <2> HIDE DEF placing
    <2> QED BY <2>4, <2>5, <2>6, <2>7
<1> QED BY <1>1, <1>2

\* A limited number is in the limit again when it is parsed the second time.
LEMMA CapWorks ==
    ASSUME NEW b \in Body
    PROVE  /\ Cap(b) \in Body
           /\ Cap(b).kind = b.kind /\ Cap(b).plan = b.plan
           /\ Cap(b).slides # NoSlides =>
                /\ Len(Cap(b).slides) =
                      IF Len(b.slides) > LimitOf[b.plan] THEN LimitOf[b.plan] ELSE Len(b.slides)
                /\ \A i \in 1..Len(Cap(b).slides) : Cap(b).slides[i] = b.slides[i]
           /\ Cap(b).slides # NoSlides => Len(Cap(b).slides) <= LimitOf[Cap(b).plan]
           /\ Cap(b).slides = NoSlides =>
                ParseCount(Cap(b).slideCount) <= LimitOf[Cap(b).plan]
<1> DEFINE limit == LimitOf[b.plan]
<1>1. limit \in Nat /\ limit > 0
    BY LimitAssumption DEF Body
<1>2. CASE b.slides # NoSlides
    <2>1. b.slides \in Seq(Nat \cup {NoIndex}) /\ Len(b.slides) \in Nat
        BY <1>2 DEF Body
    <2>2. CASE Len(b.slides) > limit
        <3> DEFINE t == SubSeq(b.slides, 1, limit)
        <3>1. /\ t \in Seq(Nat \cup {NoIndex}) /\ Len(t) = limit
              /\ \A i \in 1..limit : t[i] = b.slides[i]
            BY <1>1, <2>1, <2>2
        <3>2. t # NoSlides
            BY <3>1, AbsentAssumption
        <3>3. Cap(b) = [b EXCEPT !.slides = t]
            BY <1>2, <2>2 DEF Cap
        <3> HIDE DEF t
        <3> QED BY <1>1, <2>2, <3>1, <3>2, <3>3 DEF Body
    <2>3. CASE ~(Len(b.slides) > limit)
        <3>1. Cap(b) = b
            BY <1>2, <2>3 DEF Cap
        <3> QED BY <1>1, <1>2, <2>1, <2>3, <3>1
    <2> QED BY <2>2, <2>3
<1>3. CASE b.slides = NoSlides
    <2>1. ParseCount(b.slideCount) \in Int
        BY DEF Body, ParseCount
    <2>2. CASE ParseCount(b.slideCount) > limit
        <3>1. Cap(b) = [b EXCEPT !.slideCount = limit]
            BY <1>3, <2>2 DEF Cap
        <3>2. ParseCount(limit) = limit
            BY <1>1, AbsentAssumption DEF ParseCount
        <3> QED BY <1>1, <1>3, <3>1, <3>2 DEF Body
    <2>3. CASE ~(ParseCount(b.slideCount) > limit)
        <3>1. Cap(b) = b
            BY <1>3, <2>3 DEF Cap
        <3> QED BY <1>1, <1>3, <2>1, <2>3, <3>1
    <2> QED BY <2>2, <2>3
<1> QED BY <1>2, <1>3

\* The theme a deck is generated for.
LEMMA ChosenThemeType ==
    ASSUME TypeOK
    PROVE  ChosenTheme \in Themes
BY FamiliesAssumption DEF TypeOK, Body, ChosenTheme

\* A slide of an answer: its type, theme and layout.
LEMMA AnswerSlideFacts ==
    ASSUME TypeOK, NEW blocks \in Seq(Block), NEW i \in Nat
    PROVE  LET s == AnswerSlide(blocks, i)
           IN  /\ s \in Slide
               /\ \E j \in DOMAIN FamilyOf(ChosenTheme) : s.theme = FamilyOf(ChosenTheme)[j]
               /\ required # NoTemplate /\ i < Len(required) => s.layout = required[i + 1]
               /\ required = NoTemplate => Shows(s.layout) \subseteq s.content
<1> DEFINE content == UNION {BlockParts(blocks[k]) : k \in DOMAIN blocks}
           theme == Rotate(ChosenTheme, i)
           layout == AnswerLayout(blocks, i)
<1>1. AnswerSlide(blocks, i) =
        [index |-> NoIndex, layout |-> layout, theme |-> theme, content |-> content]
    BY DEF AnswerSlide
<1>2. content \in SUBSET Parts
    BY DEF BlockParts
<1>3. theme \in Themes /\ \E j \in DOMAIN FamilyOf(ChosenTheme) : theme = FamilyOf(ChosenTheme)[j]
    BY ChosenThemeType, RotateInFamily
<1>4. CASE required # NoTemplate /\ i < Len(required)
    <2>1. required \in Seq(Layouts) /\ i + 1 \in 1..Len(required)
        BY <1>4 DEF TypeOK
    <2>2. layout = required[i + 1] /\ required[i + 1] \in Layouts
        BY <1>4, <2>1 DEF AnswerLayout
    <2> HIDE DEF content, theme, layout
    <2> QED BY <1>1, <1>2, <1>3, <1>4, <2>2 DEF Slide
<1>5. CASE ~(required # NoTemplate /\ i < Len(required)) /\ i = 0
    <2>1. layout = "hero"
        BY <1>5 DEF AnswerLayout
    <2>2. layout \in Layouts
        BY <2>1, LayoutsAssumption DEF OwnLayouts
    <2>3. Shows(layout) = {}
        BY <2>1 DEF Shows, Shown
    <2> HIDE DEF content, theme, layout
    <2> QED BY <1>1, <1>2, <1>3, <1>5, <2>2, <2>3 DEF Slide
<1>6. CASE ~(required # NoTemplate /\ i < Len(required)) /\ i # 0
    <2>1. layout = BlocksLayout(blocks)
        BY <1>6 DEF AnswerLayout
    <2>2. layout \in Layouts /\ Shows(layout) \subseteq content
        BY <2>1, BlocksLayoutShown
    <2> HIDE DEF content, theme, layout
    <2> QED BY <1>1, <1>2, <1>3, <1>6, <2>2 DEF Slide
<1> QED BY <1>4, <1>5, <1>6

\* The eight layouts of the fallback deck all have prepared content.
LEMMA FallbackShown ==
    ASSUME NEW l \in {"hero", "bullet-slide", "card-grid", "stats", "steps",
                      "timeline", "comparison", "quote"}
    PROVE  l \in Layouts /\ Shows(l) \subseteq FallbackContent(l)
<1>1. l \in Layouts
    BY LayoutsAssumption DEF OwnLayouts
<1>2. ASSUME NEW x \in Shows(l) PROVE x \in FallbackContent(l)
    <2>1. x \in Parts /\ <<l, x>> \in Shown
        BY <1>2 DEF Shows
    <2>2. <<l, x>> \in FallbackFills
        BY <2>1 DEF Shown, FallbackFills
    <2> QED BY <2>1, <2>2 DEF FallbackContent
<1> QED BY <1>1, <1>2

\* The same for a slide of the fallback deck.
LEMMA FallbackSlideFacts ==
    ASSUME TypeOK, NEW i \in Nat, required # NoTemplate => i < Len(required)
    PROVE  LET s == FallbackSlide(i)
           IN  /\ s \in Slide
               /\ \E j \in DOMAIN FamilyOf(ChosenTheme) : s.theme = FamilyOf(ChosenTheme)[j]
               /\ required # NoTemplate => s.layout = required[i + 1]
               /\ required = NoTemplate => Shows(s.layout) \subseteq s.content
<1> DEFINE theme == IF i = 0 THEN ChosenTheme ELSE Rotate(ChosenTheme, i)
           layout == FallbackLayout(i)
           content == FallbackContent(layout)
<1>1. FallbackSlide(i) =
        [index |-> NoIndex, layout |-> layout, theme |-> theme, content |-> content]
    BY DEF FallbackSlide
<1>2. content \in SUBSET Parts
    BY DEF FallbackContent
<1>3. theme \in Themes /\ \E j \in DOMAIN FamilyOf(ChosenTheme) : theme = FamilyOf(ChosenTheme)[j]
    BY ChosenThemeType, RotateInFamily, ThemeInFamily
<1>4. CASE required # NoTemplate
    <2>1. required \in Seq(Layouts) /\ i + 1 \in 1..Len(required)
        BY <1>4 DEF TypeOK
    <2>2. layout = required[i + 1] /\ required[i + 1] \in Layouts
        BY <1>4, <2>1 DEF FallbackLayout
    <2> HIDE DEF content, theme, layout
    <2> QED BY <1>1, <1>2, <1>3, <1>4, <2>2 DEF Slide
<1>5. CASE required = NoTemplate
    <2>1. layout \in {"hero", "bullet-slide", "card-grid", "stats", "steps",
                      "timeline", "comparison", "quote"}
        <3>1. (i % 8) + 1 \in 1..8
            OBVIOUS
        <3>2. \A k \in 1..8 :
                FallbackLayouts[k] \in {"hero", "bullet-slide", "card-grid", "stats", "steps",
                                        "timeline", "comparison", "quote"}
            BY DEF FallbackLayouts
        <3> QED BY <1>5, <3>1, <3>2 DEF FallbackLayout
    <2>2. layout \in Layouts /\ Shows(layout) \subseteq content
        <3> HIDE DEF layout
        <3> QED BY <2>1, FallbackShown
    <2> HIDE DEF content, theme, layout
    <2> QED BY <1>1, <1>2, <1>3, <1>5, <2>2 DEF Slide
<1> QED BY <1>4, <1>5

(* The inductive invariant *)

\* A request past checkLimits satisfies it.
LEMMA InitInv == Init => IndInv
<1> SUFFICES ASSUME Init PROVE IndInv
    OBVIOUS
<1>1. body \in Body
    BY BodiesAssumption DEF Init
<1>2. body.kind \in {"deck", "single"}
    BY <1>1 DEF Body
<1>3. TypeOK
    BY <1>1, <1>2 DEF Init, TypeOK
<1>4. StageInv
    BY <1>2 DEF Init, StageInv
<1>5. CappedWithoutTemplate
    BY <1>2 DEF Init, CappedWithoutTemplate
<1>6. TemplateFollowed /\ OneFamily /\ LayoutHasContent
    BY DEF Init, TemplateFollowed, OneFamily, LayoutHasContent, Generated
<1> QED BY <1>3, <1>4, <1>5, <1>6 DEF IndInv

\* Every step of the middleware and the handlers preserves it.
LEMMA NextInv == IndInv /\ [Next]_vars => IndInv'
<1> SUFFICES ASSUME IndInv, [Next]_vars PROVE IndInv'
    OBVIOUS
<1> USE DEF IndInv
<1>1. CASE CheckSlideCountLimit
    <2>1. body.kind = "deck" /\ origin = "none" /\ body' = Cap(body)
        BY <1>1 DEF CheckSlideCountLimit, StageInv
    <2>2. /\ body' \in Body /\ body'.kind = "deck"
          /\ body'.slides # NoSlides => Len(body'.slides) <= LimitOf[body'.plan]
          /\ body'.slides = NoSlides => ParseCount(body'.slideCount) <= LimitOf[body'.plan]
        BY <2>1, CapWorks DEF TypeOK
    <2>3. TypeOK'
        BY <1>1, <2>2 DEF CheckSlideCountLimit, TypeOK
    <2>4. StageInv'
        <3>1. body = sent /\ sent' = sent
            BY <1>1 DEF CheckSlideCountLimit, StageInv
        <3>2. Cap(sent)' = Cap(sent)
            BY <3>1 DEF Cap, ParseCount
        <3> QED BY <1>1, <2>1, <2>2, <3>1, <3>2 DEF CheckSlideCountLimit, StageInv
    <2>5. CappedWithoutTemplate' /\ TemplateFollowed' /\ OneFamily' /\ LayoutHasContent'
        BY <1>1, <2>1 DEF CheckSlideCountLimit, CappedWithoutTemplate, TemplateFollowed,
                          OneFamily, LayoutHasContent, Generated
    <2> QED BY <2>3, <2>4, <2>5
<1>2. CASE LookupTemplate
    <2>1. /\ body.kind = "deck" /\ origin = "none" /\ body' = body
          /\ body \in Body /\ body.template \in Seq(Layouts) \cup {NoTemplate}
          /\ LimitOf[body.plan] \in Nat
        BY <1>2, LimitAssumption DEF LookupTemplate, StageInv, TypeOK, Body
    <2>2. CASE body.slides # NoSlides
        <3> DEFINE n == Len(body.slides)
                   d == [i \in 1..n |-> GivenSlide(body.slides[i])]
        <3>1. body.slides \in Seq(Nat \cup {NoIndex}) /\ n \in Nat /\ n <= LimitOf[body.plan]
            BY <1>2, <2>1, <2>2 DEF LookupTemplate, StageInv, Body
        <3>2. /\ n = IF Len(sent.slides) > LimitOf[body.plan]
                     THEN LimitOf[body.plan] ELSE Len(sent.slides)
              /\ \A i \in 1..n : body.slides[i] = sent.slides[i]
            <4>1. body = Cap(sent) /\ sent \in Body
                BY <1>2 DEF LookupTemplate, StageInv, TypeOK
            <4> QED BY <2>2, <4>1, CapWorks
        <3>3. ASSUME NEW i \in 1..n PROVE GivenSlide(body.slides[i]) \in Slide
            <4>1. body.slides[i] \in Nat \cup {NoIndex}
                BY <3>1
            <4> QED BY <4>1, LayoutsAssumption DEF GivenSlide, Slide, OwnLayouts
        <3>4. d \in [1..n -> Slide]
            BY <3>3
        <3>5. d \in Seq(Slide) /\ Len(d) = n
            <4> HIDE DEF d, n
            <4> QED BY <3>1, <3>4, FunctionIsSeq
        <3>6. deck' = d /\ origin' = "body" /\ stage' = "ready" /\ required' = body.template
              /\ asked' = asked /\ rows' = rows /\ sent' = sent
            BY <1>2, <2>2 DEF LookupTemplate
        <3>7. \A i \in 1..n : d[i].index = sent.slides[i]
            BY <3>2 DEF GivenSlide
        <3>8. DOMAIN d = 1..n
            OBVIOUS
        <3> HIDE DEF d, n
        <3>9. SentUpTo(LimitOf[body.plan])'
            BY <2>1, <3>5, <3>6, <3>2, <3>7, <3>8 DEF SentUpTo
        <3>10. TypeOK'
            BY <2>1, <3>5, <3>6 DEF TypeOK
        <3>11. StageInv' /\ CappedWithoutTemplate'
            BY <2>1, <3>1, <3>6, <3>9 DEF StageInv, CappedWithoutTemplate
        <3>12. TemplateFollowed' /\ OneFamily' /\ LayoutHasContent'
            BY <3>6 DEF TemplateFollowed, OneFamily, LayoutHasContent, Generated
        <3> QED BY <3>10, <3>11, <3>12
    <2>3. CASE body.slides = NoSlides
        <3>1. /\ asked' = IF body.template # NoTemplate THEN Len(body.template)
                          ELSE ParseCount(body.slideCount)
              /\ deck' = deck /\ origin' = "none" /\ stage' = "asking"
              /\ required' = body.template /\ rows' = rows /\ sent' = sent
            BY <1>2, <2>1, <2>3 DEF LookupTemplate
        <3>2. /\ ParseCount(body.slideCount) \in Int
              /\ ParseCount(body.slideCount) <= LimitOf[body.plan]
            BY <1>2, <2>1, <2>3 DEF LookupTemplate, StageInv, ParseCount, Body
        <3>3. TypeOK'
            BY <2>1, <3>1, <3>2 DEF TypeOK
        <3>4. StageInv' /\ CappedWithoutTemplate'
            BY <2>1, <3>1, <3>2 DEF StageInv, CappedWithoutTemplate
        <3>5. TemplateFollowed' /\ OneFamily' /\ LayoutHasContent'
            BY <3>1 DEF TemplateFollowed, OneFamily, LayoutHasContent, Generated
        <3> QED BY <3>3, <3>4, <3>5
    <2> QED BY <2>2, <2>3
<1>3. ASSUME NEW a \in Answers, Answer(a) PROVE IndInv'
    <2> DEFINE d == [i \in 1..Len(a) |-> AnswerSlide(a[i], i - 1)]
    <2>1. a \in Seq(Seq(Block)) /\ Len(a) \in Nat
        BY AnswersAssumption
    <2>2. ASSUME NEW i \in 1..Len(a)
          PROVE  LET s == AnswerSlide(a[i], i - 1)
                 IN  /\ s \in Slide
                     /\ \E j \in DOMAIN FamilyOf(ChosenTheme) :
                           s.theme = FamilyOf(ChosenTheme)[j]
                     /\ required # NoTemplate /\ i <= Len(required) => s.layout = required[i]
                     /\ required = NoTemplate => Shows(s.layout) \subseteq s.content
        <3>1. a[i] \in Seq(Block) /\ i - 1 \in Nat /\ (i - 1) + 1 = i
            BY <2>1
        <3>2. required # NoTemplate /\ i <= Len(required) => i - 1 < Len(required)
            BY <2>1 DEF TypeOK
        <3> QED BY <3>1, <3>2, AnswerSlideFacts
    <2>3. d \in [1..Len(a) -> Slide]
        BY <2>2
    <2>4. d \in Seq(Slide) /\ DOMAIN d = 1..Len(a)
        <3>1. Len(a) \in Int
            BY <2>1
        <3> HIDE DEF d
        <3> QED BY <2>3, <3>1, FunctionIsSeq
    <2>5. /\ stage = "asking" /\ deck' = d /\ origin' = "answer" /\ stage' = "ready"
          /\ body' = body /\ required' = required /\ asked' = asked /\ rows' = rows /\ sent' = sent
        BY <1>3 DEF Answer
    <2>6. \A i \in DOMAIN d : d[i] = AnswerSlide(a[i], i - 1)
        OBVIOUS
    <2>7. ChosenTheme' = ChosenTheme
        BY <2>5 DEF ChosenTheme
    <2> HIDE DEF d
    <2>8. TypeOK'
        BY <2>4, <2>5 DEF TypeOK
    <2>9. StageInv' /\ CappedWithoutTemplate'
        BY <2>5 DEF StageInv, CappedWithoutTemplate
    <2>10. TemplateFollowed'
        BY <2>2, <2>4, <2>5, <2>6 DEF TemplateFollowed
    <2>11. OneFamily'
        BY <2>2, <2>4, <2>5, <2>6, <2>7 DEF OneFamily
    <2>12. LayoutHasContent'
        BY <2>2, <2>4, <2>5, <2>6 DEF LayoutHasContent
    <2> QED BY <2>8, <2>9, <2>10, <2>11, <2>12
<1>4. CASE Fallback
    <2> DEFINE d == [i \in 1..asked |-> FallbackSlide(i - 1)]
    <2>1. asked \in Int /\ stage = "asking" /\ (required # NoTemplate => asked = Len(required))
        BY <1>4 DEF Fallback, TypeOK, StageInv
    <2>2. ASSUME NEW i \in 1..asked
          PROVE  LET s == FallbackSlide(i - 1)
                 IN  /\ s \in Slide
                     /\ \E j \in DOMAIN FamilyOf(ChosenTheme) :
                           s.theme = FamilyOf(ChosenTheme)[j]
                     /\ required # NoTemplate => s.layout = required[i]
                     /\ required = NoTemplate => Shows(s.layout) \subseteq s.content
        <3>1. i - 1 \in Nat /\ (i - 1) + 1 = i /\ (required # NoTemplate => i - 1 < Len(required))
            BY <2>1
        <3> QED BY <3>1, FallbackSlideFacts
    <2>3. d \in [1..asked -> Slide]
        BY <2>2
    <2>4. d \in Seq(Slide) /\ DOMAIN d = 1..asked /\ Len(d) = IF asked > 0 THEN asked ELSE 0
        <3> HIDE DEF d
        <3> QED BY <2>1, <2>3, FunctionIsSeq
    <2>5. /\ deck' = d /\ origin' = "fallback" /\ stage' = "ready"
          /\ body' = body /\ required' = required /\ asked' = asked /\ rows' = rows /\ sent' = sent
        BY <1>4 DEF Fallback
    <2>6. \A i \in DOMAIN d : d[i] = FallbackSlide(i - 1)
        OBVIOUS
    <2>7. ChosenTheme' = ChosenTheme
        BY <2>5 DEF ChosenTheme
    <2>8. LimitOf[body.plan] \in Nat
        BY LimitAssumption DEF TypeOK, Body
    <2> HIDE DEF d
    <2>9. TypeOK'
        BY <2>4, <2>5 DEF TypeOK
    <2>10. StageInv'
        BY <2>5 DEF StageInv
    <2>11. CappedWithoutTemplate'
        <3>1. origin = "none"
            BY <2>1 DEF StageInv
        <3>2. body.kind = "deck" /\ required = NoTemplate => asked <= LimitOf[body.plan]
            BY <2>1, <3>1 DEF CappedWithoutTemplate
        <3> QED BY <2>1, <2>4, <2>5, <2>8, <3>2 DEF CappedWithoutTemplate
    <2>12. TemplateFollowed'
        <3>1. required # NoTemplate => required \in Seq(Layouts)
            BY DEF TypeOK
        <3>2. required # NoTemplate => Len(d) = Len(required)
            BY <2>1, <2>4, <3>1
        <3> QED BY <2>2, <2>4, <2>5, <2>6, <3>2 DEF TemplateFollowed
    <2>13. OneFamily'
        BY <2>2, <2>4, <2>5, <2>6, <2>7 DEF OneFamily
    <2>14. LayoutHasContent'
        BY <2>2, <2>4, <2>5, <2>6 DEF LayoutHasContent
    <2> QED BY <2>9, <2>10, <2>11, <2>12, <2>13, <2>14
<1>5. CASE Save \/ Reply
    <2>1. /\ stage = "ready" /\ stage' \in {"saved", "replied", "failed"}
          /\ (stage' = "saved" \/ body.kind = "single")
          /\ body' = body /\ required' = required /\ asked' = asked /\ deck' = deck
          /\ origin' = origin /\ sent' = sent
        BY <1>5 DEF Save, Reply
    <2>2. rows' \in Seq(Nat)
        <3>1. CASE Reply
            BY <3>1 DEF Reply, TypeOK
        <3>2. CASE Save
            <4> DEFINE d == [i \in 1..Len(deck) |-> RowIndex(deck[i], i - 1)]
            <4>1. deck \in Seq(Slide) /\ Len(deck) \in Nat
                BY DEF TypeOK
            <4>2. ASSUME NEW i \in 1..Len(deck) PROVE RowIndex(deck[i], i - 1) \in Nat
                <5>1. deck[i] \in Slide /\ i - 1 \in Nat
                    BY <4>1
                <5> QED BY <5>1 DEF RowIndex, Slide
            <4>3. d \in [1..Len(deck) -> Nat]
                BY <4>2
            <4>4. d \in Seq(Nat)
                <5> HIDE DEF d
                <5> QED BY <4>1, <4>3, FunctionIsSeq
            <4> QED BY <3>2, <4>4 DEF Save
        <3> QED BY <1>5, <3>1, <3>2
    <2>3. ChosenTheme' = ChosenTheme
        BY <2>1 DEF ChosenTheme
    <2>4. TypeOK'
        BY <2>1, <2>2 DEF TypeOK
    <2>5. StageInv' /\ CappedWithoutTemplate'
        BY <2>1 DEF StageInv, CappedWithoutTemplate, SentUpTo
    <2>6. TemplateFollowed' /\ OneFamily' /\ LayoutHasContent'
        BY <2>1, <2>3 DEF TemplateFollowed, OneFamily, LayoutHasContent, Generated
    <2> QED BY <2>4, <2>5, <2>6
<1>6. CASE UNCHANGED vars
    <2>1. ChosenTheme' = ChosenTheme
        BY <1>6 DEF ChosenTheme, vars
    <2> QED BY <1>6, <2>1 DEF vars, TypeOK, StageInv, Cap, ParseCount, CappedWithoutTemplate,
                              SentUpTo, TemplateFollowed, OneFamily, LayoutHasContent, Generated
<1> QED BY <1>1, <1>2, <1>3, <1>4, <1>5, <1>6 DEF Next, Finished

\* The invariant holds throughout.
THEOREM IndInvHolds == Spec => []IndInv
BY InitInv, NextInv, PTL DEF Spec

\* Type correctness of the request's state: decks are sequences of slides.
THEOREM TypeCorrect == Spec => []TypeOK
<1>1. IndInv => TypeOK
    BY DEF IndInv
<1> QED BY <1>1, IndInvHolds, PTL

\* checkSlideCountLimit caps what createPresentation saves or asks for, as long
\* as no template is in play, for every body and every limit.
THEOREM CappedTheorem == Spec => []CappedWithoutTemplate
<1>1. IndInv => CappedWithoutTemplate
    BY DEF IndInv
<1> QED BY <1>1, IndInvHolds, PTL

\* generatePresentationSlides follows a template position by position, for every
\* template and every answer of Gemini.
THEOREM TemplateTheorem == Spec => []TemplateFollowed
<1>1. IndInv => TemplateFollowed
    BY DEF IndInv
<1> QED BY <1>1, IndInvHolds, PTL

\* A generated deck stays in the palette family of the chosen theme, for any
\* palette.
THEOREM OneFamilyTheorem == Spec => []OneFamily
<1>1. IndInv => OneFamily
    BY DEF IndInv
<1> QED BY <1>1, IndInvHolds, PTL

\* A slide whose layout the generator picked has the content that the layout
\* shows, for every sequence of blocks.
THEOREM LayoutHasContentTheorem == Spec => []LayoutHasContent
<1>1. IndInv => LayoutHasContent
    BY DEF IndInv
<1> QED BY <1>1, IndInvHolds, PTL
=============================================================================
