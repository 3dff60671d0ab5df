--------------------------- MODULE SlideGeneration ---------------------------
(***************************************************************************)
(* From the body of a request to a deck: checkSlideCountLimit, the choice  *)
(* between given and generated slides in createPresentation, the mapping   *)
(* of Gemini's answer in generatePresentationSlides with its fallback      *)
(* deck, and generateSingleSlide.                                          *)
(*                                                                         *)
(* The state is one request: nothing here is shared.  Texts are left out;  *)
(* a slide is its layout, its theme and which parts of its contentJSON are *)
(* filled in.  Positions count from 0 as in the code.                      *)
(***************************************************************************)
EXTENDS Integers, Sequences

CONSTANTS
    Bodies,        \* request bodies, with the plan that checkLimits attached
    Answers,       \* what Gemini may answer: slides as sequences of blocks
    Families,      \* PALETTE_FAMILIES: a sequence of sequences of themes
    Themes,        \* theme names
    DefaultTheme,  \* 'minimal-light'
    Layouts,       \* layout names (column TemplateSlide.layout is any string)
    LimitOf,       \* slides per deck by plan: 10, 50, 200 in the code
    NoNumber, NoSlides, NoTemplate, NoTheme, NoIndex, NoLayout  \* absent values

Plans == {"FREE", "PRO", "TEAM", "ENTERPRISE"}
BlockTypes == {"header", "paragraph", "cards", "bullet-list", "stats", "steps",
               "timeline", "quote", "image", "chart", "diagram", "unknown"}
\* The layouts the code itself assigns, and the one of slides in a body.
OwnLayouts == {"hero", "bullet-slide", "card-grid", "three-cards", "stats", "steps",
               "timeline", "comparison", "quote", "image-left", "diagram", "given"}
Block == [type : BlockTypes, columns : Nat, items : Nat, titled : BOOLEAN]
Body == [kind : {"deck", "single"}, plan : Plans,
         slides : Seq(Nat \cup {NoIndex}) \cup {NoSlides},
         slideCount : Int \cup {NoNumber},
         template : Seq(Layouts) \cup {NoTemplate},
         theme : Themes \cup {NoTheme}]

ASSUME BodiesAssumption == Bodies # {} /\ Bodies \subseteq Body
ASSUME AnswersAssumption == Answers \subseteq Seq(Seq(Block))
ASSUME FamiliesAssumption == Families \in Seq(Seq(Themes)) /\ DefaultTheme \in Themes
ASSUME LayoutsAssumption == OwnLayouts \subseteq Layouts
ASSUME LimitAssumption == LimitOf \in [Plans -> Nat \ {0}]
ASSUME AbsentAssumption ==
    /\ NoNumber \notin Int /\ NoIndex \notin Nat /\ NoLayout \notin Layouts
    /\ NoSlides \notin Seq(Nat \cup {NoIndex})
    /\ NoTemplate \notin Seq(Layouts)
    /\ NoTheme \notin Themes

VARIABLES
    stage,     \* how far the request is
    body,      \* req.body, which the middleware may change
    sent,      \* history: req.body as the client sent it
    required,  \* requiredLayouts
    asked,     \* the number of slides the prompt asks for
    deck,      \* finalSlides
    origin,    \* history: where the deck came from
    rows       \* the index column of the saved slides, in the order of finalSlides

vars == <<stage, body, sent, required, asked, deck, origin, rows>>

Parts == {"title", "subtitle", "cards", "bullets", "stats", "steps",
          "timelineEvents", "quote", "comparisonItems"}
Slide == [index : Nat \cup {NoIndex}, layout : Layouts,
          theme : Themes \cup {NoTheme}, content : SUBSET Parts]

TypeOK ==
    /\ stage \in {"limit", "lookup", "asking", "ready", "saved", "replied", "failed"}
    /\ body \in Body /\ sent \in Body
    /\ required \in Seq(Layouts) \cup {NoTemplate}
    /\ asked \in Int
    /\ deck \in Seq(Slide)
    /\ origin \in {"none", "body", "answer", "fallback"}
    /\ rows \in Seq(Nat)

\* A request past checkLimits.  generateSingleSlide has no slide-count check
\* and looks at neither theme nor template.
Init ==
    /\ body \in Bodies /\ sent = body
    /\ stage = IF body.kind = "deck" THEN "limit" ELSE "asking"
    /\ required = NoTemplate
    /\ asked = 1
    /\ deck = <<>>
    /\ origin = "none"
    /\ rows = <<>>

-----------------------------------------------------------------------------
(* checkSlideCountLimit and the first half of createPresentation           *)

\* parseInt(x, 10) || 5: no number and zero count as 5, negative numbers stay.
ParseCount(c) == IF c = NoNumber \/ c = 0 THEN 5 ELSE c

\* Mutant: only the number is capped, not the slides in the body.
CapNumberOnly(b) ==
    IF b.slides = NoSlides /\ ParseCount(b.slideCount) > LimitOf[b.plan]
    THEN [b EXCEPT !.slideCount = LimitOf[b.plan]] ELSE b

\* Given slides are cut to the plan's limit, otherwise the number is.
Cap(b) ==
    LET limit == LimitOf[b.plan]
    IN  IF b.slides # NoSlides
        THEN IF Len(b.slides) > limit
             THEN [b EXCEPT !.slides = SubSeq(b.slides, 1, limit)] ELSE b
        ELSE IF ParseCount(b.slideCount) > limit
             THEN [b EXCEPT !.slideCount = limit] ELSE b

CheckSlideCountLimit ==
    /\ stage = "limit"
    /\ body' = Cap(body)
    /\ stage' = "lookup"
    /\ UNCHANGED <<sent, required, asked, deck, origin, rows>>

\* A slide of the body keeps its layout and theme, which nothing here reads.
GivenSlide(i) == [index |-> i, layout |-> "given", theme |-> NoTheme, content |-> {}]

\* The template is looked up in both cases; given slides win over it.
LookupTemplate ==
    /\ stage = "lookup"
    /\ required' = body.template
    /\ IF body.slides # NoSlides
       THEN /\ deck' = [i \in 1..Len(body.slides) |-> GivenSlide(body.slides[i])]
            /\ origin' = "body"
            /\ stage' = "ready"
            /\ UNCHANGED asked
       ELSE /\ asked' = IF body.template # NoTemplate THEN Len(body.template)
                        ELSE ParseCount(body.slideCount)
            /\ stage' = "asking"
            /\ UNCHANGED <<deck, origin>>
    /\ UNCHANGED <<body, sent, rows>>

-----------------------------------------------------------------------------
(* generatePresentationSlides                                              *)

ChosenTheme ==
    IF body.kind = "single" \/ body.theme = NoTheme THEN DefaultTheme ELSE body.theme

FamiliesWith(t) == {k \in DOMAIN Families : \E j \in DOMAIN Families[k] : Families[k][j] = t}

\* The first family that has the theme; a theme of no family is its own.
FamilyOf(t) ==
    IF FamiliesWith(t) = {} THEN <<t>>
    ELSE Families[CHOOSE k \in FamiliesWith(t) : \A j \in FamiliesWith(t) : k <= j]

\* Mutant: the themes of all families are taken one after the other.
RotateAll(t, i) == LET f == Families[(i % Len(Families)) + 1] IN f[1]

Rotate(t, i) == FamilyOf(t)[(i % Len(FamilyOf(t))) + 1]

CardsLayout(b) ==
    IF b.columns # 2 /\ b.items \notin {2, 4} /\ (b.columns = 3 \/ b.items = 3)
    THEN "three-cards" ELSE "card-grid"

\* What a block makes the layout of its slide, if anything.
BlockLayout(b) ==
    IF b.type = "cards" THEN CardsLayout(b)
    ELSE IF b.type = "bullet-list" THEN "bullet-slide"
    ELSE IF b.type \in {"stats", "steps", "timeline", "quote"} THEN b.type
    ELSE IF b.type = "image" THEN "image-left"
    ELSE IF b.type \in {"chart", "diagram"} THEN "diagram"
    ELSE NoLayout

\* Mutant: the items of a diagram are dropped.
BlockFillsNoDiagram ==
    {<<"header", "title">>, <<"paragraph", "subtitle">>, <<"cards", "cards">>,
     <<"bullet-list", "bullets">>, <<"stats", "stats">>, <<"steps", "steps">>,
     <<"timeline", "timelineEvents">>, <<"quote", "quote">>}

\* The part of contentJSON that a type of block fills in.
BlockFills ==
    {<<"header", "title">>, <<"paragraph", "subtitle">>, <<"cards", "cards">>,
     <<"chart", "cards">>, <<"diagram", "cards">>,
     <<"bullet-list", "bullets">>, <<"stats", "stats">>, <<"steps", "steps">>,
     <<"timeline", "timelineEvents">>, <<"quote", "quote">>}

\* A bullet list may bring a title of its own.
BlockParts(b) ==
    {x \in Parts : \/ <<b.type, x>> \in BlockFills
                   \/ b.type = "bullet-list" /\ b.titled /\ x = "title"}

\* Later blocks override the layout of earlier ones.
BlocksLayout(blocks) ==
    LET placing == {k \in DOMAIN blocks : BlockLayout(blocks[k]) # NoLayout}
    IN  IF placing = {} THEN "hero"
        ELSE BlockLayout(blocks[CHOOSE k \in placing : \A j \in placing : j <= k])

\* Mutant: the first slide stays a hero, whatever the template says.
AnswerLayoutHeroWins(blocks, i) ==
    IF i = 0 THEN "hero"
    ELSE IF required # NoTemplate /\ i < Len(required) THEN required[i + 1]
    ELSE BlocksLayout(blocks)

\* The template wins over the hero of the first slide, and that over the blocks.
AnswerLayout(blocks, i) ==
    IF required # NoTemplate /\ i < Len(required) THEN required[i + 1]
    ELSE IF i = 0 THEN "hero"
    ELSE BlocksLayout(blocks)

AnswerSlide(blocks, i) ==
    [index |-> NoIndex,
     layout |-> AnswerLayout(blocks, i),
     theme |-> Rotate(ChosenTheme, i),
     content |-> UNION {BlockParts(blocks[k]) : k \in DOMAIN blocks}]

\* The answer parses: its slides are taken as they come, however many they are.
Answer(a) ==
    /\ stage = "asking"
    /\ deck' = [i \in 1..Len(a) |-> AnswerSlide(a[i], i - 1)]
    /\ origin' = "answer"
    /\ stage' = "ready"
    /\ UNCHANGED <<body, sent, required, asked, rows>>

FallbackLayouts == <<"hero", "bullet-slide", "card-grid", "stats", "steps",
                     "timeline", "comparison", "quote">>

FallbackLayout(i) ==
    IF required # NoTemplate THEN required[i + 1]
    ELSE IF i = 0 THEN "hero"
    ELSE IF i = asked - 1 THEN "quote"
    ELSE FallbackLayouts[(i % 8) + 1]

\* The prepared content by layout, beside title and subtitle.
FallbackFills ==
    {<<"bullet-slide", "bullets">>, <<"list", "bullets">>,
     <<"card-grid", "cards">>, <<"numbered-cards", "cards">>, <<"diagram", "cards">>,
     <<"stats", "stats">>, <<"timeline", "timelineEvents">>,
     <<"timelineEvents", "timelineEvents">>, <<"steps", "steps">>,
     <<"process-flow", "steps">>, <<"comparison", "comparisonItems">>, <<"quote", "quote">>}

FallbackContent(layout) ==
    {x \in Parts : x \in {"title", "subtitle"} \/ <<layout, x>> \in FallbackFills}

FallbackSlide(i) ==
    [index |-> NoIndex,
     layout |-> FallbackLayout(i),
     theme |-> IF i = 0 THEN ChosenTheme ELSE Rotate(ChosenTheme, i),
     content |-> FallbackContent(FallbackLayout(i))]

\* The call, its text or its JSON is no good: a prepared deck of the length
\* asked for (an array of negative length is empty).
Fallback ==
    /\ stage = "asking"
    /\ deck' = [i \in 1..asked |-> FallbackSlide(i - 1)]
    /\ origin' = "fallback"
    /\ stage' = "ready"
    /\ UNCHANGED <<body, sent, required, asked, rows>>

-----------------------------------------------------------------------------
(* The second half of createPresentation, and generateSingleSlide          *)

\* Mutant: the position is not filled in.
RowIndexRaw(s, i) == s.index

RowIndex(s, i) == IF s.index # NoIndex THEN s.index ELSE i

\* The nested create.
Save ==
    /\ stage = "ready" /\ body.kind = "deck"
    /\ rows' = [i \in 1..Len(deck) |-> RowIndex(deck[i], i - 1)]
    /\ stage' = "saved"
    /\ UNCHANGED <<body, sent, required, asked, deck, origin>>

\* generateSingleSlide returns the first slide, or 500 when there is none.
Reply ==
    /\ stage = "ready" /\ body.kind = "single"
    /\ stage' = IF deck = <<>> THEN "failed" ELSE "replied"
    /\ UNCHANGED <<body, sent, required, asked, deck, origin, rows>>

Finished == stage \in {"saved", "replied", "failed"} /\ UNCHANGED vars

Next ==
    \/ CheckSlideCountLimit
    \/ LookupTemplate
    \/ \E a \in Answers : Answer(a)
    \/ Fallback
    \/ Save
    \/ Reply
    \/ Finished

Spec == Init /\ [][Next]_vars

-----------------------------------------------------------------------------
(* Properties                                                              *)

Generated == origin \in {"answer", "fallback"}

\* The first slides that the client sent, up to the limit, in their order.
SentUpTo(limit) ==
    /\ Len(deck) = IF Len(sent.slides) > limit THEN limit ELSE Len(sent.slides)
    /\ \A i \in DOMAIN deck : deck[i].index = sent.slides[i]

\* The plan's limit of slides, where no template is in play: of a deck from the body
\* the slides past it are lost and no others ("cap the array to the plan limit
\* silently", limitMiddleware.ts:63, although line 58 says that limits are enforced
\* "not for manual/template slides"), the prompt never asks for more, and no fallback
\* deck is longer.  (Gemini may send more than asked for; nothing counts.)
CappedWithoutTemplate ==
    stage \in {"asking", "ready", "saved"} /\ body.kind = "deck" =>
        /\ origin = "body" => SentUpTo(LimitOf[body.plan])
        /\ origin # "body" /\ required = NoTemplate => asked <= LimitOf[body.plan]
        /\ origin = "fallback" /\ required = NoTemplate => Len(deck) <= LimitOf[body.plan]

\* A generated deck follows its template position by position, whether Gemini
\* answered or not; the fallback deck has exactly the template's slides.
TemplateFollowed ==
    required # NoTemplate /\ Generated =>
        /\ \A i \in DOMAIN deck : i <= Len(required) => deck[i].layout = required[i]
        /\ origin = "fallback" => Len(deck) = Len(required)

\* All slides of a generated deck are in themes of one palette family, the one
\* of the theme the user chose.
OneFamily ==
    Generated =>
        \A i \in DOMAIN deck :
            \E j \in DOMAIN FamilyOf(ChosenTheme) : deck[i].theme = FamilyOf(ChosenTheme)[j]

\* Which part of contentJSON a layout shows.
Shown ==
    {<<"card-grid", "cards">>, <<"three-cards", "cards">>, <<"diagram", "cards">>,
     <<"bullet-slide", "bullets">>, <<"timeline", "timelineEvents">>, <<"stats", "stats">>,
     <<"comparison", "comparisonItems">>, <<"steps", "steps">>, <<"quote", "quote">>}
Shows(layout) == {x \in Parts : <<layout, x>> \in Shown}

\* Where the generator picks the layout itself, blocks that override each
\* other's layout never leave a slide without the content its layout shows.
LayoutHasContent ==
    Generated /\ required = NoTemplate =>
        \A i \in DOMAIN deck : Shows(deck[i].layout) \subseteq deck[i].content

\* checkSlideCountLimit: "For AI generation, cap slideCount to plan limit".
PlanCapsGeneration == stage = "asking" /\ body.kind = "deck" => asked <= LimitOf[body.plan]

-----------------------------------------------------------------------------
(* The inductive invariant                                                 *)

\* What the middleware and the lookup have established at each stage.
StageInv ==
    /\ stage \in {"limit", "lookup", "asking"} => origin = "none"
    /\ stage \in {"limit", "lookup"} => body.kind = "deck"
    /\ stage = "limit" => body = sent
    /\ stage = "lookup" =>
         /\ body = Cap(sent)
         /\ body.slides # NoSlides => Len(body.slides) <= LimitOf[body.plan]
         /\ body.slides = NoSlides => ParseCount(body.slideCount) <= LimitOf[body.plan]
    /\ stage = "asking" /\ required # NoTemplate => asked = Len(required)

IndInv ==
    /\ TypeOK
    /\ StageInv
    /\ CappedWithoutTemplate
    /\ TemplateFollowed
    /\ OneFamily
    /\ LayoutHasContent
=============================================================================
