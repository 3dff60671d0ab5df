------------------------- MODULE MCSlideGeneration ---------------------------
(* Instances of SlideGeneration for TLC. *)
EXTENDS SlideGeneration, TLC

CONSTANTS dark1, dark2, dark3, light1, light2, custom

MCThemes == {dark1, dark2, dark3, light1, light2, custom}
MCFamilies == <<<<dark1, dark2, dark3>>, <<light1, light2>>>>
MCLimitOf == "FREE" :> 10 @@ "PRO" :> 50 @@ "TEAM" :> 200 @@ "ENTERPRISE" :> 200

B(t) == [type |-> t, columns |-> 0, items |-> 0, titled |-> FALSE]
Cards(c, n) == [type |-> "cards", columns |-> c, items |-> n, titled |-> FALSE]
MCBlocks ==
    <<B("header"), B("paragraph"), B("bullet-list"), B("stats"), B("steps"), B("timeline"),
      B("quote"), B("image"), B("chart"), B("diagram"), B("unknown"),
      [B("bullet-list") EXCEPT !.titled = TRUE],
      Cards(0, 2), Cards(0, 3), Cards(0, 4), Cards(0, 5), Cards(2, 3), Cards(2, 5),
      Cards(3, 2), Cards(3, 3), Cards(3, 4), Cards(3, 5)>>

\* A template of the seed script's length, a short one, and one whose slides
\* are not inserted yet.
Long == [i \in 1..15 |-> FallbackLayouts[((i - 1) % 8) + 1]]
Short == <<"quote", "comparison", "three-cards">>
MCTemplates == {NoTemplate, <<>>, Short, Long}

\* Slides in the body: none, with their position, without, and mixed.
Given(n) == {[i \in 1..n |-> i - 1], [i \in 1..n |-> NoIndex],
             [i \in 1..n |-> IF i % 2 = 0 THEN i - 1 ELSE NoIndex]}
MCSlides == {NoSlides} \cup UNION {Given(n) : n \in {0, 1, 10, 11, 51}}

\* All the ways to ask for a deck, at and around the limits, and for one slide.
MCBodies ==
    [kind : {"deck"}, plan : Plans, slides : MCSlides,
     slideCount : {NoNumber, -1, 0, 1, 9, 10, 11, 51, 201}, template : MCTemplates,
     theme : {NoTheme, dark2, custom}]
    \cup [kind : {"single"}, plan : Plans, slides : {NoSlides}, slideCount : {NoNumber},
          template : {NoTemplate}, theme : {NoTheme}]

\* No slides, few, more than anyone asks for; and, one answer for each first
\* block, all slides of up to two blocks.
MCAnswers ==
    {<<>>, <<<<>>, <<B("stats")>>>>, [i \in 1..16 |-> <<B("header"), B("quote")>>]}
    \cup {<<<<B("image")>>, <<MCBlocks[k]>>>> \o
             [l \in DOMAIN MCBlocks |-> <<MCBlocks[k], MCBlocks[l]>>] : k \in DOMAIN MCBlocks}
=============================================================================
