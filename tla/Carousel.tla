------------------------------- MODULE Carousel -------------------------------
(***************************************************************************)
(* The carousel of the component kit (ui/components/ui/carousel.tsx) over  *)
(* the scrolling library it wraps.  The library knows the slides it        *)
(* measured last and measures again when it notices that they changed; it  *)
(* reports both what it selects and that it measured, and the component    *)
(* keeps two flags, by which the buttons are enabled.                      *)
(***************************************************************************)
EXTENDS Browser

CONSTANT MaxSlides  \* bound: slides in the document
ASSUME CarouselBound == MaxSlides \in Nat \ {0}

VARIABLES
    crLoop,              \* opts.loop
    crPhase,             \* "mounted", "created" (there is an api) or "subscribed"
    crSlides,            \* slides in the document
    crSnaps, crIndex,    \* library: the slides measured and the one selected
    crPrev, crNext,      \* canScrollPrev, canScrollNext
    crGiven              \* the parent was given the api

crVars == <<crLoop, crPhase, crSlides, crSnaps, crIndex, crPrev, crNext, crGiven>>

CrInit ==
    /\ crLoop \in BOOLEAN /\ crPhase = "mounted"
    /\ crSlides \in 1..MaxSlides /\ crSnaps = 0 /\ crIndex = 0
    /\ crPrev = FALSE /\ crNext = FALSE /\ crGiven = FALSE

\* The library.
CanPrev(snaps, index) == crLoop \/ index > 0
CanNext(snaps, index) == crLoop \/ index + 1 < snaps
Clamped(index, snaps) == IF index < snaps THEN index ELSE snaps - 1

\* onSelect, with what the library says now.
OnSelect(snaps, index) == crPrev' = CanPrev(snaps, index) /\ crNext' = CanNext(snaps, index)

\* The library has the element, and the component an api after a rendering.
Created ==
    /\ crPhase = "mounted" /\ crPhase' = "created"
    /\ crSnaps' = crSlides
    /\ UNCHANGED <<crLoop, crSlides, crIndex, crPrev, crNext, crGiven>>

\* Faulty variant of Subscribed: the flags are read before the parent has the api.
SubscribedFirst(index) ==
    /\ crPhase = "created" /\ crPhase' = "subscribed"
    /\ crGiven' = TRUE /\ crIndex' = index
    /\ OnSelect(crSnaps, crIndex)
    /\ UNCHANGED <<crLoop, crSlides, crSnaps>>

\* The effects: the parent gets the api and may scroll with it at once; then
\* the flags are read and the reports subscribed to.
Subscribed(index) ==
    /\ crPhase = "created" /\ crPhase' = "subscribed"
    /\ crGiven' = TRUE /\ crIndex' = index
    /\ OnSelect(crSnaps, index)
    /\ UNCHANGED <<crLoop, crSlides, crSnaps>>

\* The library selects a slide and reports it, if anybody listens.
Selects(index) ==
    /\ crPhase # "mounted" /\ index \in 0..(crSnaps - 1)
    /\ crIndex' = index
    /\ IF crPhase = "subscribed" THEN OnSelect(crSnaps, index) ELSE UNCHANGED <<crPrev, crNext>>
    /\ UNCHANGED <<crLoop, crPhase, crSlides, crSnaps, crGiven>>

ScrollPrev == Selects(IF crIndex > 0 THEN crIndex - 1 ELSE IF crLoop THEN crSnaps - 1 ELSE 0)
ScrollNext == Selects(IF crIndex + 1 < crSnaps THEN crIndex + 1
                      ELSE IF crLoop THEN 0 ELSE crIndex)

\* The buttons are as the flags say, the arrow keys work in any case.
PreviousClicked == crPrev /\ ScrollPrev
NextClicked == crNext /\ ScrollNext
ArrowPressed == ScrollPrev \/ ScrollNext

\* A swipe, or the parent with its api.
Scrolled(index) == (crGiven \/ crPhase = "subscribed") /\ Selects(index)

\* The children of CarouselContent change.
SlidesChange ==
    /\ crSlides' \in 1..MaxSlides
    /\ UNCHANGED <<crLoop, crPhase, crSnaps, crIndex, crPrev, crNext, crGiven>>

\* The library notices, measures again and reports it.
ReInit ==
    /\ crPhase # "mounted" /\ crSnaps # crSlides
    /\ crSnaps' = crSlides /\ crIndex' = Clamped(crIndex, crSlides)
    /\ IF crPhase = "subscribed" THEN OnSelect(crSlides, crIndex') ELSE UNCHANGED <<crPrev, crNext>>
    /\ UNCHANGED <<crLoop, crPhase, crSlides, crGiven>>

CrNext ==
    \/ Created \/ ReInit \/ SlidesChange
    \/ \E i \in 0..(crSnaps - 1) : Subscribed(i) \/ Scrolled(i)
    \/ PreviousClicked \/ NextClicked \/ ArrowPressed

-----------------------------------------------------------------------------
(* Properties *)

\* The buttons are enabled exactly when the library can scroll their way,
\* whether a click, a key, a swipe, the parent or a change of the slides moved
\* it, also when the parent scrolled before the component listened (onSelect).
ButtonsMatch ==
    crPhase = "subscribed" =>
        crPrev = CanPrev(crSnaps, crIndex) /\ crNext = CanNext(crSnaps, crIndex)
===============================================================================
