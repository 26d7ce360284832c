------------------------------- MODULE KitProofs ------------------------------
(***************************************************************************)
(* What holds of the widgets of the component kit whose state is spread    *)
(* over a component, the library it wraps and the window: the sidebar, the *)
(* carousel and the stack of layers, for any number of slides, of options  *)
(* and of layers on top of each other.                                     *)
(***************************************************************************)
EXTENDS Sidebar, Carousel, Layers, FiniteSetTheorems, TLAPS

-----------------------------------------------------------------------------
(* The carousel *)

CrSpec == CrInit /\ [][CrNext]_crVars

\* What the library measured and selected: nothing before it has the element.
CrInv ==
    /\ crSlides \in 1..MaxSlides
    /\ crPhase \in {"mounted", "created", "subscribed"}
    /\ crSnaps \in Nat /\ crIndex \in Nat
    /\ IF crPhase = "mounted" THEN crIndex = 0 ELSE crIndex < crSnaps
    /\ ButtonsMatch

\* The library always has a slide selected, and a listener knows which.
LEMMA CarouselStep ==
    ASSUME CrInv, [CrNext]_crVars
    PROVE  CrInv'
<1> USE CarouselBound DEF CrInv, ButtonsMatch, CanPrev, CanNext, OnSelect
<1>1. CASE Created
  BY <1>1 DEF Created
<1>2. CASE ReInit
  BY <1>2 DEF ReInit, Clamped
<1>3. CASE SlidesChange
  BY <1>3 DEF SlidesChange
<1>4. ASSUME NEW i \in 0..(crSnaps - 1), Subscribed(i)
      PROVE  CrInv'
  BY <1>4 DEF Subscribed
<1>5. ASSUME NEW i, Selects(i)
      PROVE  CrInv'
  BY <1>5 DEF Selects
<1>6. CASE PreviousClicked \/ NextClicked \/ ArrowPressed
  BY <1>5, <1>6 DEF PreviousClicked, NextClicked, ArrowPressed, ScrollPrev, ScrollNext
<1>7. CASE \E i \in 0..(crSnaps - 1) : Scrolled(i)
  BY <1>5, <1>7 DEF Scrolled
<1>8. CASE UNCHANGED crVars
  BY <1>8 DEF crVars
<1>9. QED BY <1>1, <1>2, <1>3, <1>4, <1>6, <1>7, <1>8 DEF CrNext

\* The buttons say what the library can do, whatever moved it and however often
\* the slides changed before it noticed (carousel.tsx, onSelect and its effects).
THEOREM ButtonsFollow == CrSpec => []ButtonsMatch
<1>1. CrInit => CrInv
  BY CarouselBound DEF CrInit, CrInv, ButtonsMatch
<1>2. CrInv => ButtonsMatch
  BY DEF CrInv
<1>3. QED BY <1>1, <1>2, CarouselStep, PTL DEF CrSpec

-----------------------------------------------------------------------------
(* The sidebar *)

SbSpec == SbInit /\ [][SbNext]_sbVars

\* Who owns the open flag, and what was measured and rendered of the window.
SbInv ==
    /\ sbKind \in {"offcanvas", "icon", "none"}
    /\ sbInner \in BOOLEAN /\ sbOpenMobile \in BOOLEAN
    /\ IF sbParent = Nil THEN sbProp = Nil ELSE sbProp \in BOOLEAN
    /\ sbParent \in {Nil, "follows", "refuses"}
    /\ sbNarrow \in BOOLEAN /\ sbSeenMobile \in BOOLEAN
    /\ sbIsMobile \in BOOLEAN \cup {Nil}
    /\ CookieIsState

\* The state is set from what the last rendering saw, and the cookie with it.
LEMMA ToggleStep ==
    ASSUME SbInv, NEW times \in {1, 2}, SbToggle(times)
    PROVE  SbInv'
<1>1. CASE sbSeenMobile
  BY <1>1 DEF SbToggle, SbInv, CookieIsState, SbOpen, sbFixed
<1>2. CASE ~sbSeenMobile
  <2>1. SbOpen \in BOOLEAN
    BY NilIsNoFlag DEF SbOpen, SbInv
  <2>2. CASE sbParent = Nil
    BY <1>2, <2>1, <2>2 DEF SbToggle, SetOpen, SbInv, CookieIsState, SbOpen, sbFixed
  <2>3. CASE sbParent # Nil
    BY <1>2, <2>1, <2>3 DEF SbToggle, SetOpen, SbInv, CookieIsState, sbFixed
  <2>4. QED BY <2>2, <2>3
<1>3. QED BY <1>1, <1>2

\* Every step of the sidebar keeps what is known of its flags.
LEMMA SidebarStep ==
    ASSUME SbInv, [SbNext]_sbVars
    PROVE  SbInv'
<1> USE DEF SbInv, CookieIsState, SbOpen, sbFixed
<1>1. CASE RailClicked \/ KeyPressed \/ TriggerClicked
  BY <1>1, ToggleStep DEF RailClicked, KeyPressed, TriggerClicked
<1>2. CASE SheetDismissed
  BY <1>2 DEF SheetDismissed
<1>3. CASE \E value \in BOOLEAN : ParentSets(value)
  BY <1>3 DEF ParentSets
<1>4. CASE Resize
  BY <1>4 DEF Resize
<1>5. CASE Measured
  BY <1>5 DEF Measured
<1>6. CASE Rendered
  BY <1>6 DEF Rendered
<1>7. CASE SbReload
  BY <1>7 DEF SbReload
<1>8. CASE UNCHANGED sbVars
  BY <1>8 DEF sbVars
<1>9. QED BY <1>1, <1>2, <1>3, <1>4, <1>5, <1>6, <1>7, <1>8 DEF SbNext

\* What the parts show, from the flags.
LEMMA EntriesNamed == SbInv => EntriesAreNamed
<1> SUFFICES ASSUME SbInv PROVE EntriesAreNamed
  OBVIOUS
<1> USE DEF SbInv, EntriesAreNamed, OnScreen, TextShown, AddonsShown, LabelsShown, IconOnly,
            TooltipHidden, SbState
<1>1. CASE sbKind = "none"
  BY <1>1 DEF Screen
<1>2. CASE sbKind # "none" /\ sbSeenMobile
  BY <1>2 DEF Screen
<1>3. CASE sbKind # "none" /\ ~sbSeenMobile
  BY <1>3 DEF Screen
<1>4. QED BY <1>1, <1>2, <1>3

\* The entries can be told in every state, and the cookie says the last state
\* (sidebar.tsx, SidebarMenuButton and setOpen).
THEOREM SidebarIsNamed == SbSpec => []SidebarHolds
<1>1. SbInit => SbInv
  BY DEF SbInit, SbInv, CookieIsState
<1>2. SbInv => SidebarHolds
  BY EntriesNamed DEF SidebarHolds, SbInv
<1>3. QED BY <1>1, <1>2, SidebarStep, PTL DEF SbSpec

\* One toggle turns the flag that decides what is shown.
LEMMA ToggleShows ==
    ASSUME SbInv, SbToggle(1), sbKind # "none", sbParent # "refuses" \/ sbNarrow,
           sbIsMobile = sbNarrow, sbSeenMobile = sbNarrow
    PROVE  Screen' # Screen
<1>1. CASE sbNarrow
  <2>1. sbOpenMobile' = ~sbOpenMobile /\ sbSeenMobile' /\ sbSeenMobile /\ sbKind' = sbKind
    BY <1>1 DEF SbToggle, sbFixed
  <2>2. QED BY <2>1 DEF Screen, SbInv
<1>2. CASE ~sbNarrow
  <2>1. /\ SetOpen(~SbOpen) /\ ~sbNarrow' /\ ~sbSeenMobile /\ ~sbSeenMobile'
        /\ sbKind' = sbKind
    BY <1>2 DEF SbToggle, sbFixed, SbInv
  <2>2. SbOpen \in BOOLEAN
    BY NilIsNoFlag DEF SbOpen, SbInv
  <2>3. SbOpen' = ~SbOpen
    <3>1. CASE sbParent = Nil
      BY <2>1, <2>2, <3>1 DEF SetOpen, SbOpen, SbInv
    <3>2. CASE sbParent # Nil
      BY <1>2, <2>1, <2>2, <3>2, NilIsNoFlag DEF SetOpen, SbOpen, SbInv
    <3>3. QED BY <3>1, <3>2
  <2>4. QED BY <1>2, <2>1, <2>2, <2>3 DEF Screen, SbInv
<1>3. QED BY <1>1, <1>2 DEF SbInv

\* A toggle is seen, on a narrow screen and on a wide one (toggleSidebar).
THEOREM TogglesAreSeen == SbSpec => ToggleIsSeen
<1>1. SbInit => SbInv
  BY DEF SbInit, SbInv, CookieIsState
<1>2. ASSUME SbInv, [SbNext]_sbVars
      PROVE  [sbLast' = "toggle" /\ sbKind # "none" /\ (sbParent # "refuses" \/ sbNarrow)
                /\ sbIsMobile = sbNarrow /\ sbSeenMobile = sbNarrow
                => Screen' # Screen]_sbVars
  <2> SUFFICES ASSUME SbNext, sbLast' = "toggle"
               PROVE  SbToggle(1)
    BY <1>2, ToggleShows
  <2>1. sbLast' # "other" /\ sbLast' # "twice"
    OBVIOUS
  <2>2. \A times \in {1, 2} : SbToggle(times) => times = 1
    BY <2>1 DEF SbToggle
  <2>3. QED BY <2>1, <2>2 DEF SbNext, RailClicked, KeyPressed, TriggerClicked, SheetDismissed,
               ParentSets, Resize, Measured, Rendered, SbReload
<1>3. QED BY <1>1, <1>2, SidebarStep, PTL DEF SbSpec, ToggleIsSeen

-----------------------------------------------------------------------------
(* Layers on top of each other *)

LySpec == LyInit /\ [][LyNext]_lyVars

Parts == {"close", "footer", "cancel", "action", "modal", "trap", "handle"}
LyLayer == [kind : Kinds, root : BOOLEAN, parts : SUBSET Parts]

\* A root is opened on surfaces only, a sub menu on a menu, and on top is the tree
\* of the last root.
RootFits(stack, j) ==
    IF stack[j].root THEN \A i \in 1..(j - 1) : stack[i].kind \in Surfaces
    ELSE j > 1 /\ stack[j].kind \in MenuKinds /\ stack[j - 1].kind \in MenuKinds
LastRoot(stack, m) ==
    m \in 1..Len(stack) /\ stack[m].root /\ \A j \in (m + 1)..Len(stack) : ~stack[j].root
Fits(stack) ==
    /\ stack \in Seq(LyLayer)
    /\ \A j \in 1..Len(stack) : RootFits(stack, j)
    /\ Len(stack) > 0 => \E m \in 1..Len(stack) : LastRoot(stack, m)

LyInv == lyKinds \subseteq Kinds /\ Fits(lyStack)

\* Every alert of the one stack is in the other.
KeepsAlerts(old, new) ==
    \A i \in 1..Len(old) : old[i].kind = "alert" => i <= Len(new) /\ new[i].kind = "alert"

\* The first n elements of a sequence.
LEMMA Prefix ==
    ASSUME NEW S, NEW s \in Seq(S), NEW n \in 0..Len(s)
    PROVE  /\ SubSeq(s, 1, n) \in Seq(S) /\ Len(SubSeq(s, 1, n)) = n
           /\ \A i \in 1..n : SubSeq(s, 1, n)[i] = s[i]
OBVIOUS

\* Surfaces are roots.
LEMMA SurfacesAreRoots ==
    ASSUME NEW stack, Fits(stack), NEW j \in 1..Len(stack), stack[j].kind \in Surfaces
    PROVE  stack[j].root
<1>1. stack[j].kind \notin MenuKinds
  BY DEF MenuKinds, Surfaces
<1>2. QED BY <1>1 DEF Fits, RootFits

\* What is left of a stack when its upper layers go fits as it did.
LEMMA LowerFits ==
    ASSUME NEW stack, Fits(stack), NEW lower \in Seq(LyLayer), Len(lower) <= Len(stack),
           \A i \in 1..Len(lower) : lower[i] = stack[i]
    PROVE  Fits(lower)
<1>1. stack \in Seq(LyLayer) /\ Len(stack) \in Nat /\ Len(lower) \in Nat
  BY DEF Fits
<1>2. ASSUME NEW j \in 1..Len(lower)
      PROVE  RootFits(lower, j)
  <2>1. j \in 1..Len(stack) /\ RootFits(stack, j) /\ lower[j] = stack[j]
    BY <1>1 DEF Fits
  <2>2. \A i \in 1..(j - 1) : lower[i] = stack[i]
    BY <1>1
  <2>3. j > 1 => lower[j - 1] = stack[j - 1]
    BY <2>2
  <2>4. QED BY <2>1, <2>2, <2>3 DEF RootFits
<1>3. ASSUME Len(lower) > 0
      PROVE  \E m \in 1..Len(lower) : LastRoot(lower, m)
  <2>1. PICK m \in 1..Len(stack) : LastRoot(stack, m)
    BY <1>1, <1>3 DEF Fits
  <2>2. CASE m <= Len(lower)
    <3>1. m \in 1..Len(lower) /\ lower[m] = stack[m]
      BY <1>1, <2>2
    <3>2. \A j \in (m + 1)..Len(lower) : j \in (m + 1)..Len(stack) /\ lower[j] = stack[j]
      BY <1>1, <3>1
    <3>3. QED BY <2>1, <3>1, <3>2 DEF LastRoot
  <2>3. CASE m > Len(lower)
    <3>1. \A i \in 1..(m - 1) : stack[i].kind \in Surfaces
      BY <2>1 DEF Fits, RootFits, LastRoot
    <3>2. Len(lower) \in 1..Len(stack) /\ Len(lower) \in 1..(m - 1)
      BY <1>1, <1>3, <2>3
    <3>3. stack[Len(lower)].root
      BY <3>1, <3>2, SurfacesAreRoots
    <3>4. LastRoot(lower, Len(lower))
      BY <1>1, <3>2, <3>3 DEF LastRoot
    <3>5. QED BY <1>1, <3>2, <3>4
  <2>4. QED BY <1>1, <2>2, <2>3
<1>4. QED BY <1>2, <1>3 DEF Fits

\* Without its top layer a stack is as it was below.
LEMMA FrontFits ==
    ASSUME NEW stack, Fits(stack), stack # <<>>
    PROVE  /\ Fits(Front(stack))
           /\ Len(Front(stack)) = Len(stack) - 1
           /\ \A i \in 1..(Len(stack) - 1) : Front(stack)[i] = stack[i]
           /\ Len(stack) \in Nat \ {0}
           /\ Last(stack) = stack[Len(stack)] /\ Last(stack) \in LyLayer
<1>1. stack \in Seq(LyLayer) /\ Len(stack) \in Nat \ {0}
  BY DEF Fits
<1>2. Front(stack) = SubSeq(stack, 1, Len(stack) - 1)
  BY DEF Front
<1>3. /\ Front(stack) \in Seq(LyLayer)
      /\ Len(Front(stack)) = Len(stack) - 1
      /\ \A i \in 1..(Len(stack) - 1) : Front(stack)[i] = stack[i]
  <2>1. Len(stack) - 1 \in 0..Len(stack)
    BY <1>1
  <2>2. /\ SubSeq(stack, 1, Len(stack) - 1) \in Seq(LyLayer)
        /\ Len(SubSeq(stack, 1, Len(stack) - 1)) = Len(stack) - 1
        /\ \A i \in 1..(Len(stack) - 1) : SubSeq(stack, 1, Len(stack) - 1)[i] = stack[i]
    BY <1>1, <2>1, Prefix
  <2>3. QED BY <1>2, <2>2
<1>4. Last(stack) = stack[Len(stack)] /\ Last(stack) \in LyLayer
  BY <1>1 DEF Last
<1>5. Fits(Front(stack))
  BY <1>1, <1>3, LowerFits
<1>6. QED BY <1>1, <1>3, <1>4, <1>5

\* The tree on top begins at the last root: below it are surfaces, and within it,
\* up to the top layer, menus.
LEMMA TreeFits ==
    ASSUME NEW stack, Fits(stack), stack # <<>>
    PROVE  \E m \in 1..Len(stack) :
              /\ Fits(BelowTree(stack)) /\ Len(BelowTree(stack)) = m - 1
              /\ \A i \in 1..(m - 1) : BelowTree(stack)[i] = stack[i]
              /\ \A i \in 1..(m - 1) : stack[i].kind \in Surfaces
              /\ \A i \in m..Len(stack) : i = Len(stack) \/ stack[i].kind \in MenuKinds
<1>1. stack \in Seq(LyLayer) /\ Len(stack) \in Nat \ {0}
  BY DEF Fits
<1>2. PICK m \in 1..Len(stack) : LastRoot(stack, m)
  BY <1>1 DEF Fits
<1>3. Max({i \in 1..Len(stack) : stack[i].root}) = m
  <2>1. /\ m \in {i \in 1..Len(stack) : stack[i].root}
        /\ \A i \in {i \in 1..Len(stack) : stack[i].root} : m >= i
    BY <1>1, <1>2 DEF LastRoot
  <2>2. \A i \in {i \in 1..Len(stack) : stack[i].root} : i \in Nat
    OBVIOUS
  <2>3. QED BY <2>1, <2>2 DEF Max
<1>4. BelowTree(stack) = SubSeq(stack, 1, m - 1)
  BY <1>3 DEF BelowTree
<1>5. \A i \in 1..(m - 1) : stack[i].kind \in Surfaces
  BY <1>2 DEF Fits, RootFits, LastRoot
<1>6. ASSUME NEW i \in m..Len(stack), i # Len(stack)
      PROVE  stack[i].kind \in MenuKinds
  <2>1. i + 1 \in 1..Len(stack) /\ i + 1 \in (m + 1)..Len(stack) /\ (i + 1) - 1 = i
    BY <1>1, <1>2, <1>6
  <2>2. ~stack[i + 1].root
    BY <1>2, <2>1 DEF LastRoot
  <2>3. RootFits(stack, i + 1)
    BY <2>1 DEF Fits
  <2>4. QED BY <2>1, <2>2, <2>3 DEF RootFits
<1>7. /\ BelowTree(stack) \in Seq(LyLayer) /\ Len(BelowTree(stack)) = m - 1
      /\ \A i \in 1..(m - 1) : BelowTree(stack)[i] = stack[i]
  <2>1. m - 1 \in 0..Len(stack)
    BY <1>1
  <2>2. /\ SubSeq(stack, 1, m - 1) \in Seq(LyLayer)
        /\ Len(SubSeq(stack, 1, m - 1)) = m - 1
        /\ \A i \in 1..(m - 1) : SubSeq(stack, 1, m - 1)[i] = stack[i]
    BY <1>1, <2>1, Prefix
  <2>3. QED BY <1>4, <2>2
<1>8. Fits(BelowTree(stack))
  BY <1>1, <1>7, LowerFits
<1>9. QED BY <1>5, <1>6, <1>7, <1>8

\* On top of a stack that fits another layer fits: a root on a surface, a sub menu
\* on a menu.
LEMMA AppendFits ==
    ASSUME NEW stack, Fits(stack), NEW layer \in LyLayer,
           IF layer.root THEN stack = <<>> \/ Last(stack).kind \in Surfaces
           ELSE /\ stack # <<>> /\ Last(stack).kind \in MenuKinds /\ layer.kind \in MenuKinds
    PROVE  /\ Fits(Append(stack, layer))
           /\ \A i \in 1..Len(stack) : i <= Len(Append(stack, layer))
                                        /\ Append(stack, layer)[i] = stack[i]
<1> DEFINE new == Append(stack, layer)  n == Len(stack)
<1>1. /\ stack \in Seq(LyLayer) /\ n \in Nat /\ new \in Seq(LyLayer)
      /\ Len(new) = n + 1 /\ new[n + 1] = layer
      /\ \A i \in 1..n : new[i] = stack[i]
  BY DEF Fits
<1>2. stack # <<>> => Last(stack) = stack[n] /\ n > 0
  BY <1>1 DEF Last
<1>3. stack = <<>> => n = 0
  OBVIOUS
<1> HIDE DEF new
<1>4. ASSUME NEW j \in 1..(n + 1)
      PROVE  RootFits(new, j)
  <2>1. CASE j \in 1..n
    <3>1. RootFits(stack, j) /\ new[j] = stack[j]
      BY <1>1, <2>1 DEF Fits
    <3>2. \A i \in 1..(j - 1) : new[i] = stack[i]
      BY <1>1, <2>1
    <3>3. j > 1 => new[j - 1] = stack[j - 1]
      BY <3>2
    <3>4. QED BY <3>1, <3>2, <3>3 DEF RootFits
  <2>2. CASE j = n + 1 /\ layer.root
    <3>1. CASE n = 0
      BY <1>1, <2>2, <3>1 DEF RootFits
    <3>2. CASE n > 0
      <4>1. stack[n].kind \in Surfaces /\ n \in 1..n
        <5>1. stack # <<>>
          BY <1>1, <3>2
        <5>2. Last(stack).kind \in Surfaces
          BY <2>2, <5>1
        <5>3. QED BY <1>1, <1>2, <3>2, <5>1, <5>2
      <4>2. \A i \in 1..(n - 1) : stack[i].kind \in Surfaces
        <5>1. stack[n].root
          BY <4>1, SurfacesAreRoots
        <5>2. QED BY <4>1, <5>1 DEF Fits, RootFits
      <4>3. \A i \in 1..n : stack[i].kind \in Surfaces
        BY <1>1, <4>1, <4>2
      <4>4. QED BY <1>1, <2>2, <4>3 DEF RootFits
    <3>3. QED BY <1>1, <3>1, <3>2
  <2>3. CASE j = n + 1 /\ ~layer.root
    BY <1>1, <1>2, <2>3 DEF RootFits
  <2>4. QED BY <1>1, <2>1, <2>2, <2>3
<1>5. \E m \in 1..Len(new) : LastRoot(new, m)
  <2>1. CASE layer.root
    BY <1>1, <2>1 DEF LastRoot
  <2>2. CASE ~layer.root
    <3>1. PICK m \in 1..n : LastRoot(stack, m)
      BY <1>1, <1>2, <2>2 DEF Fits
    <3>2. m \in 1..Len(new) /\ new[m] = stack[m]
      BY <1>1
    <3>3. \A j \in (m + 1)..Len(new) : ~new[j].root
      <4>1. ASSUME NEW j \in (m + 1)..Len(new) PROVE ~new[j].root
        <5>1. j \in (m + 1)..n \/ j = n + 1
          BY <1>1
        <5>2. QED BY <1>1, <2>2, <3>1, <5>1 DEF LastRoot
      <4>2. QED BY <4>1
    <3>4. QED BY <3>1, <3>2, <3>3 DEF LastRoot
  <2>3. QED BY <2>1, <2>2
<1>6. Fits(new)
  BY <1>1, <1>4, <1>5 DEF Fits
<1>7. QED BY <1>1, <1>6 DEF new

\* Settling takes a hint away from the top, and never an alert.
LEMMA SettledFits ==
    ASSUME LyInv
    PROVE  /\ Fits(Settled) /\ KeepsAlerts(lyStack, Settled)
           /\ Settled # <<>> => Last(Settled) \in LyLayer
<1>1. CASE lyStack # <<>> /\ Last(lyStack).kind \in Hints
  <2>1. Settled = Front(lyStack)
    BY <1>1 DEF Settled
  <2>2. /\ Fits(Front(lyStack)) /\ Len(Front(lyStack)) = Len(lyStack) - 1
        /\ \A i \in 1..(Len(lyStack) - 1) : Front(lyStack)[i] = lyStack[i]
        /\ Len(lyStack) \in Nat \ {0} /\ Last(lyStack) = lyStack[Len(lyStack)]
    BY <1>1, FrontFits DEF LyInv
  <2>3. lyStack[Len(lyStack)].kind # "alert"
    BY <1>1, <2>2 DEF Hints
  <2>4. KeepsAlerts(lyStack, Front(lyStack))
    BY <2>2, <2>3 DEF KeepsAlerts
  <2>5. QED BY <2>1, <2>2, <2>4, FrontFits
<1>2. CASE ~(lyStack # <<>> /\ Last(lyStack).kind \in Hints)
  <2>1. Settled = lyStack /\ Fits(lyStack)
    BY <1>2 DEF Settled, LyInv
  <2>2. KeepsAlerts(lyStack, lyStack)
    BY <2>1 DEF KeepsAlerts, Fits
  <2>3. QED BY <2>1, <2>2, FrontFits
<1>3. QED BY <1>1, <1>2

\* A layer on top that is no alert goes, alone or with its tree: below the tree
\* are surfaces, and the alerts are where they were.
LEMMA LowerKeeps ==
    ASSUME LyInv, Settled # <<>>
    PROVE  /\ Fits(BelowTop(Settled)) /\ Fits(BelowTree(Settled))
           /\ Last(Settled).kind # "alert" => /\ KeepsAlerts(lyStack, BelowTop(Settled))
                                             /\ KeepsAlerts(lyStack, BelowTree(Settled))
           /\ BelowTree(Settled) # <<>> => Last(BelowTree(Settled)).kind \in Surfaces
           /\ \A i \in 1..Len(BelowTree(Settled)) : BelowTree(Settled)[i].kind \notin MenuKinds
<1> DEFINE top == BelowTop(Settled)  tree == BelowTree(Settled)
<1>1. Fits(Settled) /\ KeepsAlerts(lyStack, Settled) /\ lyStack \in Seq(LyLayer)
  BY SettledFits DEF LyInv, Fits
<1>2. /\ Fits(top) /\ Len(top) = Len(Settled) - 1 /\ Len(Settled) \in Nat \ {0}
      /\ \A i \in 1..(Len(Settled) - 1) : top[i] = Settled[i]
      /\ Last(Settled) = Settled[Len(Settled)]
  BY <1>1, FrontFits DEF BelowTop
<1>3. PICK m \in 1..Len(Settled) :
         /\ Fits(tree) /\ Len(tree) = m - 1
         /\ \A i \in 1..(m - 1) : tree[i] = Settled[i]
         /\ \A i \in 1..(m - 1) : Settled[i].kind \in Surfaces
         /\ \A i \in m..Len(Settled) : i = Len(Settled) \/ Settled[i].kind \in MenuKinds
  BY <1>1, TreeFits
<1> HIDE DEF top, tree
<1>4. ASSUME Last(Settled).kind # "alert", NEW i \in 1..Len(lyStack), lyStack[i].kind = "alert"
      PROVE  i <= Len(top) /\ top[i].kind = "alert" /\ i <= Len(tree) /\ tree[i].kind = "alert"
  <2>1. i \in 1..Len(Settled) /\ Settled[i].kind = "alert"
    BY <1>1, <1>2, <1>4 DEF KeepsAlerts
  <2>2. i # Len(Settled)
    BY <1>2, <1>4, <2>1
  <2>3. Settled[i].kind \notin MenuKinds
    BY <2>1 DEF MenuKinds
  <2>4. i \in 1..(m - 1) /\ i \in 1..(Len(Settled) - 1)
    BY <1>2, <1>3, <2>1, <2>2, <2>3
  <2>5. QED BY <1>2, <1>3, <2>1, <2>4
<1>5. \A i \in 1..Len(tree) : tree[i].kind \in Surfaces
  BY <1>3
<1>6. \A kind \in Surfaces : kind \notin MenuKinds
  BY DEF Surfaces, MenuKinds
<1>7. tree # <<>> => Last(tree).kind \in Surfaces
  <2>1. tree # <<>> => Last(tree) = tree[Len(tree)] /\ Len(tree) \in Nat \ {0}
    BY <1>3, FrontFits
  <2>2. QED BY <1>5, <2>1
<1>8. Last(Settled).kind # "alert" => KeepsAlerts(lyStack, top) /\ KeepsAlerts(lyStack, tree)
  BY <1>4 DEF KeepsAlerts
<1>9. QED BY <1>2, <1>3, <1>5, <1>6, <1>7, <1>8 DEF top, tree

\* A layer on top of what was settled keeps every alert.
LEMMA AppendKeeps ==
    ASSUME LyInv, NEW stack, Fits(stack), KeepsAlerts(lyStack, stack), NEW layer \in LyLayer,
           IF layer.root THEN stack = <<>> \/ Last(stack).kind \in Surfaces
           ELSE /\ stack # <<>> /\ Last(stack).kind \in MenuKinds /\ layer.kind \in MenuKinds
    PROVE  Fits(Append(stack, layer)) /\ KeepsAlerts(lyStack, Append(stack, layer))
<1>1. /\ Fits(Append(stack, layer))
      /\ \A i \in 1..Len(stack) : i <= Len(Append(stack, layer))
                                   /\ Append(stack, layer)[i] = stack[i]
  BY AppendFits
<1>2. ASSUME NEW i \in 1..Len(lyStack), lyStack[i].kind = "alert"
      PROVE  i <= Len(Append(stack, layer)) /\ Append(stack, layer)[i].kind = "alert"
  <2>1. i <= Len(stack) /\ stack[i].kind = "alert" /\ Len(stack) \in Nat
    BY <1>2 DEF KeepsAlerts, Fits
  <2>2. i \in 1..Len(stack)
    BY <2>1, <1>2
  <2>3. QED BY <1>1, <2>1, <2>2
<1>3. QED BY <1>1, <1>2 DEF KeepsAlerts

\* What a step leaves of the layers and of the value of a combobox.
StackMoves ==
    /\ lyKinds' = lyKinds /\ Fits(lyStack')
    /\ lyCause' = "item" => \A i \in 1..Len(lyStack') : lyStack'[i].kind \notin MenuKinds
    /\ KeepsAlerts(lyStack, lyStack') \/ lyCause' \in {"cancel", "escape", "owner"}
ValueMoves == lyDisabled /\ ~On({"combobox"}) /\ ~lyField.chips => lyPicked' = lyPicked

\* A layer is opened: on the page or on a surface, or a sub menu on its menu.
LEMMA OpenedStep ==
    ASSUME LyInv, NEW kind \in Kinds, NEW root \in BOOLEAN, NEW parts \in SUBSET Parts,
           Opened(kind, root, parts),
           IF root THEN Settled = <<>> \/ On(Surfaces) ELSE On(MenuKinds) /\ kind \in MenuKinds
    PROVE  StackMoves /\ ValueMoves
<1> DEFINE layer == [kind |-> kind, root |-> root, parts |-> parts]
<1>1. /\ lyStack' = Append(Settled, layer) /\ lyKinds' = lyKinds /\ lyCause' = "other"
      /\ lyPicked' = lyPicked
  BY DEF Opened, LyBecomes, lyValues
<1>2. Fits(Settled) /\ KeepsAlerts(lyStack, Settled)
  BY SettledFits
<1>3. layer \in LyLayer /\ layer.root = root /\ layer.kind = kind
  BY DEF LyLayer
<1> HIDE DEF layer
<1>4. IF layer.root THEN Settled = <<>> \/ Last(Settled).kind \in Surfaces
      ELSE /\ Settled # <<>> /\ Last(Settled).kind \in MenuKinds /\ layer.kind \in MenuKinds
  BY <1>3 DEF On
<1>5. Fits(Append(Settled, layer)) /\ KeepsAlerts(lyStack, Append(Settled, layer))
  BY <1>2, <1>3, <1>4, AppendKeeps
<1>6. QED BY <1>1, <1>5 DEF StackMoves, ValueMoves

\* The layer on top is left alone, closed by a part of its own, or closed with its tree.
LEMMA ClosedStep ==
    ASSUME LyInv, lyKinds' = lyKinds,
           \/ lyStack' = Settled /\ lyCause' # "item"
           \/ /\ lyStack' = BelowTop(Settled) /\ Settled # <<>> /\ lyCause' # "item"
              /\ lyCause' # "cancel" => Last(Settled).kind # "alert"
           \/ lyStack' = BelowTree(Settled) /\ Settled # <<>> /\ Last(Settled).kind # "alert"
    PROVE  StackMoves
<1>1. CASE lyStack' = Settled /\ lyCause' # "item"
  BY <1>1, SettledFits DEF StackMoves
<1>2. CASE lyStack' # Settled
  BY <1>2, LowerKeeps DEF StackMoves
<1>3. CASE lyStack' = Settled /\ lyCause' = "item"
  BY <1>3, LowerKeeps DEF StackMoves
<1>4. QED BY <1>1, <1>2, <1>3

\* Layers that open.
LEMMA OpeningStep ==
    ASSUME LyInv,
           \/ DialogOpens \/ SheetOpens \/ AlertOpens \/ DrawerOpens \/ PaletteOpens
           \/ DropdownOpens \/ ContextOpens \/ SelectOpens \/ PopoverOpens
           \/ HoverCardShown \/ TooltipShown
           \/ DropdownSub \/ ContextSub \/ MenubarSub
    PROVE  StackMoves /\ ValueMoves
<1>1. ASSUME NEW kind, NEW parts \in SUBSET Parts, Triggered(kind, parts)
      PROVE  StackMoves /\ ValueMoves
  <2>1. kind \in Kinds /\ Opened(kind, TRUE, parts) /\ (Settled = <<>> \/ On(Surfaces))
    BY <1>1 DEF Triggered, Opened, LyInv
  <2>2. QED BY <2>1, OpenedStep
<1>2. CASE DialogOpens
  BY <1>1, <1>2 DEF DialogOpens, Parts
<1>3. CASE SheetOpens \/ PaletteOpens
  BY <1>1, <1>3 DEF SheetOpens, PaletteOpens, Parts
<1>4. CASE AlertOpens
  BY <1>1, <1>4 DEF AlertOpens, Parts
<1>5. CASE DrawerOpens
  BY <1>1, <1>5 DEF DrawerOpens, Parts
<1>6. CASE DropdownOpens \/ ContextOpens \/ SelectOpens \/ PopoverOpens
  BY <1>1, <1>6 DEF DropdownOpens, ContextOpens, SelectOpens, PopoverOpens
<1>7. CASE HoverCardShown \/ TooltipShown
  <2>1. Triggered("hover", {}) \/ Triggered("tooltip", {})
    BY <1>7 DEF HoverCardShown, TooltipShown, Hinted, Triggered
  <2>2. QED BY <1>1, <2>1
<1>8. ASSUME NEW kind \in MenuKinds, On({kind}), Opened(kind, FALSE, {})
      PROVE  StackMoves /\ ValueMoves
  <2>1. kind \in Kinds /\ On(MenuKinds)
    BY <1>8 DEF On, Kinds
  <2>2. QED BY <1>8, <2>1, OpenedStep
<1>9. CASE DropdownSub \/ ContextSub \/ MenubarSub
  BY <1>8, <1>9 DEF DropdownSub, ContextSub, MenubarSub, MenuKinds
<1>10. QED BY <1>2, <1>3, <1>4, <1>5, <1>6, <1>7, <1>9

\* The menus of the bar: another one opens instead of the one that is open.
LEMMA MenubarStep ==
    ASSUME LyInv, MenubarOpens
    PROVE  StackMoves /\ ValueMoves
<1>1. CASE Triggered("menubar", {})
  <2>1. "menubar" \in Kinds /\ {} \in SUBSET Parts
    BY DEF Kinds, MenuKinds
  <2>2. Opened("menubar", TRUE, {}) /\ (Settled = <<>> \/ On(Surfaces))
    BY <1>1 DEF Triggered
  <2>3. QED BY <2>1, <2>2, OpenedStep
<1>2. CASE ~Triggered("menubar", {})
  <2> DEFINE layer == [kind |-> "menubar", root |-> TRUE, parts |-> {}]
             tree == BelowTree(Settled)
  <2>1. /\ On({"menubar"}) /\ lyStack' = tree \o <<layer>> /\ lyCause' = "other"
        /\ lyKinds' = lyKinds /\ lyPicked' = lyPicked
    BY <1>2 DEF MenubarOpens, LyBecomes, lyValues
  <2>2. Settled # <<>> /\ Last(Settled).kind # "alert"
    BY <2>1 DEF On
  <2>3. /\ Fits(tree) /\ KeepsAlerts(lyStack, tree)
        /\ tree = <<>> \/ Last(tree).kind \in Surfaces
    BY <2>2, LowerKeeps
  <2>4. layer \in LyLayer /\ layer.root
    BY DEF LyLayer, Kinds, MenuKinds
  <2> HIDE DEF tree, layer
  <2>5. tree \o <<layer>> = Append(tree, layer)
    BY <2>3, <2>4 DEF Fits
  <2>6. Fits(Append(tree, layer)) /\ KeepsAlerts(lyStack, Append(tree, layer))
    BY <2>3, <2>4, AppendKeeps
  <2>7. QED BY <2>1, <2>5, <2>6 DEF StackMoves, ValueMoves
<1>3. QED BY <1>1, <1>2

\* Buttons, items and swipes within the layer on top.
LEMMA WithinStep ==
    ASSUME LyInv,
           \/ DialogContent \/ DialogFooter \/ SheetContent \/ PaletteCloses
           \/ AlertCancel \/ AlertAction \/ DrawerSwiped
           \/ DropdownItem \/ ContextItem \/ MenubarItem
           \/ DropdownCheckbox \/ ContextCheckbox \/ MenubarCheckbox
           \/ \E o \in Options : \/ DropdownRadio(o) \/ ContextRadio(o) \/ MenubarRadio(o)
                                 \/ SelectItem(o)
           \/ PaletteTyped \/ PaletteItem \/ HintHidden
    PROVE  StackMoves /\ ValueMoves
<1>1. CASE DialogContent \/ DialogFooter \/ SheetContent \/ PaletteCloses \/ AlertCancel
  <2>1. /\ lyKinds' = lyKinds /\ lyStack' = BelowTop(Settled) /\ Settled # <<>>
        /\ lyCause' # "item" /\ lyPicked' = lyPicked
        /\ lyCause' # "cancel" => Last(Settled).kind # "alert"
    BY <1>1 DEF DialogContent, DialogFooter, SheetContent, PaletteCloses, AlertCancel,
                ClosedBy, On, LyBecomes, lyValues
  <2>2. QED BY <2>1, ClosedStep DEF ValueMoves
<1>2. CASE DrawerSwiped \/ \E o \in Options : SelectItem(o)
  <2>1. /\ lyKinds' = lyKinds /\ lyStack' = BelowTop(Settled) /\ Settled # <<>>
        /\ lyCause' # "item" /\ lyPicked' = lyPicked /\ Last(Settled).kind # "alert"
    BY <1>2 DEF DrawerSwiped, SelectItem, On, LyBecomes, lyValues
  <2>2. QED BY <2>1, ClosedStep DEF ValueMoves
<1>3. CASE DropdownItem \/ ContextItem \/ MenubarItem
  <2>1. /\ lyKinds' = lyKinds /\ lyStack' = BelowTree(Settled) /\ Settled # <<>>
        /\ lyPicked' = lyPicked /\ Last(Settled).kind # "alert"
    BY <1>3 DEF DropdownItem, ContextItem, MenubarItem, Item, On, LyBecomes, lyValues
  <2>2. QED BY <2>1, ClosedStep DEF ValueMoves
<1>4. CASE AlertAction \/ PaletteTyped \/ PaletteItem \/ HintHidden
  <2>1. lyKinds' = lyKinds /\ lyStack' = Settled /\ lyCause' # "item" /\ lyPicked' = lyPicked
    BY <1>4 DEF AlertAction, PaletteTyped, PaletteItem, HintHidden, LyBecomes, lyValues
  <2>2. QED BY <2>1, ClosedStep DEF ValueMoves
<1>5. CASE \/ DropdownCheckbox \/ ContextCheckbox \/ MenubarCheckbox
           \/ \E o \in Options : DropdownRadio(o) \/ ContextRadio(o) \/ MenubarRadio(o)
  <2>1. lyKinds' = lyKinds /\ lyStack' = Settled /\ lyCause' # "item" /\ lyPicked' = lyPicked
    BY <1>5 DEF DropdownCheckbox, ContextCheckbox, MenubarCheckbox, Toggle, DropdownRadio,
                ContextRadio, MenubarRadio, Radio, LyBecomes
  <2>2. QED BY <2>1, ClosedStep DEF ValueMoves
<1>6. QED BY <1>1, <1>2, <1>3, <1>4, <1>5

\* The list of a combobox opens over surfaces only.
LEMMA ListFits ==
    ASSUME LyInv, Typeable
    PROVE  Fits(WithList) /\ KeepsAlerts(lyStack, WithList)
<1>1. CASE On({"combobox"})
  BY <1>1, SettledFits DEF WithList
<1>2. CASE ~On({"combobox"})
  <2> DEFINE layer == [kind |-> "combobox", root |-> TRUE, parts |-> {}]
  <2>1. layer \in LyLayer /\ layer.root
    BY DEF LyLayer, Kinds
  <2>2. WithList = Append(Settled, layer)
    BY <1>2 DEF WithList
  <2>3. Settled = <<>> \/ Last(Settled).kind \in Surfaces
    BY <1>2 DEF Typeable, On
  <2> HIDE DEF layer
  <2>4. QED BY <2>1, <2>2, <2>3, SettledFits, AppendKeeps
<1>3. QED BY <1>1, <1>2

\* The combobox: its list opens and closes, and its value changes by what is on it.
LEMMA ComboStep ==
    ASSUME LyInv,
           \/ ComboTrigger \/ ComboClear \/ ComboInput \/ ComboChipsInput \/ Disabling
           \/ \E o \in Options : ComboItem(o) \/ ComboChip(o)
    PROVE  StackMoves /\ ValueMoves
<1>1. CASE ComboTrigger
  <2>1. lyKinds' = lyKinds /\ lyCause' = "other" /\ lyPicked' = lyPicked /\ Typeable
    BY <1>1 DEF ComboTrigger, ComboValue, LyBecomes
  <2>2. CASE On({"combobox"})
    <3>1. lyStack' = BelowTop(Settled) /\ Settled # <<>> /\ Last(Settled).kind # "alert"
      BY <1>1, <2>2 DEF ComboTrigger, ComboValue, LyBecomes, On
    <3>2. QED BY <2>1, <3>1, ClosedStep DEF ValueMoves
  <2>3. CASE ~On({"combobox"})
    <3>1. lyStack' = WithList
      BY <1>1, <2>3 DEF ComboTrigger, ComboValue, LyBecomes
    <3>2. QED BY <2>1, <3>1, ListFits DEF StackMoves, ValueMoves
  <2>4. QED BY <2>2, <2>3
<1>2. CASE ComboInput \/ ComboChipsInput
  <2>1. /\ lyKinds' = lyKinds /\ lyCause' = "other" /\ lyPicked' = lyPicked /\ Typeable
        /\ lyStack' = WithList
    BY <1>2 DEF ComboInput, ComboChipsInput, ComboValue, LyBecomes
  <2>2. QED BY <2>1, ListFits DEF StackMoves, ValueMoves
<1>3. CASE ComboClear
  <2>1. lyKinds' = lyKinds /\ lyStack' = Settled /\ lyCause' # "item" /\ ~lyDisabled
    BY <1>3 DEF ComboClear, ComboValue, LyBecomes
  <2>2. QED BY <2>1, ClosedStep DEF ValueMoves
<1>4. CASE Disabling
  <2>1. /\ lyKinds' = lyKinds /\ lyStack' = lyStack /\ lyCause' = "other"
        /\ lyPicked' = lyPicked
    BY <1>4 DEF Disabling, LyBecomes
  <2>2. QED BY <2>1 DEF StackMoves, ValueMoves, KeepsAlerts, LyInv
<1>5. ASSUME NEW o \in Options, ComboItem(o)
      PROVE  StackMoves /\ ValueMoves
  <2>1. /\ lyKinds' = lyKinds /\ lyCause' # "item" /\ Settled # <<>>
        /\ Last(Settled).kind # "alert" /\ On({"combobox"})
        /\ lyStack' = Settled \/ lyStack' = BelowTop(Settled)
    BY <1>5 DEF ComboItem, ComboValue, LyBecomes, On
  <2>2. QED BY <2>1, ClosedStep DEF ValueMoves
<1>6. ASSUME NEW o \in Options, ComboChip(o)
      PROVE  StackMoves /\ ValueMoves
  <2>1. lyKinds' = lyKinds /\ lyStack' = Settled /\ lyCause' # "item" /\ lyField.chips
    BY <1>6 DEF ComboChip, ComboValue, LyBecomes
  <2>2. QED BY <2>1, ClosedStep DEF ValueMoves
<1>7. QED BY <1>1, <1>2, <1>3, <1>4, <1>5, <1>6

\* What the library and the owner do.
LEMMA LibraryStep ==
    ASSUME LyInv, Escape \/ OutsidePress \/ PagePress \/ OwnerCloses
    PROVE  StackMoves /\ ValueMoves
<1>1. CASE Escape \/ OwnerCloses
  <2>1. /\ lyKinds' = lyKinds /\ lyCause' \in {"escape", "owner"} /\ lyPicked' = lyPicked
        /\ lyStack # <<>>
        /\ lyStack' = BelowTop(lyStack) \/ lyStack' = BelowTree(lyStack)
    BY <1>1 DEF Escape, OwnerCloses, LyBecomes, lyValues
  <2>2. Fits(BelowTop(lyStack)) /\ Fits(BelowTree(lyStack))
    BY <2>1, FrontFits, TreeFits DEF BelowTop, LyInv
  <2>3. QED BY <2>1, <2>2 DEF StackMoves, ValueMoves
<1>2. CASE OutsidePress
  <2>1. /\ lyKinds' = lyKinds /\ lyStack' = BelowTree(Settled) /\ Settled # <<>>
        /\ Last(Settled).kind # "alert" /\ lyPicked' = lyPicked
    BY <1>2 DEF OutsidePress, LyBecomes, lyValues, On
  <2>2. QED BY <2>1, ClosedStep DEF ValueMoves
<1>3. CASE PagePress
  <2>1. /\ lyKinds' = lyKinds /\ lyStack' = <<>> /\ lyCause' = "page"
        /\ lyPicked' = lyPicked
    BY <1>3 DEF PagePress, LyBecomes, lyValues
  <2>2. DOMAIN lyStack = 1..Len(lyStack)
    BY DEF LyInv, Fits
  <2>3. \A i \in 1..Len(lyStack) : lyStack[i].kind # "alert"
    BY <1>3, <2>2 DEF PagePress, Covered, Covers
  <2>4. Fits(<<>>) /\ KeepsAlerts(lyStack, <<>>)
    BY <2>3 DEF Fits, KeepsAlerts
  <2>5. QED BY <2>1, <2>4 DEF StackMoves, ValueMoves
<1>4. QED BY <1>1, <1>2, <1>3

\* Every step of the layers.
LEMMA LayersStep ==
    ASSUME LyInv, LyNext
    PROVE  StackMoves /\ ValueMoves
BY OpeningStep, MenubarStep, WithinStep, ComboStep, LibraryStep DEF LyNext

\* A stack that keeps every alert has no fewer of them.
LEMMA AlertsCounted ==
    ASSUME NEW old, Fits(old), NEW new, Fits(new), KeepsAlerts(old, new)
    PROVE  ~(Alerts(new) < Alerts(old))
<1> DEFINE In(stack) == {i \in DOMAIN stack : stack[i].kind = "alert"}
<1>1. /\ DOMAIN old = 1..Len(old) /\ DOMAIN new = 1..Len(new)
      /\ Len(old) \in Nat /\ Len(new) \in Nat
  BY DEF Fits
<1>2. In(old) \subseteq In(new)
  BY <1>1 DEF KeepsAlerts
<1>3. IsFiniteSet(In(new))
  <2>1. IsFiniteSet(1..Len(new))
    BY <1>1, FS_Interval
  <2>2. In(new) \subseteq 1..Len(new)
    BY <1>1
  <2>3. QED BY <2>1, <2>2, FS_Subset
<1>4. /\ Cardinality(In(old)) \in Nat /\ Cardinality(In(new)) \in Nat
      /\ Cardinality(In(old)) <= Cardinality(In(new))
  BY <1>2, <1>3, FS_Subset, FS_CardinalityType
<1>5. Alerts(old) = Cardinality(In(old)) /\ Alerts(new) = Cardinality(In(new))
  BY DEF Alerts
<1>6. QED BY <1>4, <1>5

\* An item closes every menu above the page, an alert is left by an answer, and a
\* disabled combobox keeps its value, for any number of layers (dropdown-menu.tsx,
\* context-menu.tsx, menubar.tsx, alert-dialog.tsx, combobox.tsx).
THEOREM LayersAreKept == LySpec => LayersHold
<1>1. LyInit => LyInv
  <2>1. Fits(<<>>)
    BY DEF Fits
  <2>2. \A surface \in Surfaces, kind \in Kinds : {surface, kind} \subseteq Kinds
    BY DEF Kinds
  <2>3. QED BY <2>1, <2>2 DEF LyInit, LyInv
<1>2. LyInv /\ [LyNext]_lyVars => LyInv'
  <2>1. ASSUME LyInv, LyNext PROVE LyInv'
    BY <2>1, LayersStep DEF StackMoves, LyInv
  <2>2. ASSUME LyInv, UNCHANGED lyVars PROVE LyInv'
    BY <2>2 DEF lyVars, LyInv
  <2>3. QED BY <2>1, <2>2
<1>3. LyInv /\ [LyNext]_lyVars =>
        [lyCause' = "item" => \A i \in DOMAIN lyStack' : lyStack'[i].kind \notin MenuKinds]_lyVars
  <2> SUFFICES ASSUME LyInv, LyNext, lyCause' = "item"
               PROVE  \A i \in DOMAIN lyStack' : lyStack'[i].kind \notin MenuKinds
    OBVIOUS
  <2>1. StackMoves
    BY LayersStep
  <2>2. DOMAIN lyStack' = 1..Len(lyStack')
    BY <2>1 DEF StackMoves, Fits
  <2>3. QED BY <2>1, <2>2 DEF StackMoves
<1>4. LyInv /\ [LyNext]_lyVars =>
        [Alerts(lyStack') < Alerts(lyStack)
           => lyCause' \in {"cancel", "escape", "owner"}]_lyVars
  <2> SUFFICES ASSUME LyInv, LyNext, Alerts(lyStack') < Alerts(lyStack)
               PROVE  lyCause' \in {"cancel", "escape", "owner"}
    OBVIOUS
  <2>1. StackMoves
    BY LayersStep
  <2>2. KeepsAlerts(lyStack, lyStack') => FALSE
    BY <2>1, AlertsCounted DEF StackMoves, LyInv
  <2>3. QED BY <2>1, <2>2 DEF StackMoves
<1>5. LyInv /\ [LyNext]_lyVars =>
        [lyDisabled /\ ~On({"combobox"}) /\ ~lyField.chips => lyPicked' = lyPicked]_lyVars
  BY LayersStep DEF ValueMoves
<1>6. QED BY <1>1, <1>2, <1>3, <1>4, <1>5, PTL
         DEF LySpec, LayersHold, ChosenClosesMenus, AlertIsAnswered, DisabledStays
===============================================================================
