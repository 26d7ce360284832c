-------------------------------- MODULE Sidebar -------------------------------
(***************************************************************************)
(* The collapsible sidebar of the component kit (ui/components/ui/         *)
(* sidebar.tsx) and the breakpoint it follows (ui/hooks/use-mobile.ts).    *)
(*                                                                         *)
(* A wide window has a panel that expands and collapses, a narrow one a    *)
(* sheet; each has its own open flag, and one toggle serves both.  A click *)
(* or key is handled with what the last rendering saw, and rendered at     *)
(* once; the change of the breakpoint is measured and rendered later.      *)
(***************************************************************************)
EXTENDS Browser

ASSUME NilIsNoFlag == Nil \notin BOOLEAN

VARIABLES
    sbKind,        \* collapsible: "offcanvas", "icon" or "none"
    sbParent,      \* the owner of open: Nil, or one that "follows" or "refuses"
    sbInner,       \* _open
    sbProp,        \* the open prop, Nil when the component owns the state
    sbOpenMobile,  \* openMobile
    sbIsMobile,    \* isMobile, Nil before the first effect
    sbSeenMobile,  \* isMobile of the last rendering
    sbNarrow,      \* the window is narrower than the breakpoint
    sbCookie,      \* the cookie, Nil without one
    sbWritten,     \* observer: it was written since the page was loaded
    sbLast         \* observer: "toggle", "twice" or "other"

sbVars == <<sbKind, sbParent, sbInner, sbProp, sbOpenMobile, sbIsMobile, sbSeenMobile,
            sbNarrow, sbCookie, sbWritten, sbLast>>
sbFixed == <<sbKind, sbParent>>

\* defaultOpen; a parent begins with it as well.
SbInit ==
    /\ sbKind \in {"offcanvas", "icon", "none"}
    /\ sbParent \in {Nil, "follows", "refuses"}
    /\ sbInner = TRUE /\ sbProp = (IF sbParent = Nil THEN Nil ELSE TRUE)
    /\ sbOpenMobile = FALSE
    /\ sbIsMobile = Nil /\ sbSeenMobile = FALSE /\ sbNarrow \in BOOLEAN
    /\ sbCookie = Nil /\ sbWritten = FALSE /\ sbLast = "other"

\* openProp ?? _open, and the state the parts are styled by.
SbOpen == IF sbProp # Nil THEN sbProp ELSE sbInner
SbState == IF SbOpen THEN "expanded" ELSE "collapsed"

-----------------------------------------------------------------------------
(* What is on the screen *)

\* The plain column, the sheet, or the panel, which a narrow window hides.
Screen ==
    CASE sbKind = "none" -> "plain"
      [] sbKind # "none" /\ sbSeenMobile -> IF sbOpenMobile THEN "sheet" ELSE "nothing"
      [] OTHER -> IF sbNarrow THEN "nothing" ELSE IF SbOpen THEN "expanded" ELSE sbKind

\* The panel shrunk to its icons.
IconOnly == Screen = "icon"
OnScreen == Screen \notin {"nothing", "offcanvas"}

\* What a panel of icons hides: the labels and actions of groups, then what
\* hangs on an entry: its action, its badge and its sub menu.
LabelsShown == OnScreen /\ ~IconOnly
AddonsShown == OnScreen /\ ~IconOnly
\* The text of an entry is cut off by the width of an icon.
TextShown == OnScreen /\ ~IconOnly

\* hidden={state !== 'collapsed' || isMobile}
TooltipHidden == SbState # "collapsed" \/ sbSeenMobile

-----------------------------------------------------------------------------
(* Toggling *)

\* Faulty variant of SetOpen: the cookie gets the value of the last rendering.
SetOpenLate(value) ==
    /\ IF sbParent = Nil THEN sbInner' = value /\ UNCHANGED sbProp
       ELSE /\ sbProp' = IF sbParent = "follows" THEN value ELSE sbProp
            /\ UNCHANGED sbInner
    /\ sbCookie' = SbOpen /\ sbWritten' = TRUE

\* setOpen: the parent or the component changes, and the cookie is written in
\* either case.
SetOpen(value) ==
    /\ IF sbParent = Nil THEN sbInner' = value /\ UNCHANGED sbProp
       ELSE /\ sbProp' = IF sbParent = "follows" THEN value ELSE sbProp
            /\ UNCHANGED sbInner
    /\ sbCookie' = value /\ sbWritten' = TRUE

\* Faulty variant of SbToggle: the sheet's flag is changed on every screen.
SbToggleSheet(times) ==
    /\ sbOpenMobile' = IF times = 1 THEN ~sbOpenMobile ELSE sbOpenMobile
    /\ UNCHANGED <<sbInner, sbProp, sbCookie, sbWritten>>
    /\ sbLast' = IF times = 1 THEN "toggle" ELSE "twice"
    /\ UNCHANGED <<sbFixed, sbIsMobile, sbSeenMobile, sbNarrow>>

\* toggleSidebar by the trigger, the rail or the key, as often as one event
\* calls it: a trigger's own onClick may call it as well.  The flag of the sheet
\* is turned each time, that of the panel is set from the last rendering.
SbToggle(times) ==
    /\ IF sbSeenMobile
       THEN /\ sbOpenMobile' = IF times = 1 THEN ~sbOpenMobile ELSE sbOpenMobile
            /\ UNCHANGED <<sbInner, sbProp, sbCookie, sbWritten>>
       ELSE SetOpen(~SbOpen) /\ UNCHANGED sbOpenMobile
    /\ sbLast' = IF times = 1 THEN "toggle" ELSE "twice"
    /\ UNCHANGED <<sbFixed, sbIsMobile, sbSeenMobile, sbNarrow>>

\* The rail is part of the panel, the key and the trigger are always there.
RailClicked == Screen \in {"expanded", "icon", "offcanvas"} /\ SbToggle(1)
KeyPressed == SbToggle(1)
TriggerClicked == \E times \in {1, 2} : SbToggle(times)

\* The sheet reports Escape, a click beside it or its button.
SheetDismissed ==
    /\ Screen = "sheet" /\ sbOpenMobile' = FALSE /\ sbLast' = "other"
    /\ UNCHANGED <<sbFixed, sbInner, sbProp, sbIsMobile, sbSeenMobile, sbNarrow, sbCookie,
                   sbWritten>>

\* A parent changes its value for reasons of its own.
ParentSets(value) ==
    /\ sbParent # Nil /\ sbProp' = value /\ sbLast' = "other"
    /\ UNCHANGED <<sbFixed, sbInner, sbOpenMobile, sbIsMobile, sbSeenMobile, sbNarrow,
                   sbCookie, sbWritten>>

-----------------------------------------------------------------------------
(* The breakpoint *)

Resize ==
    /\ sbNarrow' = ~sbNarrow /\ sbLast' = "other"
    /\ UNCHANGED <<sbFixed, sbInner, sbProp, sbOpenMobile, sbIsMobile, sbSeenMobile, sbCookie,
                   sbWritten>>

\* The effect on mounting and the listener of the media query.
Measured ==
    /\ sbIsMobile # sbNarrow /\ sbIsMobile' = sbNarrow /\ sbLast' = "other"
    /\ UNCHANGED <<sbFixed, sbInner, sbProp, sbOpenMobile, sbSeenMobile, sbNarrow, sbCookie,
                   sbWritten>>

Rendered ==
    /\ sbIsMobile # Nil /\ sbSeenMobile # sbIsMobile
    /\ sbSeenMobile' = sbIsMobile /\ sbLast' = "other"
    /\ UNCHANGED <<sbFixed, sbInner, sbProp, sbOpenMobile, sbIsMobile, sbNarrow, sbCookie,
                   sbWritten>>

\* The page is loaded again: nothing reads the cookie.
SbReload ==
    /\ sbInner' = TRUE /\ sbProp' = (IF sbParent = Nil THEN Nil ELSE TRUE)
    /\ sbOpenMobile' = FALSE /\ sbIsMobile' = Nil /\ sbSeenMobile' = FALSE
    /\ sbWritten' = FALSE /\ sbLast' = "other"
    /\ UNCHANGED <<sbFixed, sbNarrow, sbCookie>>

SbNext ==
    \/ RailClicked \/ KeyPressed \/ TriggerClicked \/ SheetDismissed
    \/ \E value \in BOOLEAN : ParentSets(value)
    \/ Resize \/ Measured \/ Rendered \/ SbReload

-----------------------------------------------------------------------------
(* Properties *)

\* Once the width is measured and rendered, a toggle changes what is on the
\* screen, on a wide and on a narrow one; unless there is nothing to collapse,
\* or a parent that refuses (toggleSidebar, setOpen).
ToggleIsSeen ==
    [][sbLast' = "toggle" /\ sbKind # "none" /\ (sbParent # "refuses" \/ sbNarrow)
         /\ sbIsMobile = sbNarrow /\ sbSeenMobile = sbNarrow
         => Screen' # Screen]_sbVars

\* Every entry on the screen can be told, by its text or by its tooltip, and not
\* by both in a sidebar that collapses; what hangs on an entry is shown beside
\* its text only (SidebarMenuButton, SidebarMenuAction, SidebarMenuSub).
EntriesAreNamed ==
    /\ OnScreen => TextShown \/ ~TooltipHidden
    /\ Screen \in {"sheet", "expanded"} => TooltipHidden
    /\ (AddonsShown \/ LabelsShown) => TextShown

\* The cookie says what the sidebar was last set to since the page was loaded,
\* unless a parent has the last word ("to keep the sidebar state").
CookieIsState == sbWritten /\ sbParent = Nil => sbCookie = SbOpen

\* The sidebar in every state: what its entries say, and what is remembered of it.
SidebarHolds == EntriesAreNamed /\ CookieIsState
===============================================================================
