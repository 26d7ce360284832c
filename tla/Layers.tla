-------------------------------- MODULE Layers --------------------------------
(***************************************************************************)
(* The layers of the component kit (ui/components/ui/): dialogs, sheets,   *)
(* drawers, menus, selects, comboboxes, the command palette and the cards  *)
(* shown on hovering.  Each file wraps a part of a library and decides     *)
(* what the part is: which root a sub menu has, which button closes, what  *)
(* covers the page, which input is disabled.  What the library does with a *)
(* key, a press beside a layer or a pointer is external.                   *)
(***************************************************************************)
EXTENDS Browser

CONSTANT
    Options,    \* what a radio group, a select or a combobox offers
    LyDepth     \* bound: layers on top of each other
ASSUME LayersBound == LyDepth \in Nat \ {0}

VARIABLES
    lyKinds,     \* what the page mounts: a surface, and what may be opened within it
    lyField,     \* combobox: [trigger, clear, chips], the parts it is made of
    lyStack,     \* open layers, the last on top: [kind, root, parts]
    lyChecked,   \* the value of a checkbox item
    lyChosen,    \* the value of a radio group or a select
    lyPicked,    \* the value of a combobox: the options picked
    lyMatching,  \* the options the text in a combobox or the palette leaves over
    lyDisabled,  \* the combobox is disabled
    lyCause      \* observer: what the last step was

lyValues == <<lyChecked, lyChosen, lyPicked, lyMatching, lyDisabled>>
lyVars == <<lyKinds, lyField, lyStack, lyChecked, lyChosen, lyPicked, lyMatching, lyDisabled,
            lyCause>>

MenuKinds == {"dropdown", "context", "menubar"}
Surfaces == {"dialog", "alert", "sheet", "drawer", "popover", "palette"}
Hints == {"hover", "tooltip"}
Kinds == MenuKinds \cup Surfaces \cup Hints \cup {"select", "combobox"}

\* A combobox has an input with a trigger or a button to clear it, or it shows
\* what is picked as chips, several at a time.
LyInit ==
    /\ lyKinds \in {{surface, kind} : surface \in Surfaces, kind \in Kinds}
    /\ lyField \in IF "combobox" \in lyKinds
                   THEN [trigger : BOOLEAN, clear : BOOLEAN, chips : BOOLEAN]
                   ELSE {[trigger |-> TRUE, clear |-> FALSE, chips |-> FALSE]}
    /\ lyStack = <<>> /\ lyChecked = FALSE /\ lyChosen = Nil
    /\ lyPicked = {} /\ lyMatching = Options /\ lyDisabled = FALSE /\ lyCause = "other"

-----------------------------------------------------------------------------
(* The stack *)

\* Hints go when anything else happens.
Settled ==
    IF lyStack # <<>> /\ Last(lyStack).kind \in Hints THEN Front(lyStack) ELSE lyStack
On(kinds) == Settled # <<>> /\ Last(Settled).kind \in kinds

\* The layers below the top one, and those below all menus of its tree.
BelowTop(stack) == IF stack = <<>> THEN <<>> ELSE Front(stack)
BelowTree(stack) ==
    SubSeq(stack, 1, Max({i \in 1..Len(stack) : stack[i].root}) - 1)

LyBecomes(stack, cause) ==
    lyStack' = stack /\ lyCause' = cause /\ UNCHANGED <<lyKinds, lyField>>

\* A trigger on the page, or within the surface on top.
Opened(kind, root, parts) ==
    /\ kind \in lyKinds /\ Len(Settled) < LyDepth
    /\ LyBecomes(Append(Settled, [kind |-> kind, root |-> root, parts |-> parts]), "other")
    /\ UNCHANGED lyValues
Triggered(kind, parts) == (Settled = <<>> \/ On(Surfaces)) /\ Opened(kind, TRUE, parts)

\* A button within the layer on top closes it.
ClosedBy(kind, part) ==
    /\ On({kind}) /\ part \in Last(Settled).parts
    /\ LyBecomes(BelowTop(Settled), part) /\ UNCHANGED lyValues

-----------------------------------------------------------------------------
(* Dialogs, sheets and drawers *)

\* The close button of the content is there by default, that of a footer is not.
DialogOpens == \E parts \in SUBSET {"close", "footer"} : Triggered("dialog", parts)
DialogContent == ClosedBy("dialog", "close")
DialogFooter == ClosedBy("dialog", "footer")

SheetOpens == \E parts \in SUBSET {"close"} : Triggered("sheet", parts)
SheetContent == ClosedBy("sheet", "close")

\* The caller puts in a Cancel, an Action, or both.
AlertOpens == \E parts \in SUBSET {"cancel", "action"} : Triggered("alert", parts)
AlertCancel == ClosedBy("alert", "cancel")

\* Faulty variant of AlertAction: the action closes the dialog as Cancel does.
AlertActionCloses == ClosedBy("alert", "action")
\* The action is a plain button: the dialog stays until its owner closes it.
AlertAction ==
    /\ On({"alert"}) /\ "action" \in Last(Settled).parts
    /\ LyBecomes(Settled, "action") /\ UNCHANGED lyValues

\* modal is true, "trap-focus" or false; a handle is shown when asked for.
DrawerOpens ==
    \E modal \in {{"modal"}, {"trap"}, {}}, handle \in {{"handle"}, {}} :
        Triggered("drawer", modal \cup handle)

\* The overlay is drawn, and the viewport takes the presses, of a modal one only.
DrawerContent(layer) == "modal" \in layer.parts
\* A swipe closes a drawer, with or without a handle to hold.
DrawerSwiped == On({"drawer"}) /\ LyBecomes(BelowTop(Settled), "swipe") /\ UNCHANGED lyValues

\* What lies between the pointer and the page: the overlay of a dialog, an alert
\* or a sheet is always part of its content; popovers have none; the library
\* covers the page for a menu and a select itself.
Covers(layer) ==
    \/ layer.kind \in {"dialog", "alert", "sheet", "palette", "select"} \cup MenuKinds
    \/ layer.kind = "drawer" /\ DrawerContent(layer)
Covered == \E i \in DOMAIN lyStack : Covers(lyStack[i])

-----------------------------------------------------------------------------
(* Menus *)

DropdownOpens == Triggered("dropdown", {})
\* The area of the trigger is pressed with the other button.
ContextOpens == Triggered("context", {})
\* A menu of the bar; while one is open, pointing at another opens that instead.
MenubarOpens ==
    \/ Triggered("menubar", {})
    \/ /\ On({"menubar"}) /\ UNCHANGED lyValues
       /\ LyBecomes(BelowTree(Settled) \o <<[kind |-> "menubar", root |-> TRUE, parts |-> {}]>>,
                  "other")

\* A sub menu belongs to the tree of the menu its trigger is in.
DropdownSub == On({"dropdown"}) /\ Opened("dropdown", FALSE, {})
ContextSub == On({"context"}) /\ Opened("context", FALSE, {})
MenubarSub == On({"menubar"}) /\ Opened("menubar", FALSE, {})

\* An item closes the tree, destructive or not.
Item(kind) == On({kind}) /\ LyBecomes(BelowTree(Settled), "item") /\ UNCHANGED lyValues
DropdownItem == Item("dropdown")
ContextItem == Item("context")
MenubarItem == Item("menubar")

\* A checkbox item asks its owner, who may refuse, and the menu stays.
Toggle(kind) ==
    /\ On({kind}) /\ lyChecked' \in BOOLEAN
    /\ LyBecomes(Settled, "value") /\ UNCHANGED <<lyChosen, lyPicked, lyMatching, lyDisabled>>
DropdownCheckbox == Toggle("dropdown")
ContextCheckbox == Toggle("context")
MenubarCheckbox == Toggle("menubar")

\* A radio item sets the value of its group, and the menu stays.
Radio(kind, option) ==
    /\ On({kind}) /\ lyChosen' = option
    /\ LyBecomes(Settled, "value") /\ UNCHANGED <<lyChecked, lyPicked, lyMatching, lyDisabled>>
DropdownRadio(option) == Radio("dropdown", option)
ContextRadio(option) == Radio("context", option)
MenubarRadio(option) == Radio("menubar", option)

-----------------------------------------------------------------------------
(* Selects, popovers, hints and the palette *)

SelectOpens == Triggered("select", {})
\* Of a select an item closes the list and becomes the value.
SelectItem(option) ==
    /\ On({"select"}) /\ lyChosen' = option
    /\ LyBecomes(BelowTop(Settled), "value")
    /\ UNCHANGED <<lyChecked, lyPicked, lyMatching, lyDisabled>>

PopoverOpens == Triggered("popover", {})

\* The pointer rests on a trigger: a tooltip comes without delay.
Hinted(kind) == (Settled = <<>> \/ On(Surfaces)) /\ Opened(kind, TRUE, {})
HoverCardShown == Hinted("hover")
TooltipShown == Hinted("tooltip")
\* The pointer leaves.
HintHidden == Settled # lyStack /\ LyBecomes(Settled, "other") /\ UNCHANGED lyValues

\* The palette is a dialog, without a close button unless asked for.
PaletteOpens == \E parts \in SUBSET {"close"} : Triggered("palette", parts)
PaletteCloses == ClosedBy("palette", "close")
\* Typing narrows the commands, down to none.
PaletteTyped ==
    /\ On({"palette"}) /\ lyMatching' \in SUBSET Options
    /\ LyBecomes(Settled, "value") /\ UNCHANGED <<lyChecked, lyChosen, lyPicked, lyDisabled>>
\* A command is run by its owner; the palette stays until the owner closes it.
PaletteItem ==
    /\ On({"palette"}) /\ lyMatching # {}
    /\ LyBecomes(Settled, "other") /\ UNCHANGED lyValues

-----------------------------------------------------------------------------
(* Comboboxes *)

Typeable == (Settled = <<>> \/ On(Surfaces \cup {"combobox"})) /\ "combobox" \in lyKinds
WithList == IF On({"combobox"}) THEN Settled
            ELSE Append(Settled, [kind |-> "combobox", root |-> TRUE, parts |-> {}])
ComboValue(picked, stack, cause) ==
    /\ lyPicked' = picked /\ LyBecomes(stack, cause)
    /\ UNCHANGED <<lyChecked, lyChosen, lyDisabled>>

\* The button to clear is there while there is a value, and hides the trigger.
ClearShown == lyField.clear /\ ~lyField.chips /\ lyPicked # {}
ComboTrigger ==
    /\ Typeable /\ lyField.trigger /\ ~lyField.chips /\ ~ClearShown /\ ~lyDisabled
    /\ Len(WithList) <= LyDepth
    /\ ComboValue(lyPicked, IF On({"combobox"}) THEN BelowTop(Settled) ELSE WithList, "other")
    /\ UNCHANGED lyMatching

ComboClear ==
    /\ Typeable /\ ClearShown /\ ~lyDisabled
    /\ ComboValue({}, Settled, "value") /\ lyMatching' = Options

\* Typing opens the list.  The input with its buttons knows disabled itself, that
\* among chips gets it from the owner of the combobox.
ComboInput ==
    /\ Typeable /\ ~lyField.chips /\ ~lyDisabled /\ Len(WithList) <= LyDepth
    /\ lyMatching' \in SUBSET Options /\ ComboValue(lyPicked, WithList, "other")
ComboChipsInput ==
    /\ Typeable /\ lyField.chips /\ Len(WithList) <= LyDepth
    /\ lyMatching' \in SUBSET Options /\ ComboValue(lyPicked, WithList, "other")

\* The list offers what the text leaves over, or says that nothing is found.
ComboEmpty == lyMatching = {}
ComboItem(option) ==
    /\ On({"combobox"}) /\ ~ComboEmpty /\ option \in lyMatching
    /\ IF lyField.chips
       THEN ComboValue(SymDiff(lyPicked, {option}), Settled, "value")
       ELSE ComboValue({option}, BelowTop(Settled), "value")
    /\ lyMatching' = Options

\* A chip is removed by its button, or by Backspace in the empty input.
ComboChip(option) ==
    /\ Typeable /\ lyField.chips /\ option \in lyPicked
    /\ ComboValue(lyPicked \ {option}, Settled, "value") /\ UNCHANGED lyMatching

\* The owner of the combobox disables or enables its input.
Disabling ==
    /\ "combobox" \in lyKinds /\ lyDisabled' = ~lyDisabled
    /\ LyBecomes(lyStack, "other") /\ UNCHANGED <<lyChecked, lyChosen, lyPicked, lyMatching>>

-----------------------------------------------------------------------------
(* What the library does *)

\* Escape leaves the top layer, of a sub menu it may leave the whole tree.
Escape ==
    /\ lyStack # <<>> /\ UNCHANGED lyValues
    /\ \E stack \in {BelowTop(lyStack), BelowTree(lyStack)} : LyBecomes(stack, "escape")

\* A press beside the top layer leaves it, its tree for a menu; not an alert.
OutsidePress ==
    /\ Settled # <<>> /\ ~On({"alert"})
    /\ LyBecomes(BelowTree(Settled), "outside") /\ UNCHANGED lyValues

\* A press on the page that nothing takes acts on the page.
PagePress ==
    /\ ~Covered
    /\ LyBecomes(<<>>, "page") /\ UNCHANGED lyValues

\* The owner closes the layer on top.
OwnerCloses == lyStack # <<>> /\ LyBecomes(BelowTree(lyStack), "owner") /\ UNCHANGED lyValues

LyNext ==
    \/ DialogOpens \/ DialogContent \/ DialogFooter \/ SheetOpens \/ SheetContent
    \/ AlertOpens \/ AlertCancel \/ AlertAction \/ DrawerOpens \/ DrawerSwiped
    \/ DropdownOpens \/ DropdownSub \/ DropdownItem \/ DropdownCheckbox
    \/ ContextOpens \/ ContextSub \/ ContextItem \/ ContextCheckbox
    \/ MenubarOpens \/ MenubarSub \/ MenubarItem \/ MenubarCheckbox
    \/ SelectOpens \/ PopoverOpens \/ HoverCardShown \/ TooltipShown \/ HintHidden
    \/ PaletteOpens \/ PaletteCloses \/ PaletteTyped \/ PaletteItem
    \/ ComboTrigger \/ ComboClear \/ ComboInput \/ ComboChipsInput \/ Disabling
    \/ \E o \in Options : \/ DropdownRadio(o) \/ ContextRadio(o) \/ MenubarRadio(o)
                          \/ SelectItem(o) \/ ComboItem(o) \/ ComboChip(o)
    \/ Escape \/ OutsidePress \/ PagePress \/ OwnerCloses

-----------------------------------------------------------------------------
(* Properties *)

\* Choosing an item leaves no menu of its kind open, however deep the item was
\* and however the sub menus were entered and left before (DropdownMenuSub,
\* ContextMenuSub, MenubarSub).
ChosenClosesMenus ==
    [][lyCause' = "item" => \A i \in DOMAIN lyStack' : lyStack'[i].kind \notin MenuKinds]_lyVars

Alerts(stack) == Cardinality({i \in DOMAIN stack : stack[i].kind = "alert"})
\* An alert is left by Cancel, by Escape or by its owner: neither its action nor
\* a press beside it, or beside what was opened within it, takes the question
\* away (AlertDialogContent, AlertDialogAction).
AlertIsAnswered ==
    [][Alerts(lyStack') < Alerts(lyStack)
         => lyCause' \in {"cancel", "escape", "owner"}]_lyVars

\* While it is disabled and its list is closed, the value of a combobox with
\* buttons stays as it is (ComboboxInput).
DisabledStays ==
    [][lyDisabled /\ ~On({"combobox"}) /\ ~lyField.chips => lyPicked' = lyPicked]_lyVars

\* What no step does to open layers and to values.
LayersHold == ChosenClosesMenus /\ AlertIsAnswered /\ DisabledStays
===============================================================================
