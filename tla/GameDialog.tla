----------------------------- MODULE GameDialog -----------------------------
(***************************************************************************)
(* The dialogs of ui/GameDialog.ts: windows of the page that are opened,   *)
(* raised, dragged, minimized to their title bar, maximized to the view,   *)
(* restored, closed and destroyed, by their buttons, by the mouse and by   *)
(* the code that owns them.                                                *)
(*                                                                         *)
(* A dialog lies in its rectangle: its width, its height and its place.    *)
(* What a browser lets the user reach while a modal dialog is open is not  *)
(* modelled: any button of an open dialog can be pressed.                  *)
(***************************************************************************)
EXTENDS Naturals, FiniteSets

CONSTANTS
  Dialogs,
  Options,    \* what a dialog is made with: a function of the dialogs
  Places,     \* where a dialog can be dragged to
  Widths,     \* widths a dialog can be given later
  MaxTop,     \* bound: topZIndex
  None

VARIABLES
  made,           \* the dialogs that are constructed and not destroyed
  dialog,         \* their fields
  activeDialogs, topZIndex,
  pressed,        \* the dialog whose title bar the mouse holds, or None
  forgotten       \* history: dialogs whose own rectangle was overwritten

vars == <<made, dialog, activeDialogs, topZIndex, pressed, forgotten>>

Rect(width, height, place) == [width |-> width, height |-> height, place |-> place]

\* the constructor; a dialog has no z-index before it is raised
Fresh(d) ==
  [state |-> "normal", open |-> FALSE, rect |-> Rect(Options[d].width, "own", "centered"),
   saved |-> None, content |-> TRUE, resize |-> Options[d].resizable, z |-> 0,
   dragging |-> FALSE]

Construct(d) ==
  /\ d \notin made /\ made' = made \cup {d}
  /\ dialog' = [dialog EXCEPT ![d] = Fresh(d)]
  /\ forgotten' = forgotten \ {d}
  /\ UNCHANGED <<activeDialogs, topZIndex, pressed>>

\* destroy, without asking; the mouse may hold the dialog still
Destroy(d) ==
  /\ d \in made /\ made' = made \ {d}
  /\ activeDialogs' = activeDialogs \ {d}
  /\ dialog' = [dialog EXCEPT ![d].open = FALSE]
  /\ UNCHANGED <<topZIndex, pressed, forgotten>>

-----------------------------------------------------------------------------
\* Opening and closing.

Raised(fields, z) == [fields EXCEPT !.z = z]

BringToFront(d, fields) ==
  /\ topZIndex < MaxTop /\ topZIndex' = topZIndex + 1
  /\ dialog' = [dialog EXCEPT ![d] = Raised(fields, topZIndex')]

\* open: shown in the state it was closed in, at its position if it has one.  A
\* browser that refuses to show an open dialog again changes nothing.
Open(d) ==
  LET there == dialog[d]
      placed == IF Options[d].position = None THEN there
                ELSE [there EXCEPT !.rect.place = Options[d].position]
  IN  /\ d \in made
      /\ BringToFront(d, [placed EXCEPT !.open = TRUE])
      /\ activeDialogs' = activeDialogs \cup {d}
      /\ UNCHANGED <<made, pressed, forgotten>>

\* close: onBeforeClose may refuse
Close(d) ==
  /\ d \in made
  /\ dialog' = [dialog EXCEPT ![d].open = FALSE]
  /\ activeDialogs' = activeDialogs \ {d}
  /\ UNCHANGED <<made, topZIndex, pressed, forgotten>>

\* the cross, the Escape key, or the cancel event of the browser
UserCloses(d) ==
  /\ dialog[d].open /\ (Options[d].closable \/ Options[d].closeOnEscape)
  /\ Close(d)

-----------------------------------------------------------------------------
\* Minimizing, maximizing and restoring.

Does(d, f) == /\ d \in made /\ dialog' = [dialog EXCEPT ![d] = f]
              /\ UNCHANGED <<made, activeDialogs, topZIndex, pressed>>

\* minimize keeps the rectangle, of whatever state
Minimize(d) ==
  LET was == dialog[d]
  IN  /\ was.state # "minimized"
      /\ Does(d, [was EXCEPT !.state = "minimized", !.saved = was.rect, !.content = FALSE,
                             !.rect.height = "auto", !.resize = FALSE])
      /\ forgotten' = IF was.state = "maximized" THEN forgotten \cup {d} ELSE forgotten

Restore(d) ==
  LET was == dialog[d]
  IN  /\ was.state # "normal"
      /\ Does(d, [was EXCEPT !.state = "normal", !.content = TRUE, !.resize = Options[d].resizable,
                             !.rect = IF was.saved = None THEN @ ELSE was.saved])
      /\ UNCHANGED forgotten

\* maximize: a minimized dialog has kept its rectangle already
Maximize(d) ==
  LET was == dialog[d]
  IN  /\ was.state # "maximized"
      /\ Does(d, [was EXCEPT !.state = "maximized", !.content = TRUE, !.resize = FALSE,
                             !.saved = IF was.state = "minimized" THEN @ ELSE was.rect,
                             !.rect = Rect("view", "view", "corner")])
      /\ UNCHANGED forgotten

ToggleMaximize(d) ==
  (dialog[d].state = "maximized" /\ Restore(d)) \/ (dialog[d].state # "maximized" /\ Maximize(d))

\* setOption("width"), in any state; a restored dialog gets its kept width back
SetWidth(d, w) ==
  /\ dialog[d].rect.width # w
  /\ Does(d, [dialog[d] EXCEPT !.rect.width = w])
  /\ UNCHANGED forgotten

\* the buttons of the title bar
TitleButton(d) ==
  /\ dialog[d].open
  /\ \/ Options[d].minimizable /\ Minimize(d)
     \/ Options[d].maximizable /\ ToggleMaximize(d)

-----------------------------------------------------------------------------
\* The mouse.

\* A press raises the dialog; on the title bar it begins a drag.
MouseDown(d, title) ==
  /\ pressed = None /\ d \in made /\ dialog[d].open
  /\ pressed' = (IF title THEN d ELSE None)
  /\ BringToFront(d, [dialog[d] EXCEPT !.dragging = title /\ Options[d].draggable])
  /\ UNCHANGED <<made, activeDialogs, forgotten>>

\* every dialog that is dragged follows, whatever has become of it
MouseMove(p) ==
  /\ \E d \in Dialogs : dialog[d].dragging /\ dialog[d].rect.place # p
  /\ dialog' = [d \in Dialogs |-> IF dialog[d].dragging THEN [dialog[d] EXCEPT !.rect.place = p]
                                  ELSE dialog[d]]
  /\ UNCHANGED <<made, activeDialogs, topZIndex, pressed, forgotten>>

MouseUp ==
  /\ pressed # None /\ pressed' = None
  /\ dialog' = [d \in Dialogs |-> [dialog[d] EXCEPT !.dragging = FALSE]]
  /\ UNCHANGED <<made, activeDialogs, topZIndex, forgotten>>

-----------------------------------------------------------------------------
Init ==
  /\ made = {} /\ dialog = [d \in Dialogs |-> Fresh(d)]
  /\ activeDialogs = {} /\ topZIndex = 0 /\ pressed = None /\ forgotten = {}

Next ==
  \/ \E d \in Dialogs :
       \/ Construct(d) \/ Destroy(d) \/ Open(d) \/ Close(d) \/ UserCloses(d)
       \/ Minimize(d) \/ Restore(d) \/ Maximize(d) \/ ToggleMaximize(d) \/ TitleButton(d)
       \/ \E w \in Widths : SetWidth(d, w)
       \/ \E title \in BOOLEAN : MouseDown(d, title)
  \/ \E p \in Places : MouseMove(p)
  \/ MouseUp

Spec == Init /\ [][Next]_vars

-----------------------------------------------------------------------------
TypeOK ==
  /\ made \subseteq Dialogs /\ pressed \in Dialogs \cup {None} /\ topZIndex \in 0..MaxTop
  /\ \A d \in Dialogs : dialog[d].state \in {"normal", "minimized", "maximized"}

\* "Registry of all active dialogs": it holds the dialogs that are open, and none
\* that is destroyed.
RegistryOpen == activeDialogs = {d \in made : dialog[d].open}

\* No two dialogs were raised to one height: which of them is in front is settled.
OneInFront ==
  \A d, e \in made : d # e /\ dialog[d].z > 0 => dialog[d].z # dialog[e].z

\* Whatever states a dialog went through, its contents are hidden when it is
\* minimized and only then, it can be resized in its normal state only, and what
\* it lies in then is its own, unless it was minimized while it was maximized.
StatesShow ==
  \A d \in made :
    /\ dialog[d].content = (dialog[d].state # "minimized")
    /\ dialog[d].resize = (dialog[d].state = "normal" /\ Options[d].resizable)
    /\ dialog[d].state = "normal" /\ d \notin forgotten => dialog[d].rect.height = "own"
    /\ dialog[d].state # "normal" => dialog[d].saved # None

\* The mouse drags one dialog at most, and none when it is up.
OneDragged ==
  \A d \in Dialogs : dialog[d].dragging => pressed = d

DialogsSound == TypeOK /\ RegistryOpen /\ OneInFront /\ StatesShow /\ OneDragged
=============================================================================
