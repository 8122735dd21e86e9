------------------------------- MODULE Window -------------------------------
(***************************************************************************)
(* Window_t (core/window/) and the camera that it drives (eins/cam.cpp).   *)
(* The system queues what the user does; os_loop takes one event at a time *)
(* and draws a frame when the queue is empty.  On Windows the camera sets  *)
(* the cursor back while the left button is down, which is an event again. *)
(* Positions are along one axis.                                           *)
(*                                                                         *)
(* On X11 the tables of keys and buttons are as long as the enumerations   *)
(* (window_x11.cpp:17), while the codes of keys begin at 8: keysKnown is   *)
(* whether the memory behind the table keeps what init_input_ writes.      *)
(***************************************************************************)
EXTENDS Integers, Sequences, SequencesExt

CONSTANTS
  Places,     \* positions of the cursor
  Sizes,      \* sizes of the window
  MaxInputs   \* bound: how often the user does something

ASSUME PlacesAssumption == Places \subseteq Int

Keys == {"w", "other"}                   \* the camera reads w
Buttons == {"left", "middle", "right"}

VARIABLES
  platform,                              \* "x11" or "win"
  heldKeys, heldButtons, cursor, size,   \* what the user has done
  events,                                \* the queue of the system
  inputs, lostKeys, lostButtons, dragged, unfollowed, unorbited, plainSize, \* history
  keysKnown,
  m_key_down, m_mouse_down, m_old_mouse, m_is_cursor_visible, m_width,
  m_gpu,                                 \* whether Eins has one, and what it draws with
  turned, orbited, moves, proj,          \* Cam_t, m_shared->proj
  os_loop                                \* "before", "runs", "quits", "ended"

userVars == <<heldKeys, heldButtons, cursor, size, inputs, lostKeys, lostButtons, dragged, unfollowed, unorbited,
              plainSize>>
windowVars == <<m_key_down, m_mouse_down, m_old_mouse, m_is_cursor_visible, m_width>>
camVars == <<turned, orbited, moves, proj>>
fixedVars == <<platform, keysKnown, m_gpu>>
windowAll == <<userVars, events, windowVars, camVars, fixedVars, os_loop>>

InitWindow(start, width) ==
  /\ platform \in {"x11", "win"} /\ keysKnown \in (IF platform = "win" THEN {TRUE} ELSE BOOLEAN)
  /\ heldKeys = {} /\ heldButtons = {} /\ cursor = start /\ size = width
  /\ events = <<>> /\ inputs = 0 /\ lostKeys = {} /\ lostButtons = {}
  /\ dragged = [b \in Buttons |-> 0] /\ unfollowed = FALSE /\ unorbited = FALSE /\ plainSize = TRUE
  /\ m_key_down = {} /\ m_mouse_down = {} /\ m_old_mouse = [b \in Buttons |-> 0]
  /\ m_is_cursor_visible = TRUE /\ m_width = width /\ m_gpu = FALSE
  /\ turned = 0 /\ orbited = 0 /\ moves = FALSE /\ proj = 0 /\ os_loop = "before"

-----------------------------------------------------------------------------
(* The user and the system.                                                *)
Key(k, down) == [kind |-> "key", key |-> k, down |-> down]
Button(b, down) == [kind |-> "button", button |-> b, down |-> down, x |-> cursor]
Motion(x) == [kind |-> "motion", x |-> x]
Close == [kind |-> "close"]

(* X11 sends what the user does for as long as the queue of a window that  *)
(* is closed is worked off.                                                *)
DoesInput ==
  /\ \/ os_loop = "runs"
     \/ os_loop = "quits" /\ platform = "x11"
  /\ inputs < MaxInputs /\ inputs' = inputs + 1
  /\ UNCHANGED <<windowVars, camVars, fixedVars, os_loop>>

UsesKey(k) ==
  /\ DoesInput
  /\ heldKeys' = IF k \in heldKeys THEN heldKeys \ {k} ELSE heldKeys \union {k}
  /\ events' = Append(events, Key(k, k \notin heldKeys))
  /\ lostKeys' = lostKeys \ {k}
  /\ UNCHANGED <<heldButtons, cursor, size, lostButtons, dragged, unfollowed, unorbited, plainSize>>

(* The key is let go while another window has the focus. *)
LosesKey(k) ==
  /\ k \in heldKeys /\ DoesInput
  /\ heldKeys' = heldKeys \ {k} /\ lostKeys' = lostKeys \union {k}
  /\ UNCHANGED <<heldButtons, cursor, size, events, lostButtons, dragged, unfollowed, unorbited, plainSize>>

UsesButton(b) ==
  /\ DoesInput
  /\ heldButtons' = IF b \in heldButtons THEN heldButtons \ {b} ELSE heldButtons \union {b}
  /\ events' = Append(events, Button(b, b \notin heldButtons))
  /\ lostButtons' = lostButtons \ {b}
  /\ unorbited' = (unorbited \/ (platform = "win" /\ {"left", "middle"} \subseteq heldButtons'))
  /\ UNCHANGED <<heldKeys, cursor, size, lostKeys, dragged, unfollowed, plainSize>>

(* X11 reports a turn of the wheel as a button that goes down and up, and  *)
(* the table of buttons ends before those of the wheel: what is behind it  *)
(* is taken for a button, or for none.                                     *)
TurnsWheel(b) ==
  /\ platform = "x11" /\ DoesInput
  /\ events' = events \o <<Button(b, TRUE), Button(b, FALSE)>>
  /\ lostButtons' = lostButtons \union ({b} \intersect Buttons)
  /\ unfollowed' = (unfollowed \/ b = "left") /\ unorbited' = (unorbited \/ b = "right")
  /\ UNCHANGED <<heldKeys, heldButtons, cursor, size, lostKeys, dragged, plainSize>>

(* The button is let go outside of the window, which captures nothing; X11 *)
(* grabs the pointer of itself.                                            *)
LosesButton(b) ==
  /\ platform = "win" /\ b \in heldButtons /\ DoesInput
  /\ heldButtons' = heldButtons \ {b} /\ lostButtons' = lostButtons \union {b}
  /\ unfollowed' = (unfollowed \/ b = "left") /\ unorbited' = (unorbited \/ b = "middle")
  /\ UNCHANGED <<heldKeys, cursor, size, events, lostKeys, dragged, plainSize>>

(* A motion to where the cursor is now is queued behind the other events,  *)
(* or instead of the last one if that is a motion as well.                 *)
WithMotion(queue, x) ==
  {Append(queue, Motion(x))} \union
  (IF queue # <<>> /\ Last(queue).kind = "motion" THEN {Append(Front(queue), Motion(x))} ELSE {})
HasMotion(queue) == \E i \in DOMAIN queue : queue[i].kind = "motion"

(* X11 reports a motion while the left or the middle button is held, for   *)
(* these are in the event mask; Windows always does.  The camera does not  *)
(* follow a drag with the left button that is queued behind another        *)
(* motion, nor one with the right button that is not reported.             *)
MovesCursor(x) ==
  /\ x # cursor /\ DoesInput /\ cursor' = x
  /\ dragged' = [b \in Buttons |-> IF b \in heldButtons THEN dragged[b] + (x - cursor) ELSE dragged[b]]
  /\ IF platform = "win"
     THEN /\ events' \in WithMotion(events, x)
          /\ unfollowed' = (unfollowed \/ ("left" \in heldButtons /\ HasMotion(events) /\ Len(events') > Len(events)))
          /\ UNCHANGED unorbited
     ELSE /\ IF heldButtons \intersect {"left", "middle"} # {}
             THEN events' = Append(events, Motion(x)) /\ UNCHANGED unorbited
             ELSE UNCHANGED events /\ unorbited' = (unorbited \/ "right" \in heldButtons)
          /\ UNCHANGED unfollowed
  /\ UNCHANGED <<heldKeys, heldButtons, size, lostKeys, lostButtons, plainSize>>

ClosesWindow ==
  /\ \A i \in DOMAIN events : events[i] # Close
  /\ DoesInput /\ events' = Append(events, Close)
  /\ UNCHANGED <<heldKeys, heldButtons, cursor, size, lostKeys, lostButtons, dragged, unfollowed, unorbited,
                 plainSize>>

-----------------------------------------------------------------------------
(* Mutant: what is drawn keeps the shape of the first window. *)
on_resizedSwapchainOnly(width) == UNCHANGED proj

(* Eins_window_t::on_resized: nothing before there is a GPU. *)
on_resized(width) == proj' = IF m_gpu THEN width ELSE proj

(* WM_SIZE is delivered at once, also in the middle of Window_t::init.  A  *)
(* maximised or minimised window (w_param is not 0) keeps what it had; on  *)
(* X11 the event is not in the mask.                                       *)
IsResized(width, plain) ==
  /\ os_loop \in {"before", "runs"} /\ inputs < MaxInputs /\ inputs' = inputs + 1
  /\ width # size /\ size' = width /\ plainSize' = (plain /\ platform = "win")
  /\ IF plain /\ platform = "win" THEN m_width' = width /\ on_resized(width)
     ELSE UNCHANGED <<m_width, proj>>
  /\ UNCHANGED <<heldKeys, heldButtons, cursor, events, lostKeys, lostButtons, dragged, unfollowed, unorbited,
                 fixedVars, m_key_down, m_mouse_down, m_old_mouse, m_is_cursor_visible, turned, orbited, moves,
                 os_loop>>

(* Eins_window_t::init has what it draws with and looks at the size of the *)
(* window.                                                                 *)
InitView ==
  /\ m_gpu' = TRUE /\ proj' = m_width
  /\ UNCHANGED <<userVars, events, windowVars, turned, orbited, moves, platform, keysKnown>>

-----------------------------------------------------------------------------
(* The handlers.  An event that is handled leaves the queue.               *)
Handles(kind) ==
  /\ os_loop \in {"runs", "quits"} /\ events # <<>> /\ Head(events).kind = kind

KeyOf(k) == IF keysKnown /\ k = "w" THEN "w" ELSE "none"

(* g_xcb_button_to_mouse_ has two of the buttons the other way round.      *)
ButtonOf(b) == IF platform = "x11" /\ b \in {"middle", "right"} THEN (IF b = "middle" THEN "right" ELSE "middle") ELSE b

(* X11 notes a key that is let go as down (window_x11.cpp:123). *)
HandleKey ==
  /\ Handles("key")
  /\ LET key == KeyOf(Head(events).key)
     IN  m_key_down' = IF Head(events).down \/ platform = "x11" THEN m_key_down \union {key}
                       ELSE m_key_down \ {key}
  /\ events' = Tail(events)
  /\ UNCHANGED <<userVars, m_mouse_down, m_old_mouse, m_is_cursor_visible, m_width, camVars, fixedVars, os_loop>>

(* update_mouse_val_.  Windows compares the right button's message with    *)
(* the middle button's (window_win.cpp:66), and so never sees it down.     *)
(* Mutant: the middle button's is compared with another one as well. *)
IsDownOnlyLeft(e) == e.down /\ ~(platform = "win" /\ e.button # "left")
IsDown(e) == e.down /\ ~(platform = "win" /\ e.button = "right")

(* Mutant: where a button goes down is not noted. *)
NotedNever(mouse, x) == m_old_mouse
Noted(mouse, x) == [b \in Buttons |-> IF b = mouse THEN x ELSE m_old_mouse[b]]

HandleButton ==
  /\ Handles("button")
  /\ LET e == Head(events)
         mouse == ButtonOf(e.button)
     IN  /\ m_mouse_down' = IF IsDown(e) THEN m_mouse_down \union {mouse} ELSE m_mouse_down \ {mouse}
         /\ m_is_cursor_visible' = IF mouse = "left" /\ platform = "win" THEN ~IsDown(e)
                                   ELSE m_is_cursor_visible
         /\ m_old_mouse' = Noted(mouse, e.x)
  /\ events' = Tail(events)
  /\ UNCHANGED <<userVars, m_key_down, m_width, camVars, fixedVars, os_loop>>

(* What was queued when the cursor is set back was measured from where it  *)
(* was before.                                                             *)
Misleads(event) == event.kind = "motion" \/ (event.kind = "button" /\ event.down)

(* Cam_t::mouse_move and what the window notes behind it.  Setting the     *)
(* cursor is not implemented on X11, and posts a motion on Windows.        *)
HandleMotion ==
  /\ Handles("motion")
  /\ LET x == Head(events).x
         old == m_old_mouse
         Down(b) == b \in m_mouse_down
         setsBack == platform = "win" /\ Down("left") /\ cursor # old["left"]
         followed == IF ~m_is_cursor_visible THEN {}
                     ELSE IF platform = "win" THEN Buttons ELSE m_mouse_down
     IN  /\ turned' = turned + (IF Down("left") THEN old["left"] - x ELSE 0)
         /\ orbited' = orbited + (IF Down("middle") THEN old["middle"] - x ELSE 0)
         /\ m_old_mouse' = [b \in Buttons |-> IF b \in followed THEN x ELSE old[b]]
         /\ cursor' = IF setsBack THEN old["left"] ELSE cursor
         /\ IF setsBack
            THEN /\ events' \in WithMotion(Tail(events), old["left"])
                 /\ unfollowed' = (unfollowed \/ \E i \in 2 .. Len(events) : Misleads(events[i]))
            ELSE events' = Tail(events) /\ UNCHANGED unfollowed
  /\ UNCHANGED <<heldKeys, heldButtons, size, inputs, lostKeys, lostButtons, dragged, unorbited, plainSize,
                 m_key_down, m_mouse_down, m_is_cursor_visible, m_width, moves, proj, fixedVars, os_loop>>

(* Mutant: the rest of the loop goes on as if nothing had been asked. *)
HandleCloseIgnored ==
  /\ Handles("close")
  /\ events' = Tail(events)
  /\ UNCHANGED <<userVars, windowVars, camVars, fixedVars, os_loop>>

(* Windows destroys the window, and with it the events that are for it.    *)
HandleClose ==
  /\ Handles("close")
  /\ os_loop' = "quits" /\ events' = IF platform = "win" THEN <<>> ELSE Tail(events)
  /\ UNCHANGED <<userVars, windowVars, camVars, fixedVars>>

(* Eins_window_t::loop, as far as the camera goes: Cam_t::update.  On X11  *)
(* a frame is still drawn when the window has been closed.                 *)
DrawFrame ==
  /\ events = <<>> /\ \/ os_loop = "runs"
                      \/ os_loop = "quits" /\ platform = "x11"
  /\ moves' = ("w" \in m_key_down)
  /\ os_loop' = IF os_loop = "quits" THEN "ended" ELSE "runs"
  /\ UNCHANGED <<userVars, events, windowVars, turned, orbited, proj, fixedVars>>

(* PeekMessage returns WM_QUIT when nothing else is left. *)
Quit ==
  /\ os_loop = "quits" /\ platform = "win" /\ events = <<>>
  /\ os_loop' = "ended"
  /\ UNCHANGED <<userVars, events, windowVars, camVars, fixedVars>>

Input ==
  \/ \E k \in Keys : UsesKey(k) \/ LosesKey(k)
  \/ \E b \in Buttons : UsesButton(b) \/ LosesButton(b)
  \/ \E b \in Buttons \cup {"none"} : TurnsWheel(b)
  \/ \E x \in Places : MovesCursor(x)
  \/ \E width \in Sizes, plain \in BOOLEAN : IsResized(width, plain)
  \/ ClosesWindow

OsLoop == HandleKey \/ HandleButton \/ HandleMotion \/ HandleClose \/ DrawFrame \/ Quit

-----------------------------------------------------------------------------
(* When the queue has been worked off, a key or button is noted as down    *)
(* that the user holds, whatever the others did in between: except those   *)
(* that were let go where the window does not hear of it or that the wheel *)
(* was taken for, until they are used again, keys on X11, which are never  *)
(* let go, and the right button on Windows.                                *)
RecordsWhatIsHeld ==
  events = <<>> /\ os_loop = "runs" =>
    /\ \A b \in Buttons \ lostButtons :
         ButtonOf(b) \in m_mouse_down <=> b \in heldButtons /\ (platform = "win" => b # "right")
    /\ keysKnown /\ "w" \notin lostKeys =>
         /\ "w" \in heldKeys => "w" \in m_key_down
         /\ platform = "win" => ("w" \in m_key_down => "w" \in heldKeys)

(* Windows: while the left button is down the cursor is hidden and back    *)
(* where the button went down, as soon as the motions have been handled;   *)
(* otherwise it is visible.                                                *)
CursorComesBack ==
  platform = "win" /\ os_loop = "runs" =>
    /\ m_is_cursor_visible <=> "left" \notin m_mouse_down
    /\ "left" \in m_mouse_down /\ ~HasMotion(events) => cursor = m_old_mouse["left"]

(* The camera turns by what the mouse was dragged with the left button, in *)
(* whatever order buttons, motions and the motions that setting the cursor *)
(* causes come: unless a release was lost, the wheel was taken for the     *)
(* button, a motion was queued behind another one instead of in its place, *)
(* or something that was measured before the cursor was set back comes     *)
(* after it.                                                               *)
TurnsAsDragged ==
  events = <<>> /\ ~unfollowed /\ os_loop = "runs" => turned = -dragged["left"]

(* It orbits by what the mouse was dragged with the middle button on       *)
(* Windows, unless that and the left one were ever held together, and with *)
(* the right button and no other on X11 (window_x11.cpp:45), unless that   *)
(* was ever dragged alone, of which X11 does not tell.                     *)
OrbitsAsDragged ==
  events = <<>> /\ ~unfollowed /\ ~unorbited /\ os_loop = "runs" =>
    orbited = -dragged[IF platform = "win" THEN "middle" ELSE "right"]

(* The camera and the cursor, together. *)
CameraFollows == CursorComesBack /\ TurnsAsDragged /\ OrbitsAsDragged

(* What is drawn is for the size that the window has noted, also when it   *)
(* is resized before there is a GPU; and that is the size of the window,   *)
(* unless it was maximised or minimised, or on X11.                        *)
SizeFollows ==
  /\ os_loop # "before" => proj = m_width
  /\ plainSize => m_width = size

(* A window that is closed makes the program end. *)
StopsInTheEnd == (\E i \in DOMAIN events : events[i] = Close) ~> os_loop = "ended"

=============================================================================
