-------------------------------- MODULE Gui ---------------------------------
(***************************************************************************)
(* The desktop (gui.c, cmd_gui of kernel.c): windows in a table of slots,  *)
(* their widgets, the window that is dragged or resized, menus, and the    *)
(* terminal.  Places are horizontal; the vertical place of a click is the  *)
(* part of the window it hits.  What is painted is left out.               *)
(***************************************************************************)
EXTENDS Integers, FiniteSets, SequencesExt

CONSTANTS
    GUI_MAX_WINDOWS, GUI_MAX_WIDGETS,
    SCR_W,          \* width of the screen
    MinW,           \* least width of a window
    Titles,         \* applications, "T" (the terminal) among them
    LINE,           \* longest command of the terminal
    MaxWidgets,     \* bound: widgets added
    Tidy            \* TRUE: a window is opened only where none was before,
                    \* and nobody takes hold of an edge

Slots == 0 .. GUI_MAX_WINDOWS - 1
Untitled == ""
Nobody == -1
Parts == {"close", "min", "max", "title", "left", "right", "corner", "body"}

GuiAssumption ==
    /\ GUI_MAX_WINDOWS \in Nat /\ GUI_MAX_WINDOWS > 1
    /\ GUI_MAX_WIDGETS \in Nat \ {0}
    /\ MinW \in Nat \ {0} /\ SCR_W \in Nat /\ MinW < SCR_W
    /\ LINE \in Nat /\ MaxWidgets \in Nat
    /\ "T" \in Titles /\ Titles # {"T"} /\ Untitled \notin Titles
    /\ Tidy \in BOOLEAN

VARIABLES
    wins,       \* g_wins
    g_active,   \* the window in front
    wgts,       \* g_wgts, g_wgt_cnt: the slot of each widget and, history,
                \* the application it was added for
    hold,       \* g_dragging, g_resizing and what goes with them
    cur, button,    \* the pointer and its left button
    menus,      \* the context menu and the launcher, when they are shown
    shell,      \* g_shell_win_id, g_shell_pos
    moved       \* history: a window moved while the button was up

guiVars == <<wins, g_active, wgts, hold, cur, button, menus, shell, moved>>

WindowOf(t, x, w, shown) ==
    [title |-> t, x |-> x, w |-> w, visible |-> shown,
     maximized |-> FALSE, ox |-> 0, ow |-> MinW]
Free == WindowOf(Untitled, 0, MinW, FALSE)
NoHold == [drag |-> Nobody, off |-> 0, size |-> Nobody, dir |-> "body",
           px |-> 0, x |-> 0, w |-> 0]

Window == [title : Titles \cup {Untitled}, x : Int, w : Nat, visible : BOOLEAN,
           maximized : BOOLEAN, ox : Int, ow : Nat]

GuiTypeOK ==
    /\ wins \in [Slots -> Window] /\ \A i \in Slots : wins[i].w >= MinW
    /\ g_active \in Slots \cup {Nobody} /\ cur \in 0 .. SCR_W - 1
    /\ Len(wgts) <= GUI_MAX_WIDGETS /\ button \in BOOLEAN
    /\ menus \subseteq {"context", "launcher"}
    /\ shell.win \in Slots \cup {Nobody} /\ shell.pos \in 0 .. LINE

-----------------------------------------------------------------------------
(* gui_window_create takes the first slot that is not visible, whatever    *)
(* its widgets and whether it is only minimized; wgt_new adds widgets      *)
(* until the table is full and never takes one back.                       *)
Unused == {i \in Slots : ~wins[i].visible}
FirstUnused == CHOOSE i \in Unused : \A j \in Unused : i <= j

WithWidgets(i, t, n) ==
    LET room == GUI_MAX_WIDGETS - Len(wgts)
    IN  wgts \o [k \in 1 .. IF n < room THEN n ELSE room |-> [win |-> i, of |-> t]]

Create(t, x, w, n) ==
    IF Unused = {} THEN UNCHANGED <<wins, g_active, wgts>>
    ELSE LET i == FirstUnused
             wide == IF w < MinW THEN MinW ELSE w
             at == IF x + wide > SCR_W THEN SCR_W - wide ELSE x
         IN  /\ Tidy => wins[i].title = Untitled
             /\ wins' = [wins EXCEPT ![i] = WindowOf(t, at, wide, TRUE)]
             /\ g_active' = i /\ wgts' = WithWidgets(i, t, n)

Titled(t) == {i \in Slots : wins[i].visible /\ wins[i].title = t}
Raise(i) == g_active' = i /\ UNCHANGED <<wins, wgts>>

(* Open an application: by the launcher, the dock, an icon on the desktop  *)
(* (a second click soon after the first) or the context menu.  A window    *)
(* that is open comes to the front.                                        *)
OpenTitle(t, x, w, n) ==
    /\ IF Titled(t) # {}
       THEN Raise(CHOOSE i \in Titled(t) : \A j \in Titled(t) : i <= j)
       ELSE Len(wgts) + n <= MaxWidgets /\ Create(t, x, w, n)
    /\ UNCHANGED shell

(* gui_open_shell_window goes by the slot it remembers.                    *)
OpenShell(x, w, n) ==
    IF shell.win # Nobody /\ wins[shell.win].visible
    THEN Raise(shell.win) /\ UNCHANGED shell
    ELSE /\ Len(wgts) + n <= MaxWidgets /\ Create("T", x, w, n)
         /\ shell' = IF Unused = {} THEN shell
                     ELSE [win |-> FirstUnused, pos |-> 0]

Press == ~button /\ button' = TRUE

Open(t) ==
    /\ Press
    /\ \E x \in {0, SCR_W - 1}, w \in {MinW, MinW + 1}, n \in {1, 2} :
            IF t = "T" THEN OpenShell(x, w, n) ELSE OpenTitle(t, x, w, n)
    /\ menus' = {} /\ UNCHANGED <<hold, cur, moved>>

(* The dock button of the terminal looks for its title first.              *)
DockTerminal ==
    /\ Press /\ Titled("T") # {}
    /\ LET i == CHOOSE i \in Titled("T") : \A j \in Titled("T") : i <= j
       IN  Raise(i) /\ shell' = [shell EXCEPT !.win = i]
    /\ menus' = {} /\ UNCHANGED <<hold, cur, moved>>

Launcher ==     \* the button of the launcher in the dock, a click beside it
    /\ Press /\ menus' = IF "launcher" \in menus THEN {} ELSE {"launcher"}
    /\ UNCHANGED <<wins, g_active, wgts, hold, cur, shell, moved>>

(* A right click where no window is shows the context menu.                *)
RightClick ==
    /\ \A i \in Slots : wins[i].visible =>
            cur \notin wins[i].x .. wins[i].x + wins[i].w - 1
    /\ menus' = menus \cup {"context"} /\ menus' # menus
    /\ UNCHANGED <<wins, g_active, wgts, hold, cur, button, shell, moved>>

-----------------------------------------------------------------------------
(* gui_handle_click looks at the window in front first and then at the     *)
(* others by slot.                                                         *)
Under(i) == wins[i].visible /\ cur \in wins[i].x .. wins[i].x + wins[i].w - 1
Hit(i) ==
    /\ Under(i)
    /\ i # g_active => \A j \in Slots : Under(j) => j # g_active /\ i <= j

(* A window that is not visible is never seen again: its slot is taken for *)
(* a new one, a minimized one as well.  Its title is kept for Tidy.        *)
Gone(i) == [wins EXCEPT ![i] = WindowOf(wins[i].title, 0, MinW, FALSE)]

Close(i) ==     \* gui_window_close
    /\ wins' = Gone(i)
    /\ g_active' = IF g_active = i THEN Nobody ELSE g_active

Minimize(i) ==
    wins' = Gone(i) /\ g_active' = Nobody

(* A maximized window has its size by animation only: x and w stay.        *)
Maximize(i) ==
    /\ wins' = [wins EXCEPT ![i] =
            IF ~@.maximized
            THEN [@ EXCEPT !.ox = wins[i].x, !.ow = wins[i].w, !.maximized = TRUE]
            ELSE [@ EXCEPT !.x = wins[i].ox, !.w = wins[i].ow,
                            !.ox = 0, !.ow = MinW, !.maximized = FALSE]]
    /\ UNCHANGED g_active

Edge(i, part) ==
    /\ ~wins[i].maximized /\ ~Tidy
    /\ part = "left" => cur = wins[i].x
    /\ part \in {"right", "corner"} => cur = wins[i].x + wins[i].w - 1

Click(i, part) ==
    /\ Press /\ menus' = {} /\ Hit(i)
    /\ CASE part = "close" -> Close(i) /\ UNCHANGED hold
         [] part = "min" -> Minimize(i) /\ UNCHANGED hold
         [] part = "max" -> Maximize(i) /\ UNCHANGED hold
         [] part = "title" ->
              /\ g_active' = i /\ UNCHANGED wins
              /\ hold' = [hold EXCEPT !.drag = i, !.off = cur - wins[i].x]
         [] part = "body" -> g_active' = i /\ UNCHANGED <<wins, hold>>
         [] OTHER ->
              /\ Edge(i, part) /\ g_active' = i /\ UNCHANGED wins
              /\ hold' = [hold EXCEPT !.size = i, !.dir = part, !.px = cur,
                                      !.x = wins[i].x, !.w = wins[i].w]
    /\ UNCHANGED <<wgts, cur, shell, moved>>

LetGo == ~button    \* nobody holds anything down

StopDrag_Forgotten == UNCHANGED hold
(* The button goes up: gui_stop_drag.  Nothing calls gui_stop_resize.      *)
StopDrag == hold' = [hold EXCEPT !.drag = Nobody, !.off = 0]
Lift ==
    /\ button /\ button' = FALSE /\ StopDrag
    /\ UNCHANGED <<wins, g_active, wgts, cur, menus, shell, moved>>

(* gui_cursor_move: a dragged window follows the pointer and stays on the  *)
(* screen.  The codes of the edges are read as bits: 4, the left edge,     *)
(* widens; 3, the right edge, moves the left one; 8, a corner, does        *)
(* nothing.                                                                *)
Dragged(i, to) ==
    LET nx == to - hold.off
        low == IF nx < 0 THEN 0 ELSE nx
    IN  [wins EXCEPT ![i].x = IF low + wins[i].w > SCR_W
                              THEN SCR_W - wins[i].w ELSE low]

Resized(i, to) ==
    LET d == to - hold.px
        w == CASE hold.dir = "left" -> hold.w + d
               [] hold.dir = "right" -> hold.w - d
               [] OTHER -> wins[i].w
    IN  [wins EXCEPT ![i].x = IF hold.dir = "right" THEN hold.x + d ELSE @,
                     ![i].w = IF w < MinW THEN MinW ELSE w]

MoveCursor(to) ==
    /\ to # cur /\ cur' = to
    /\ wins' = IF hold.drag # Nobody THEN Dragged(hold.drag, to)
               ELSE IF hold.size # Nobody THEN Resized(hold.size, to)
               ELSE wins
    /\ moved' = (moved \/ (LetGo /\ wins' # wins))
    /\ UNCHANGED <<g_active, wgts, hold, button, menus, shell>>

(* gui_shell_keypress: a character, a backspace, or the end of a command.  *)
Key(pos) ==
    /\ shell.win # Nobody /\ wins[shell.win].visible /\ pos # shell.pos
    /\ pos \in {0, shell.pos - 1, shell.pos + 1} \cap 0 .. LINE
    /\ shell' = [shell EXCEPT !.pos = pos]
    /\ UNCHANGED <<wins, g_active, wgts, hold, cur, button, menus, moved>>

(* gui_init: the file manager and the terminal, without widgets of its own.*)
GuiInit ==
    /\ LET t == CHOOSE t \in Titles : t # "T" IN
        /\ wins = [i \in Slots |->
                CASE i = 0 -> WindowOf(t, 0, MinW, TRUE)
                  [] i = 1 -> WindowOf("T", SCR_W - MinW, MinW, TRUE)
                  [] OTHER -> Free]
        /\ wgts = <<[win |-> 0, of |-> t]>>
    /\ g_active = 1 /\ hold = NoHold /\ cur = SCR_W \div 2 /\ button = FALSE
    /\ menus = {} /\ shell = [win |-> 1, pos |-> 0] /\ moved = FALSE

GuiNext ==
    \/ \E t \in Titles : Open(t)
    \/ DockTerminal \/ Launcher \/ RightClick \/ Lift
    \/ \E i \in Slots, part \in Parts : Click(i, part)
    \/ \E to \in 0 .. SCR_W - 1 : MoveCursor(to)
    \/ \E pos \in 0 .. LINE : Key(pos)

GuiSpec == GuiInit /\ [][GuiNext]_guiVars

-----------------------------------------------------------------------------
(* The window in front is one that is shown (gui_window_close,             *)
(* gui_window_set_active).                                                 *)
ActiveShown == g_active # Nobody => wins[g_active].visible

(* Windows stay on the screen (gui_window_create, gui_cursor_move).        *)
WindowsOnScreen ==
    \A i \in Slots : wins[i].visible =>
        wins[i].x >= 0 /\ wins[i].x + wins[i].w <= SCR_W

(* A window has the widgets of its application and no others (wgt_new,     *)
(* gui_window_create).                                                     *)
OwnWidgets ==
    \A k \in DOMAIN wgts : wins[wgts[k].win].visible =>
        wgts[k].of = wins[wgts[k].win].title

(* What is typed goes to a terminal (gui_shell_keypress).                  *)
ShellIsTerminal ==
    shell.win # Nobody /\ wins[shell.win].visible => wins[shell.win].title = "T"

(* Windows move only while the button is down (gui_stop_drag).             *)
MovesWhenHeld == ~moved

(* Windows stay on the screen, move only while they are held, own the      *)
(* widgets they show, and the one in front is shown (gui_mouse,            *)
(* gui_create_window, gui_add_widget).                                     *)
WindowsSound ==
    /\ GuiTypeOK /\ ActiveShown /\ WindowsOnScreen /\ OwnWidgets
    /\ ShellIsTerminal /\ MovesWhenHeld
=============================================================================
