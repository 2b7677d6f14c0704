----------------------------- MODULE PaneInput -----------------------------
(***************************************************************************)
(* What the mouse does to the two panes: row selection, double clicks, the *)
(* context menu with its delete dialog, drag and drop, and the dialogs     *)
(* that gate all of it; with the local pane's listing under them.          *)
(*                                                                         *)
(* A frame samples the mouse once and hands it in turn to the rows of both *)
(* panes, the drag, the menu and the dialogs; each looks for the same      *)
(* edge.  What lies at a spot is a pane, a row of it and, over both, menu  *)
(* items and buttons, of which none hides another.  Between frames other   *)
(* parts of the program change what is listed and open the host key        *)
(* prompt.  Frames in which no button changes do nothing else, so they are *)
(* not steps of their own; two buttons do not change in the same frame.    *)
(* RemotePane has the remote listing and its delete dialog; here the       *)
(* remote pane is the other end of a drag.  Range selection with the shift *)
(* key is in RemotePane too, and the dividers are left out.                *)
(***************************************************************************)
EXTENDS Integers, FiniteSets

CONSTANTS Files,      \* local files; a name is an integer above the folders', and
                      \* the rows are in the order of the integers
          TopOnly,    \* bound: files that never come to be in the folder
          Far         \* what the remote directory lists

Up == 0               \* ".."
Folder == 1           \* the one folder in "top"
Folders == {Up, Folder}
LocalDirs == {"top", "sub"}

VARIABLES disk,       \* the files in each local directory
          cwd,        \* local_path
          rows,       \* local_entries
          selected,   \* indices whose local_selected is set
          lastClick,  \* local_row_state.last_click_index, 0 for -1
          lastName,   \* history: the entry under that click, if any
          linked,     \* rc.connecting && !rc.control_joined
          shown,      \* rc.entries
          picked,     \* those whose rc.selected is set
          menu,       \* local_ctx_menu
          named,      \* local_delete_confirm: what it names; empty when closed
          prompt,     \* host_key_confirm.open
          drag,       \* DragState
          held,       \* history: the left button was down ever since drag armed
          dropped,    \* history: what this frame's drop has enqueued
          left,       \* ui_g_mouse_left_down
          edge,       \* the button that changes in this frame
          at,         \* where the mouse is in this frame
          pc          \* the part of the frame that comes next

local == <<disk, cwd, rows, selected, lastClick, lastName>>
remote == <<linked, shown, picked>>
dialogs == <<menu, named, prompt>>
dragging == <<drag, held, dropped>>
mouse == <<left, edge, at>>
vars == <<local, remote, dialogs, dragging, mouse, pc>>

Widgets == {"item", "ok", "cancel", "trust", "refuse"}
Nowhere == [pane |-> "none", row |-> 0, on |-> {}]
Panes == {"local", "remote"}
NoDrag == [active |-> FALSE, dragging |-> FALSE, from |-> "local"]
NoClick == <<"top", Up>>

----------------------------------------------------------------------------
(* The local listing.                                                      *)

\* fs_list_dir: the entries of d in fs_entry_compare's order.  A root has no "..".
Entries(d, files) == files \cup IF d = "top" THEN {Folder} ELSE {Up}
Listed(d, files) ==
  LET S == Entries(d, files)
  IN  [n \in 1 .. Cardinality(S) |->
         CHOOSE v \in S : Cardinality({w \in S : w <= v}) = n]

FilesAt(sel) == {<<cwd, rows[i]>> : i \in {j \in sel : rows[j] \in Files}}

\* Seeded fault: the local pane is listed again and the rows' state is kept.
ShowKeepsRowState(d, files) ==
  /\ cwd' = d
  /\ rows' = Listed(d, files)
  /\ selected' = {}
  /\ UNCHANGED <<lastClick, lastName>>

\* The pane is cleared and filled with directory d, nothing selected.
Show(d, files) ==
  /\ cwd' = d
  /\ rows' = Listed(d, files)
  /\ selected' = {}
  /\ lastClick' = 0 /\ lastName' = NoClick

Init == /\ disk \in [LocalDirs -> SUBSET Files]
        /\ disk["sub"] \cap TopOnly = {}
        /\ cwd = "top" /\ rows = Listed("top", disk["top"])
        /\ selected = {} /\ lastClick = 0 /\ lastName = NoClick
        /\ linked = FALSE /\ shown = {} /\ picked = {}
        /\ menu = FALSE /\ named = {} /\ prompt = FALSE
        /\ drag = NoDrag /\ held = FALSE /\ dropped = {}
        /\ left = FALSE /\ edge = "none" /\ at = Nowhere
        /\ pc = "idle"

----------------------------------------------------------------------------
(* Between frames.                                                         *)

\* A download has ended in directory d: if that is shown it is listed again.
DownloadEnds(d, f) ==
  /\ pc = "idle" /\ (d = "sub" => f \notin TopOnly)
  /\ disk' = [disk EXCEPT ![d] = @ \cup {f}]
  /\ IF d = cwd THEN Show(d, disk'[d]) ELSE UNCHANGED <<cwd, rows, selected, lastClick, lastName>>
  /\ UNCHANGED <<remote, dialogs, dragging, mouse, pc>>

\* The remote pane is emptied: by a refresh, or with the connection.
Emptied(up) ==
  /\ pc = "idle" /\ linked /\ ~prompt
  /\ linked' = up /\ shown' = {} /\ picked' = {}
  /\ UNCHANGED <<local, dialogs, dragging, mouse, pc>>

Filled ==
  /\ pc = "idle" /\ linked /\ ~prompt /\ shown = {}
  /\ shown' = Far
  /\ UNCHANGED <<local, linked, picked, dialogs, dragging, mouse, pc>>

\* A session starts, the user's or an automatic one ...
Reconnect ==
  /\ pc = "idle" /\ ~linked
  /\ linked' = TRUE
  /\ UNCHANGED <<local, shown, picked, dialogs, dragging, mouse, pc>>

\* ... and presents a key that is not pinned.
Prompt ==
  /\ pc = "idle" /\ linked /\ shown = {} /\ ~prompt
  /\ prompt' = TRUE
  /\ UNCHANGED <<local, remote, menu, named, dragging, mouse, pc>>

----------------------------------------------------------------------------
(* A frame.                                                                *)

Visible(w) == CASE w = "item" -> menu
                [] w \in {"ok", "cancel"} -> named # {} \/ menu
                [] w \in {"trust", "refuse"} -> prompt

\* What one press may hit: a dialog's two buttons lie apart.  The press that picks the
\* menu's item also hits a button of the dialog it opens, drawn later in the frame.
Stacks == {S \in SUBSET {w \in Widgets : Visible(w)} :
             /\ ~({"ok", "cancel"} \subseteq S) /\ ~({"trust", "refuse"} \subseteq S)
             /\ named = {} /\ S \cap {"ok", "cancel"} # {} => "item" \in S}

Spots == [pane : {"none"}, row : {0}, on : Stacks]
           \cup [pane : {"local"}, row : 0 .. Cardinality(DOMAIN rows), on : Stacks]
           \cup [pane : {"remote"}, row : {0} \cup shown, on : Stacks]

\* ui_begin_frame.  The right button counts only as it goes down.  A release is looked
\* at for its pane alone, and widgets for presses alone.
Sample(e, spot) ==
  /\ pc = "idle"
  /\ \/ e = "press" /\ ~left /\ left' = TRUE
     \/ e = "release" /\ left /\ left' = FALSE
     \/ e = "right" /\ UNCHANGED left
  /\ e # "press" => spot.on = {}
  /\ e = "release" => spot.row = 0
  /\ edge' = e /\ at' = spot
  /\ pc' = IF e = "release" THEN "drag" ELSE "rows"
  /\ UNCHANGED <<local, remote, dialogs, dragging>>

\* Seeded fault: the delete dialog does not gate the rows behind it.
GatedByPromptOnly == prompt

\* input_gated: a dialog is up, the context menu does not count.
Gated == prompt \/ named # {}

\* What a click does to a selection: with control it toggles its row, without
\* it leaves a selection alone that holds its row.
Toggled(S, i) == (S \ {i}) \cup ({i} \ S)
Collapsed(S, i) == IF i \in S THEN S ELSE {i}

OnRow(i) == ~Gated /\ at.pane = "local" /\ i = at.row /\ i \in DOMAIN rows
Opened(n) == IF n = Up THEN "top" ELSE "sub"

\* A double click on a folder opens it, any other click selects.
ClickLocal(i, ctrl, quick) ==
  /\ pc = "rows" /\ edge = "press" /\ OnRow(i)
  /\ IF quick /\ lastClick = i /\ rows[i] \in Folders
     THEN Show(Opened(rows[i]), disk[Opened(rows[i])])
     ELSE /\ selected' = IF ctrl THEN Toggled(selected, i) ELSE Collapsed(selected, i)
          /\ lastClick' = i /\ lastName' = <<cwd, rows[i]>>
          /\ UNCHANGED <<cwd, rows>>
  /\ pc' = "drag"
  /\ UNCHANGED <<disk, remote, dialogs, dragging, mouse>>

RightClickLocal(i) ==
  /\ pc = "rows" /\ edge = "right" /\ OnRow(i)
  /\ selected' = Collapsed(selected, i)
  /\ menu' = TRUE
  /\ pc' = "drag"
  /\ UNCHANGED <<disk, cwd, rows, lastClick, lastName, remote, named, prompt, dragging, mouse>>

ClickRemote(f, ctrl) ==
  /\ pc = "rows" /\ edge = "press" /\ ~Gated
  /\ at.pane = "remote" /\ f = at.row /\ f \in shown
  /\ picked' = IF ctrl THEN Toggled(picked, f) ELSE Collapsed(picked, f)
  /\ pc' = "drag"
  /\ UNCHANGED <<local, linked, shown, dialogs, dragging, mouse>>

PassRows ==
  /\ pc = "rows"
  /\ \A i \in DOMAIN rows : ~OnRow(i)
  /\ Gated \/ edge = "right" \/ at.pane # "remote" \/ at.row \notin shown
  /\ pc' = "drag"
  /\ UNCHANGED <<local, remote, dialogs, dragging, mouse>>

\* A press over a pane with a selection arms the drag.
HasSelection(p) == IF p = "local" THEN selected # {} ELSE linked /\ picked # {}

ArmDrag ==
  /\ pc = "drag" /\ ~Gated /\ edge = "press" /\ ~drag.active
  /\ at.pane \in Panes /\ HasSelection(at.pane)
  /\ drag' = [active |-> TRUE, dragging |-> FALSE, from |-> at.pane]
  /\ held' = TRUE
  /\ pc' = "menu"
  /\ UNCHANGED <<local, remote, dialogs, dropped, mouse>>

\* It drags once the mouse has gone more than four pixels: another pane is farther.
MoveDrag(moved) ==
  /\ pc = "drag" /\ ~Gated /\ drag.active /\ edge # "release"
  /\ at.pane \in Panes \ {drag.from} => moved
  /\ drag' = [drag EXCEPT !.dragging = @ \/ moved]
  /\ pc' = "menu"
  /\ UNCHANGED <<local, remote, dialogs, held, dropped, mouse>>

\* What dropping enqueues: the other pane's selection, folders as a scan or file by
\* file, never "..".
Cargo == IF drag.from = "local"
         THEN {<<"upload", rows[i]>> : i \in {j \in selected : rows[j] # Up}}
         ELSE {<<"download", f>> : f \in picked}

Release(moved) ==
  /\ pc = "drag" /\ ~Gated /\ drag.active /\ edge = "release"
  /\ at.pane \in Panes \ {drag.from} => moved
  /\ dropped' = IF /\ drag.dragging \/ moved
                   /\ at.pane \in Panes \ {drag.from}
                   /\ at.pane = "remote" => linked
                THEN Cargo ELSE {}
  /\ drag' = NoDrag
  /\ pc' = "menu"
  /\ UNCHANGED <<local, remote, dialogs, held, mouse>>

PassDrag ==
  /\ pc = "drag"
  /\ \/ Gated
     \/ ~drag.active /\ ~(edge = "press" /\ at.pane \in Panes /\ HasSelection(at.pane))
  /\ pc' = "menu"
  /\ UNCHANGED <<local, remote, dialogs, dragging, mouse>>

\* Any press closes the menu; on its item it asks whether to delete the files that
\* are selected now.
PressMenu ==
  /\ pc = "menu"
  /\ menu' = (menu /\ edge # "press")
  /\ named' = IF /\ menu /\ edge = "press" /\ "item" \in at.on
                 /\ FilesAt(selected) # {}
              THEN FilesAt(selected) ELSE named
  /\ pc' = "dialogs"
  /\ UNCHANGED <<local, remote, prompt, dragging, mouse>>

----------------------------------------------------------------------------
(* The dialogs, last in the frame.  Each looks for the press on its own.   *)

Pressed(w) == edge = "press" /\ w \in at.on

\* Deleting may fail, file by file; then the pane is listed again.
Confirm ==
  /\ Pressed("ok") /\ named # {}
  /\ \E gone \in SUBSET FilesAt(selected) :
       disk' = [disk EXCEPT ![cwd] = {f \in @ : <<cwd, f>> \notin gone}]
  /\ Show(cwd, disk'[cwd])
  /\ named' = {}

Cancel ==
  /\ Pressed("cancel") /\ named # {}
  /\ named' = {}
  /\ UNCHANGED local

NoDecision ==
  /\ named = {} \/ ~(Pressed("ok") \/ Pressed("cancel"))
  /\ UNCHANGED <<local, named>>

\* A refused session ends at once; the code drops it a frame or two later, and nothing is
\* listed in between.
Answer(trusted) ==
  /\ Pressed(IF trusted THEN "trust" ELSE "refuse") /\ prompt
  /\ prompt' = FALSE
  /\ linked' = trusted

NoAnswer ==
  /\ ~prompt \/ ~(Pressed("trust") \/ Pressed("refuse"))
  /\ UNCHANGED <<prompt, linked>>

\* The delete dialog, the host key dialog, and the end of the frame.
Dialogs ==
  /\ pc = "dialogs"
  /\ Confirm \/ Cancel \/ NoDecision
  /\ (\E trusted \in BOOLEAN : Answer(trusted)) \/ NoAnswer
  /\ held' = (held /\ left) /\ dropped' = {}
  /\ edge' = "none" /\ at' = Nowhere
  /\ pc' = "idle"
  /\ UNCHANGED <<shown, picked, menu, drag, left>>

----------------------------------------------------------------------------
Between == \/ \E d \in LocalDirs, f \in Files : DownloadEnds(d, f)
           \/ \E up \in BOOLEAN : Emptied(up)
           \/ Filled \/ Reconnect \/ Prompt

Frame == \/ \E e \in {"press", "release", "right"}, s \in Spots : Sample(e, s)
         \/ \E i \in DOMAIN rows :
              \/ \E ctrl, quick \in BOOLEAN : ClickLocal(i, ctrl, quick)
              \/ RightClickLocal(i)
         \/ \E f \in shown, ctrl \in BOOLEAN : ClickRemote(f, ctrl)
         \/ PassRows
         \/ \E b \in BOOLEAN : MoveDrag(b) \/ Release(b)
         \/ ArmDrag \/ PassDrag \/ PressMenu \/ Dialogs

Next == Between \/ Frame

Spec == Init /\ [][Next]_vars

----------------------------------------------------------------------------
(* What must hold.                                                         *)

\* local_selected has as many elements as local_entries: no index that is kept from
\* one frame to the next may lie outside it.
TypeOK ==
  /\ disk \in [LocalDirs -> SUBSET Files] /\ cwd \in LocalDirs
  /\ rows \in [1 .. Cardinality(DOMAIN rows) -> Files \cup Folders]
  /\ selected \subseteq DOMAIN rows
  /\ lastClick \in DOMAIN rows \cup {0}
  /\ lastName \in LocalDirs \X (Files \cup Folders)
  /\ linked \in BOOLEAN /\ shown \subseteq Far /\ picked \subseteq shown
  /\ menu \in BOOLEAN /\ prompt \in BOOLEAN
  /\ named \subseteq LocalDirs \X Files
  /\ drag \in [active : BOOLEAN, dragging : BOOLEAN, from : Panes]
  /\ held \in BOOLEAN
  /\ dropped \subseteq {"upload", "download"} \X (Files \cup Folders \cup Far)
  /\ left \in BOOLEAN /\ edge \in {"none", "press", "release", "right"}
  /\ at.pane \in Panes \cup {"none"} /\ at.on \subseteq Widgets
  /\ pc \in {"idle", "rows", "drag", "menu", "dialogs"}

\* No local file is deleted that the dialog did not name when it opened, wherever the
\* confirming click lands and whatever is listed again meanwhile (ui_core.c: a click
\* meant for the modal "must never fall through and re-select whatever pane row
\* happens to sit under the mouse").
DeletesWhatIsNamed ==
  [][\A d \in LocalDirs : \A f \in disk[d] \ disk'[d] : <<d, f>> \in named]_vars

\* A double click opens the folder that both of its clicks were on, although the pane
\* may be listed again between them.
OpensWhatWasClicked == [][cwd' # cwd => lastName = <<cwd, rows[at.row]>>]_vars

\* Files are enqueued by a drop only if the button was held down from the press that
\* armed the drag (main.c: "a plain click doesn't misfire as a drag").
DropsAreDrags == [][dropped' \subseteq dropped \/ held]_vars

\* A press on the menu's item leaves the selection it is about alone (ui_core.c:
\* "right-clicking one row of an existing multi-selection opens a context menu that
\* acts on the whole selection").
MenuKeepsItsFiles == [][menu /\ "item" \in at.on => UNCHANGED selected]_vars

\* Files are deleted by a press that answers the dialog, not by the one that opens it
\* (main.c: "choosing the menu's one item opens a confirm dialog rather than acting
\* immediately").
AsksFirst == [][disk' # disk /\ pc = "dialogs" => "item" \notin at.on]_vars

=============================================================================
