------------------------------ MODULE GuiDialogs ------------------------------
(***************************************************************************)
(* The windows that gui.c opens over the main window, and the export.  The  *)
(* GUI thread runs a message loop of Windows inside TrackPopupMenuEx,        *)
(* MessageBoxW and GetSaveFileNameW, and every one of these loops delivers   *)
(* the notification that drains the queue into the store; while an export    *)
(* is written, or a text copied, no message is dispatched.                   *)
(*                                                                         *)
(* The store is the array of events, which event_store.c reallocates when    *)
(* it is full; the process table plays no part here.  blocks is what the     *)
(* heap holds for this part of the program.  Of a window only its event is   *)
(* kept, of a message its effect, and a command of the context menu copies   *)
(* the whole row.                                                           *)
(***************************************************************************)
EXTENDS Export, FiniteSets

CONSTANTS
  Events,      \* the events that may arrive
  Paths,       \* the paths the user may pick, DefaultPath among them
  OldFiles,    \* the files that are there before
  Rooms,       \* how much a file may hold
  None,
  \* Bounds.
  MaxEvents, MaxWindows, MaxExports

\* What a block of the heap is for.
Kinds == {"events", "details", "text"}

\* A null pointer, a clipboard that holds nothing of the program's and no menu
\* are unlike any block, text or menu.
ASSUME NoneAssumption ==
  /\ None \notin [kind : Kinds, number : Nat]
  /\ None \notin [block : [kind : Kinds, number : Nat], text : Nat]
  /\ None \notin [index : Nat, block : [kind : Kinds, number : Nat] \cup {None}]

\* Every event exports some texts, and a path has a name and an extension.
ASSUME EventsAssumption == Events \subseteq Seq(Seq(Characters)) \ {<<>>}
ASSUME PathsAssumption == Paths \subseteq [name : STRING, extension : STRING]

ASSUME RoomsAssumption == Rooms \subseteq Nat
ASSUME BoundsAssumption == {MaxEvents, MaxWindows, MaxExports} \subseteq Nat

VARIABLES
  gui,        \* which message loop the GUI thread is in; or "export", or "closed"
  store,      \* EventStore: events, event_capacity, and which block they are in
  menu,       \* show_context_menu: the event it points at, and in which block
  windows,    \* the details windows: the block of their state, the index of their event
  blocks,     \* the allocated blocks
  clipboard,  \* the block Windows owns for the program's text, and the text
  export,     \* the export under way: path, format, and the pieces still to write
  disk,       \* what the files hold
  room,       \* the room a file has
  told,       \* what the user has been told of each file
  exports     \* how many exports have been started

dialogs == <<menu, windows, clipboard>>
files == <<export, disk, room, told, exports>>
vars == <<gui, store, dialogs, blocks, files>>

\* The loops that only the main window's own handlers start.
Loops == {"main", "menu", "about", "save", "error"}
Files == {NamedPath(path, format) : path \in Paths, format \in Formats}
Nothing == [at |-> "nothing"]
Garbage == 0
NoExport == [path |-> DefaultPath, format |-> "json", pieces |-> <<>>]

Init ==
  /\ gui = "main"
  /\ store = [events |-> <<>>, capacity |-> 0, block |-> None]
  /\ menu = None /\ windows = {} /\ clipboard = None
  /\ blocks = {}
  /\ export = NoExport /\ exports = 0
  /\ disk = [path \in Files |-> IF path \in OldFiles THEN <<"old">> ELSE None]
  /\ room \in Rooms
  /\ told = [path \in Files |-> Nothing]

Block(kind, number) == [kind |-> kind, number |-> number]
\* A block that malloc may return for this purpose.
Fresh(kind) == Block(kind, CHOOSE n \in 1..(Cardinality(blocks) + 1) : Block(kind, n) \notin blocks)

-----------------------------------------------------------------------------
(* drain_events, in whichever loop the notification arrives *)

\* reserve_events: realloc may move the array, and then frees the old one.
AddEvent(event, capacity, block) ==
  /\ store' = [events |-> Append(store.events, event), capacity |-> capacity, block |-> block]
  /\ blocks' = (blocks \ {store.block}) \cup {block}

Receive ==
  /\ gui \in Loops
  /\ Len(store.events) < MaxEvents
  /\ \E event \in Events :
       IF Len(store.events) < store.capacity
       THEN AddEvent(event, store.capacity, store.block)
       ELSE \E block \in {store.block, Block("events", Len(store.events) + 1)} \ {None} :
              AddEvent(event, IF store.capacity = 0 THEN 1 ELSE 2 * store.capacity, block)
  /\ UNCHANGED <<gui, dialogs, files>>

-----------------------------------------------------------------------------
(* copy_text_to_clipboard: GlobalAlloc, GlobalLock, OpenClipboard,          *)
(* EmptyClipboard, SetClipboardData.  text is the index of the event it     *)
(* describes.                                                               *)

\* The text is on the clipboard, and its block is no longer the program's.
Copied(text) ==
  LET memory == Fresh("text")
  IN  /\ clipboard' = [block |-> memory, text |-> text]
      /\ blocks' = (blocks \ (IF clipboard = None THEN {} ELSE {clipboard.block})) \cup {memory}

\* Faulty variant of NotCopied: the block is Windows' as soon as it is offered.
NotCopiedLeaks ==
  \/ UNCHANGED <<clipboard, blocks>>
  \/ /\ clipboard' = None
     /\ blocks' = (blocks \ (IF clipboard = None THEN {} ELSE {clipboard.block})) \cup {Fresh("text")}

\* No memory, or another program has the clipboard open: nothing is changed.
\* When Windows refuses the text after that, the clipboard is empty.
NotCopied ==
  \/ UNCHANGED <<clipboard, blocks>>
  \/ /\ clipboard' = None
     /\ blocks' = blocks \ (IF clipboard = None THEN {} ELSE {clipboard.block})

CopyText(text) == Copied(text) \/ NotCopied

\* Another program empties the clipboard and sets its own text.
OtherCopies ==
  /\ clipboard # None
  /\ clipboard' = None /\ blocks' = blocks \ {clipboard.block}
  /\ UNCHANGED <<gui, store, menu, windows, files>>

-----------------------------------------------------------------------------
(* The context menu of a row *)

\* Any stored event may have a row that is selected.
OpenMenu ==
  /\ gui = "main"
  /\ \E index \in DOMAIN store.events : menu' = [index |-> index, block |-> store.block]
  /\ gui' = "menu"
  /\ UNCHANGED <<store, windows, clipboard, blocks, files>>

\* What the pointer taken before the loop shows after it.
MenuText == IF menu.block = store.block THEN menu.index ELSE Garbage

MenuCommand ==
  /\ gui = "menu"
  /\ gui' = "main" /\ menu' = None
  /\ CopyText(MenuText)
  /\ UNCHANGED <<store, windows, files>>

DismissMenu ==
  /\ gui = "menu"
  /\ gui' = "main" /\ menu' = None
  /\ UNCHANGED <<store, windows, clipboard, blocks, files>>

-----------------------------------------------------------------------------
(* Details windows.  They are owned by the main window but not modal, and a *)
(* dialog disables the main window alone.                                   *)

\* open_event_details; it does nothing when calloc fails, or CreateWindowExW before
\* it sends WM_CREATE, which details_window_proc never refuses.  Left out: Windows
\* giving the window up after that, when WM_NCDESTROY (gui.c:1499) and then
\* open_event_details (gui.c:1529) free the same state.
OpenDetails ==
  /\ gui = "main"
  /\ Cardinality(windows) < MaxWindows
  /\ \E index \in DOMAIN store.events :
       windows' = windows \cup {[state |-> Fresh("details"), event |-> index]}
  /\ blocks' = blocks \cup {Fresh("details")}
  /\ UNCHANGED <<gui, store, menu, clipboard, files>>

Usable(window) == window \in windows /\ gui \in Loops \ {"menu"}

CopyDetails(window) ==
  /\ Usable(window)
  /\ CopyText(window.event)
  /\ UNCHANGED <<gui, store, menu, windows, files>>

\* WM_NCDESTROY frees the state.
CloseDetails(window) ==
  /\ Usable(window)
  /\ windows' = windows \ {window}
  /\ blocks' = blocks \ {window.state}
  /\ UNCHANGED <<gui, store, menu, clipboard, files>>

-----------------------------------------------------------------------------
(* The About box, and the box that reports a failed export *)

ShowAbout ==
  /\ gui = "main" /\ gui' = "about"
  /\ UNCHANGED <<store, dialogs, blocks, files>>

DismissBox ==
  /\ gui \in {"about", "error"} /\ gui' = "main"
  /\ UNCHANGED <<store, dialogs, blocks, files>>

-----------------------------------------------------------------------------
(* export_session_events *)

BeginExport ==
  /\ gui = "main" /\ gui' = "save"
  /\ exports < MaxExports
  /\ exports' = exports + 1
  /\ UNCHANGED <<store, dialogs, blocks, export, disk, room, told>>

\* The user cancels, or the dialog cannot be shown.
NotPicked ==
  /\ gui = "save" /\ gui' \in {"main", "error"}
  /\ UNCHANGED <<store, dialogs, blocks, files>>

\* The user has confirmed to overwrite the path when it exists.  What is written
\* then is the file of that name and the chosen format's extension.
Pick(path, format) ==
  LET named == NamedPath(path, format)
  IN  \/ /\ Fits(named)
         /\ gui' = "export"
         /\ export' = [path |-> named, format |-> format, pieces |-> PiecesOf(format, store.events)]
         /\ disk' = [disk EXCEPT ![named] = <<>>]
      \/ gui' = "error" /\ UNCHANGED <<export, disk>>

PickPath ==
  /\ gui = "save"
  /\ \E path \in Paths, format \in Formats : Pick(path, format)
  /\ UNCHANGED <<store, dialogs, blocks, room, told, exports>>

\* The first n characters of the next piece reach the file.
Written(n) ==
  LET longer == disk[export.path] \o SubSeq(Head(export.pieces), 1, n)
  IN  /\ Len(longer) <= room
      /\ disk' = [disk EXCEPT ![export.path] = longer]

\* Faulty variant of WritePiece: what WriteFile has not taken is forgotten.
WritePieceOnce ==
  /\ gui = "export" /\ export.pieces # <<>>
  /\ \E n \in 1..Len(Head(export.pieces)) : Written(n)
  /\ export' = [export EXCEPT !.pieces = Tail(@)]
  /\ UNCHANGED <<gui, store, dialogs, blocks, room, told, exports>>

\* write_all: WriteFile may take less than it is given, and the rest follows.
WritePiece ==
  /\ gui = "export" /\ export.pieces # <<>>
  /\ LET piece == Head(export.pieces)
         rest  == Tail(export.pieces)
     IN  \E n \in 1..Len(piece) :
           /\ Written(n)
           /\ export' = [export EXCEPT !.pieces =
                IF n = Len(piece) THEN rest ELSE <<SubSeq(piece, n + 1, Len(piece))>> \o rest]
  /\ UNCHANGED <<gui, store, dialogs, blocks, room, told, exports>>

\* Faulty variant of WriteFails: to take nothing is no failure.
WriteFailsWithRoom ==
  /\ gui = "export" /\ export.pieces # <<>> /\ Len(disk[export.path]) < room
  /\ gui' = "error"
  /\ export' = NoExport
  /\ told' = [told EXCEPT ![export.path] = [at |-> "failed"]]
  /\ UNCHANGED <<store, dialogs, blocks, disk, room, exports>>

\* No memory for the encoded text, or WriteFile fails or takes nothing.  The
\* file stays as far as it was written.
WriteFails ==
  /\ gui = "export" /\ export.pieces # <<>>
  /\ gui' = "error"
  /\ export' = NoExport
  /\ told' = [told EXCEPT ![export.path] = [at |-> "failed"]]
  /\ UNCHANGED <<store, dialogs, blocks, disk, room, exports>>

\* The last buffers reach the disk when the file is closed, or do not.
CloseFile ==
  /\ gui = "export" /\ export.pieces = <<>>
  /\ export' = NoExport
  /\ \/ /\ gui' = "main"
        /\ told' = [told EXCEPT ![export.path] =
                      [at |-> "saved", format |-> export.format, events |-> store.events]]
     \/ /\ gui' = "error"
        /\ told' = [told EXCEPT ![export.path] = [at |-> "failed"]]
  /\ UNCHANGED <<store, dialogs, blocks, disk, room, exports>>

-----------------------------------------------------------------------------
\* Faulty variant of CloseWindow: the details windows have no owner.
CloseWindowAlone ==
  /\ gui \in Loops
  /\ gui' = "closed" /\ menu' = None
  /\ blocks' = blocks \ {store.block}
  /\ store' = [events |-> <<>>, capacity |-> 0, block |-> None]
  /\ UNCHANGED <<windows, clipboard, files>>

(* WM_CLOSE, in any loop: the loops and the calls around them then return   *)
(* without doing anything, the owned windows are destroyed, and             *)
(* shutdown_gui_state frees the store.                                      *)
CloseWindow ==
  /\ gui \in Loops
  /\ gui' = "closed" /\ menu' = None
  /\ windows' = {}
  /\ blocks' = blocks \ ({window.state : window \in windows} \cup {store.block})
  /\ store' = [events |-> <<>>, capacity |-> 0, block |-> None]
  /\ UNCHANGED <<clipboard, files>>

Menu == OpenMenu \/ MenuCommand \/ DismissMenu
Details == OpenDetails \/ \E window \in windows : CopyDetails(window) \/ CloseDetails(window)
Boxes == ShowAbout \/ DismissBox
Writing == WritePiece \/ WriteFails \/ CloseFile
Save == BeginExport \/ NotPicked \/ PickPath \/ Writing

Next == Receive \/ OtherCopies \/ Menu \/ Details \/ Boxes \/ Save \/ CloseWindow

\* Once it writes, the GUI thread does nothing else.
Spec == Init /\ [][Next]_vars /\ WF_vars(Writing)

-----------------------------------------------------------------------------
(* Properties *)

TypeOK ==
  /\ gui \in Loops \cup {"export", "closed"}
  /\ store.events \in Seq(Events) /\ Len(store.events) <= MaxEvents
  /\ (menu # None) = (gui = "menu")
  /\ \A window \in windows : window.event \in DOMAIN store.events
  /\ gui # "export" => export = NoExport
  /\ \A path \in Files : disk[path] # None => Len(disk[path]) <= room \/ disk[path] = <<"old">>

\* Every block of the heap belongs to the store, to one open window or to the
\* clipboard, and each of these has its own: no way out of a call that failed
\* (gui.c:1330-1349, 1517-1531) and no order of closing windows loses one or
\* frees it twice, and after the end only the clipboard's is left.
BlocksOwned ==
  LET stored == IF store.block = None THEN {} ELSE {store.block}
      copied == IF clipboard = None THEN {} ELSE {clipboard.block}
  IN  /\ blocks = stored \cup copied \cup {window.state : window \in windows}
      /\ \A window, other \in windows : window.state = other.state => window = other
      /\ gui = "closed" => blocks = copied

\* What the user has been told of the file is true.
Truthful(path) ==
  /\ told[path].at = "nothing" => disk[path] = IF path \in OldFiles THEN <<"old">> ELSE None
  /\ told[path].at = "saved" =>
       /\ Holds(told[path].format, disk[path], told[path].events)
       /\ path.extension \in KnownExtensions =>
            path.extension = ExtensionOf[told[path].format]

\* The file that the user was told is saved holds, in the format its extension
\* names, every event of the session at that time (README.md:134 and 166), texts
\* with quotes and line breaks included, as a reader of the format finds them;
\* and a file that was touched without becoming such a file was reported.
ExportTruthful == gui # "export" => \A path \in Files : Truthful(path)

\* However much of a piece WriteFile takes at a time, the export ends and the
\* window answers again.
ExportEnds == gui = "export" ~> gui # "export"

\* "right-click to copy available fields" (README.md:129-130): what a command of
\* the menu copies is a field of the row it was opened on.
CopiesChosenRow ==
  [][gui = "menu" /\ gui' = "main" /\ clipboard' \notin {clipboard, None}
       => clipboard'.text = menu.index]_vars
===============================================================================
