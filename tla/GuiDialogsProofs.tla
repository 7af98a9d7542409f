--------------------------- MODULE GuiDialogsProofs ---------------------------
(***************************************************************************)
(* The dialogs and the export, for any events, paths, rooms and bounds.  No *)
(* order of arrivals, copies, details windows, exports and closes, and no   *)
(* call that fails, leaks a block of the heap or frees it twice.  And a     *)
(* reader finds in every file that is reported as saved the events of the   *)
(* session, text by text: first for the serializers of export.c alone       *)
(* (ExportRoundTrip), by induction over the characters of a text, the texts *)
(* of an event and the events; then for the writing of the file.            *)
(***************************************************************************)
EXTENDS GuiDialogs, FiniteSetTheorems, NaturalsInduction, SequenceTheorems, TLAPS

Windowed == {window.state : window \in windows}
Stored == IF store.block = None THEN {} ELSE {store.block}
OnClipboard == IF clipboard = None THEN {} ELSE {clipboard.block}

\* The blocks of one purpose are never those of another; what is closed has
\* nothing open.  Only then is the owner of a block unique, and the block that
\* an action frees the one that its owner holds.
KindsApart ==
  /\ store.block # None => store.block.kind = "events"
  /\ clipboard # None => clipboard.block.kind = "text" /\ clipboard.block # None
  /\ \A window \in windows : window.state.kind = "details" /\ window.state # None
  /\ gui = "closed" => store.block = None /\ windows = {}

\* What the texts on the clipboard are about.
Indexed ==
  /\ store.events \in Seq(Events)
  /\ store.capacity \in Nat /\ (store.capacity # 0 => store.block # None)
  /\ \A window \in windows : window.event \in Nat
  /\ gui = "menu" => menu.index \in Nat

HeapInv == IsFiniteSet(blocks) /\ KindsApart /\ Indexed /\ BlocksOwned

-----------------------------------------------------------------------------
LEMMA BlockFields ==
  ASSUME NEW kind \in Kinds, NEW n \in Nat
  PROVE  /\ Block(kind, n).kind = kind
         /\ Block(kind, n).number = n
         /\ Block(kind, n) # None
  BY NoneAssumption DEF Block

\* malloc returns a block that is not in use: of Cardinality(blocks) + 1 blocks
\* at least one is free.
LEMMA FreshIsFree ==
  ASSUME IsFiniteSet(blocks), NEW kind \in Kinds
  PROVE  /\ Fresh(kind) \notin blocks
         /\ Fresh(kind).kind = kind
         /\ Fresh(kind) \in [kind : Kinds, number : Nat]
         /\ Fresh(kind) # None
<1> DEFINE c == Cardinality(blocks)
           f == [n \in 1..(c + 1) |-> Block(kind, n)]
           Free(n) == Block(kind, n) \notin blocks
<1>1. c \in Nat
  BY FS_CardinalityType
<1>2. IsFiniteSet(1..(c + 1)) /\ Cardinality(1..(c + 1)) = c + 1
  BY <1>1, FS_Interval
<1>3. \E n \in 1..(c + 1) : Free(n)
  <2> SUFFICES ASSUME \A n \in 1..(c + 1) : Block(kind, n) \in blocks PROVE FALSE
    OBVIOUS
  <2>1. f \in [1..(c + 1) -> blocks]
    OBVIOUS
  <2>2. c < Cardinality(1..(c + 1))
    BY <1>1, <1>2
  <2> HIDE DEF f
  <2>3. PICK x, y \in 1..(c + 1) : x # y /\ f[x] = f[y]
    BY <1>2, <2>1, <2>2, FS_PigeonHole
  <2>4. Block(kind, x) = Block(kind, y)
    BY <2>3 DEF f
  <2> QED BY <1>1, <2>3, <2>4, BlockFields
<1> DEFINE n == CHOOSE n \in 1..(c + 1) : Free(n)
<1>4. n \in 1..(c + 1) /\ Free(n)
  BY <1>3
<1>5. Fresh(kind) = Block(kind, n)
  BY DEF Fresh
<1> HIDE DEF n
<1> QED BY <1>1, <1>4, <1>5, BlockFields DEF Block

-----------------------------------------------------------------------------
LEMMA HeapInvInit == Init => HeapInv
<1> SUFFICES ASSUME Init PROVE HeapInv
  OBVIOUS
<1>1. /\ blocks = {} /\ store.block = None /\ clipboard = None /\ windows = {}
      /\ gui = "main" /\ store.events = <<>> /\ store.capacity = 0
  BY DEF Init
<1>2. IsFiniteSet(blocks) /\ store.events \in Seq(Events)
  BY <1>1, FS_EmptySet
<1> QED BY <1>1, <1>2 DEF HeapInv, KindsApart, Indexed, BlocksOwned

\* What an allocation and a release do to the finiteness of the heap.
LEMMA StillFinite ==
  ASSUME NEW S, IsFiniteSet(S), NEW out, NEW in
  PROVE  IsFiniteSet(S \ out) /\ IsFiniteSet((S \ out) \cup {in}) /\ IsFiniteSet(S \cup {in})
<1>1. S \ out \in SUBSET S
  OBVIOUS
<1>2. IsFiniteSet(S \ out)
  BY <1>1, FS_Subset
<1> QED BY <1>2, FS_AddElement

\* copy_text_to_clipboard, whichever way it ends, replaces or frees the one
\* block that is the clipboard's.
LEMMA CopyKeepsHeap ==
  ASSUME HeapInv, NEW text \in Nat, CopyText(text),
         UNCHANGED store, UNCHANGED windows, gui # "closed", gui' # "closed",
         gui' = "menu" => menu' = menu /\ gui = "menu"
  PROVE  HeapInv'
<1>0. /\ IsFiniteSet(blocks) /\ KindsApart /\ Indexed /\ BlocksOwned
      /\ store' = store /\ windows' = windows
  BY DEF HeapInv
<1>1. blocks = Stored \cup OnClipboard \cup Windowed
  BY <1>0 DEF BlocksOwned, Stored, OnClipboard, Windowed
<1>2. Indexed'
  BY <1>0 DEF Indexed
<1>3. CASE Copied(text)
  <2> DEFINE memory == Fresh("text")
  <2>a. "text" \in Kinds
    BY DEF Kinds
  <2>0. IsFiniteSet(blocks)
    BY <1>0
  <2>1. /\ memory \notin blocks /\ memory.kind = "text" /\ memory # None
        /\ memory \in [kind : Kinds, number : Nat]
    BY <2>a, <2>0, FreshIsFree, Zenon
  <2>2. /\ clipboard' = [block |-> memory, text |-> text]
        /\ blocks' = (blocks \ OnClipboard) \cup {memory}
    BY <1>3 DEF Copied, OnClipboard
  <2> HIDE DEF memory
  <2>3. clipboard' # None /\ clipboard'.block = memory
    BY <2>1, <2>2, NoneAssumption
  <2>4. IsFiniteSet(blocks')
    BY <1>0, <2>2, StillFinite
  <2>5. KindsApart'
    BY <1>0, <2>1, <2>3 DEF KindsApart
  <2>6. Stored \cap OnClipboard = {} /\ Windowed \cap OnClipboard = {}
    BY <1>0 DEF KindsApart, Stored, OnClipboard, Windowed
  <2>7. blocks' = Stored \cup {memory} \cup Windowed
    BY <1>1, <2>2, <2>6
  <2>8. BlocksOwned'
    BY <1>0, <2>3, <2>7 DEF BlocksOwned, Stored, Windowed
  <2> QED BY <1>2, <2>4, <2>5, <2>8 DEF HeapInv
<1>4. CASE NotCopied /\ clipboard' = clipboard /\ blocks' = blocks
  BY <1>0, <1>2, <1>4 DEF HeapInv, KindsApart, BlocksOwned
<1>5. CASE clipboard' = None /\ blocks' = blocks \ OnClipboard
  <2>1. IsFiniteSet(blocks')
    BY <1>0, <1>5, StillFinite
  <2>2. Stored \cap OnClipboard = {} /\ Windowed \cap OnClipboard = {}
    BY <1>0 DEF KindsApart, Stored, OnClipboard, Windowed
  <2>3. blocks' = Stored \cup Windowed
    BY <1>1, <1>5, <2>2
  <2>4. BlocksOwned'
    BY <1>0, <1>5, <2>3 DEF BlocksOwned, Stored, Windowed
  <2> QED BY <1>0, <1>2, <1>5, <2>1, <2>4 DEF HeapInv, KindsApart
<1> QED BY <1>3, <1>4, <1>5 DEF CopyText, NotCopied, OnClipboard

\* Steps that leave the heap and its owners alone.
LEMMA HeapUntouched ==
  ASSUME HeapInv, UNCHANGED <<store, windows, clipboard, blocks>>,
         gui # "closed" \/ UNCHANGED gui, gui' = "closed" => UNCHANGED gui,
         gui' = "menu" => menu'.index \in Nat
  PROVE  HeapInv'
  BY DEF HeapInv, KindsApart, Indexed, BlocksOwned

-----------------------------------------------------------------------------
\* reserve_events frees the array it has left, and no other block.
LEMMA ReceiveKeepsHeap == HeapInv /\ Receive => HeapInv'
<1> SUFFICES ASSUME HeapInv, Receive PROVE HeapInv'
  OBVIOUS
<1>0. /\ IsFiniteSet(blocks) /\ KindsApart /\ Indexed /\ BlocksOwned
      /\ UNCHANGED <<gui, menu, windows, clipboard>> /\ gui # "closed"
  BY DEF HeapInv, Receive, dialogs, Loops
<1>1. PICK event \in Events :
        IF Len(store.events) < store.capacity
        THEN AddEvent(event, store.capacity, store.block)
        ELSE \E block \in {store.block, Block("events", Len(store.events) + 1)} \ {None} :
               AddEvent(event, IF store.capacity = 0 THEN 1 ELSE 2 * store.capacity, block)
  BY DEF Receive
<1>2. /\ Len(store.events) \in Nat /\ store.capacity \in Nat
      /\ store.capacity # 0 => store.block # None
  BY <1>0 DEF Indexed
<1>3. "events" \in Kinds
  BY DEF Kinds
<1>4. Block("events", Len(store.events) + 1).kind = "events"
  BY <1>2, <1>3, BlockFields
<1>5. \E capacity \in Nat, block \in {store.block, Block("events", Len(store.events) + 1)} :
        AddEvent(event, capacity, block) /\ block # None /\ block.kind = "events"
  <2>1. CASE Len(store.events) < store.capacity
    <3>1. store.block # None /\ store.block.kind = "events"
      BY <1>0, <1>2, <2>1 DEF KindsApart
    <3> QED BY <1>1, <1>2, <2>1, <3>1
  <2>2. CASE ~(Len(store.events) < store.capacity)
    <3>1. PICK block \in {store.block, Block("events", Len(store.events) + 1)} \ {None} :
            AddEvent(event, IF store.capacity = 0 THEN 1 ELSE 2 * store.capacity, block)
      BY <1>1, <2>2
    <3>2. block # None /\ block.kind = "events"
      BY <1>0, <1>4, <3>1 DEF KindsApart
    <3>3. (IF store.capacity = 0 THEN 1 ELSE 2 * store.capacity) \in Nat
      BY <1>2
    <3> QED BY <3>1, <3>2, <3>3
  <2> QED BY <2>1, <2>2
<1>6. PICK capacity \in Nat, block \in {store.block, Block("events", Len(store.events) + 1)} :
        AddEvent(event, capacity, block) /\ block # None /\ block.kind = "events"
  BY <1>5
<1>7. /\ store'.block = block /\ store'.capacity = capacity
      /\ store'.events = Append(store.events, event)
      /\ blocks' = (blocks \ {store.block}) \cup {block}
  BY <1>6 DEF AddEvent
<1>8. KindsApart' /\ Indexed'
  BY <1>0, <1>6, <1>7 DEF KindsApart, Indexed
<1>9. IsFiniteSet(blocks')
  BY <1>0, <1>7, StillFinite
<1>10. BlocksOwned'
  <2>1. blocks = Stored \cup OnClipboard \cup Windowed
    BY <1>0 DEF BlocksOwned, Stored, OnClipboard, Windowed
  <2>2. None \notin OnClipboard \cup Windowed
    BY <1>0 DEF KindsApart, OnClipboard, Windowed
  <2>3. (OnClipboard \cup Windowed) \ {store.block} = OnClipboard \cup Windowed
    BY <1>0, <2>2 DEF KindsApart, OnClipboard, Windowed
  <2>4. Stored \ {store.block} = {}
    BY DEF Stored
  <2>5. blocks' = {block} \cup OnClipboard \cup Windowed
    BY <1>7, <2>1, <2>3, <2>4
  <2> QED BY <1>0, <1>6, <1>7, <2>5 DEF BlocksOwned, OnClipboard, Windowed
<1> QED BY <1>8, <1>9, <1>10 DEF HeapInv

\* A details window gets a block of its own and gives it back, alone.
LEMMA DetailsKeepHeap == HeapInv /\ Details => HeapInv'
<1> SUFFICES ASSUME HeapInv, Details PROVE HeapInv'
  OBVIOUS
<1>0. /\ IsFiniteSet(blocks) /\ KindsApart /\ Indexed /\ BlocksOwned
      /\ blocks = Stored \cup OnClipboard \cup Windowed
  BY DEF HeapInv, BlocksOwned, Stored, OnClipboard, Windowed
<1>1. CASE OpenDetails
  <2> DEFINE state == Fresh("details")
  <2>1. "details" \in Kinds
    BY DEF Kinds
  <2>2. state \notin blocks /\ state.kind = "details" /\ state # None
    BY <1>0, <2>1, FreshIsFree, Zenon
  <2> HIDE DEF state
  <2>3. PICK index \in DOMAIN store.events :
          windows' = windows \cup {[state |-> state, event |-> index]}
    BY <1>1 DEF OpenDetails, state
  <2>4. /\ blocks' = blocks \cup {state} /\ UNCHANGED <<gui, store, menu, clipboard>>
        /\ gui = "main"
    BY <1>1 DEF OpenDetails, state
  <2>5. index \in Nat
    BY <1>0, <2>3 DEF Indexed
  <2>6. IsFiniteSet(blocks')
    BY <1>0, <2>4, StillFinite
  <2>7. KindsApart' /\ Indexed'
    BY <1>0, <2>2, <2>3, <2>4, <2>5 DEF KindsApart, Indexed
  <2>8. \A window \in windows : window.state # state
    BY <1>0, <2>2 DEF Windowed
  <2> DEFINE new == [state |-> state, event |-> index]
  <2>9. windows' = windows \cup {new} /\ new.state = state
    BY <2>3
  <2> HIDE DEF new
  <2>10. {window.state : window \in windows'} = Windowed \cup {state}
    BY <2>9 DEF Windowed
  <2>11. blocks' = Stored \cup OnClipboard \cup {window.state : window \in windows'}
    BY <1>0, <2>4, <2>10
  <2>12. \A window, other \in windows' : window.state = other.state => window = other
    BY <1>0, <2>8, <2>9 DEF BlocksOwned
  <2>13. BlocksOwned'
    BY <2>4, <2>11, <2>12 DEF BlocksOwned, Stored, OnClipboard
  <2> QED BY <2>6, <2>7, <2>13 DEF HeapInv
<1>2. ASSUME NEW window \in windows, CopyDetails(window) PROVE HeapInv'
  <2>1. window.event \in Nat
    BY <1>0 DEF Indexed
  <2>2. /\ CopyText(window.event) /\ UNCHANGED <<gui, store, menu, windows>>
        /\ gui # "closed"
    BY <1>2 DEF CopyDetails, Usable, Loops
  <2> QED BY <2>1, <2>2, CopyKeepsHeap
<1>3. ASSUME NEW window \in windows, CloseDetails(window) PROVE HeapInv'
  <2>1. /\ windows' = windows \ {window} /\ blocks' = blocks \ {window.state}
        /\ UNCHANGED <<gui, store, menu, clipboard>>
    BY <1>3 DEF CloseDetails
  <2>2. IsFiniteSet(blocks')
    BY <1>0, <2>1, StillFinite
  <2>3. KindsApart' /\ Indexed'
    BY <1>0, <2>1 DEF KindsApart, Indexed
  <2>4. window.state \notin Stored \cup OnClipboard
    BY <1>0 DEF KindsApart, Stored, OnClipboard
  <2>5. \A other \in windows \ {window} : other.state # window.state
    BY <1>0 DEF BlocksOwned
  <2>6. Windowed \ {window.state} = {other.state : other \in windows'}
    BY <2>1, <2>5 DEF Windowed
  <2>7. blocks' = Stored \cup OnClipboard \cup {other.state : other \in windows'}
    BY <1>0, <2>1, <2>4, <2>6
  <2>8. BlocksOwned'
    BY <1>0, <2>1, <2>7 DEF BlocksOwned, Stored, OnClipboard, KindsApart
  <2> QED BY <2>2, <2>3, <2>8 DEF HeapInv
<1> QED BY <1>1, <1>2, <1>3 DEF Details

\* The end frees the array and the windows; the clipboard's block is Windows'.
LEMMA CloseKeepsHeap == HeapInv /\ CloseWindow => HeapInv'
<1> SUFFICES ASSUME HeapInv, CloseWindow PROVE HeapInv'
  OBVIOUS
<1>0. /\ IsFiniteSet(blocks) /\ KindsApart /\ Indexed
      /\ blocks = Stored \cup OnClipboard \cup Windowed
  BY DEF HeapInv, BlocksOwned, Stored, OnClipboard, Windowed
<1>1. /\ windows' = {} /\ clipboard' = clipboard /\ gui' = "closed"
      /\ store'.block = None /\ store'.events = <<>> /\ store'.capacity = 0
      /\ blocks' = blocks \ (Windowed \cup {store.block})
  BY DEF CloseWindow, Windowed
<1>2. IsFiniteSet(blocks')
  BY <1>0, <1>1, StillFinite
<1>3. KindsApart' /\ Indexed'
  BY <1>0, <1>1 DEF KindsApart, Indexed
<1>4. OnClipboard \cap (Windowed \cup {store.block}) = {}
  BY <1>0 DEF KindsApart, OnClipboard, Windowed
<1>5. blocks' = OnClipboard
  BY <1>0, <1>1, <1>4 DEF Stored
<1>6. BlocksOwned'
  BY <1>1, <1>5 DEF BlocksOwned, OnClipboard
<1> QED BY <1>2, <1>3, <1>6 DEF HeapInv

LEMMA HeapInvNext == HeapInv /\ [Next]_vars => HeapInv'
<1> SUFFICES ASSUME HeapInv, [Next]_vars PROVE HeapInv'
  OBVIOUS
<1>1. CASE Receive
  BY <1>1, ReceiveKeepsHeap
<1>2. CASE OtherCopies
  <2>1. /\ IsFiniteSet(blocks) /\ KindsApart /\ Indexed /\ BlocksOwned
        /\ blocks = Stored \cup OnClipboard \cup Windowed
    BY DEF HeapInv, BlocksOwned, Stored, OnClipboard, Windowed
  <2>2. /\ clipboard' = None /\ blocks' = blocks \ OnClipboard
        /\ UNCHANGED <<gui, store, menu, windows>>
    BY <1>2 DEF OtherCopies, OnClipboard
  <2>3. IsFiniteSet(blocks')
    BY <2>1, <2>2, StillFinite
  <2>4. Stored \cap OnClipboard = {} /\ Windowed \cap OnClipboard = {}
    BY <2>1 DEF KindsApart, Stored, OnClipboard, Windowed
  <2>5. blocks' = Stored \cup Windowed
    BY <2>1, <2>2, <2>4
  <2>6. BlocksOwned'
    BY <2>1, <2>2, <2>5 DEF BlocksOwned, Stored, Windowed, KindsApart
  <2>7. KindsApart' /\ Indexed'
    BY <2>1, <2>2 DEF KindsApart, Indexed
  <2> QED BY <2>3, <2>6, <2>7 DEF HeapInv
<1>3. CASE OpenMenu
  <2>1. store.events \in Seq(Events)
    BY DEF HeapInv, Indexed
  <2>2. PICK index \in DOMAIN store.events : menu' = [index |-> index, block |-> store.block]
    BY <1>3 DEF OpenMenu
  <2>3. menu'.index \in Nat
    BY <2>1, <2>2
  <2> QED BY <1>3, <2>3, HeapUntouched DEF OpenMenu
<1>4. CASE MenuCommand
  <2>1. MenuText \in Nat
    BY <1>4 DEF MenuCommand, MenuText, Garbage, HeapInv, Indexed
  <2> QED BY <1>4, <2>1, CopyKeepsHeap DEF MenuCommand
<1>5. CASE DismissMenu
  BY <1>5, HeapUntouched DEF DismissMenu
<1>6. CASE Details
  BY <1>6, DetailsKeepHeap
<1>7. CASE Boxes
  BY <1>7, HeapUntouched DEF Boxes, ShowAbout, DismissBox, dialogs
<1>8. CASE Save
  <2>1. CASE BeginExport \/ NotPicked
    BY <2>1, HeapUntouched DEF BeginExport, NotPicked, dialogs
  <2>2. CASE PickPath
    BY <2>2, HeapUntouched DEF PickPath, Pick, dialogs
  <2>3. CASE Writing
    BY <2>3, HeapUntouched DEF Writing, WritePiece, WriteFails, CloseFile, dialogs
  <2> QED BY <1>8, <2>1, <2>2, <2>3 DEF Save
<1>9. CASE CloseWindow
  BY <1>9, CloseKeepsHeap
<1>10. CASE UNCHANGED vars
  BY <1>10 DEF vars, dialogs, HeapInv, KindsApart, Indexed, BlocksOwned
<1> QED BY <1>1, <1>2, <1>3, <1>4, <1>5, <1>6, <1>7, <1>8, <1>9, <1>10 DEF Next, Menu

-----------------------------------------------------------------------------
\* Every block of the heap has one owner, in every session: nothing that
\* open_event_details, copy_text_to_clipboard or reserve_events allocates is lost
\* or freed twice, and after WM_CLOSE only the clipboard's block is left.
THEOREM DialogsOwnBlocks == Spec => []BlocksOwned
<1>1. HeapInv => BlocksOwned
  BY DEF HeapInv
<1> QED BY HeapInvInit, HeapInvNext, <1>1, PTL DEF Spec

-----------------------------------------------------------------------------
\* What TypeOK needs to be inductive: every file has an entry, the room is a
\* number, and what an open menu remembers is unlike no menu.
FilesInv == room \in Nat /\ DOMAIN disk = Files
StoreInv == store.block \in [kind : Kinds, number : Nat] \cup {None}

DialogsTyped == TypeOK /\ FilesInv /\ StoreInv

LEMMA TypedInit == Init => DialogsTyped
<1> SUFFICES ASSUME Init PROVE DialogsTyped
  OBVIOUS
<1>1. /\ gui = "main" /\ store.events = <<>> /\ store.block = None /\ menu = None /\ windows = {} /\ export = NoExport
      /\ room \in Rooms
      /\ disk = [path \in Files |-> IF path \in OldFiles THEN <<"old">> ELSE None]
  BY DEF Init
<1>2. store.events \in Seq(Events) /\ Len(store.events) <= MaxEvents
  BY <1>1, BoundsAssumption
<1>3. \A path \in Files : disk[path] = <<"old">> \/ disk[path] = None
  BY <1>1
<1> QED BY <1>1, <1>2, <1>3, RoomsAssumption DEF DialogsTyped, TypeOK, FilesInv, StoreInv, Loops

\* An arriving event leaves the indices of the others.
LEMMA TypedByReceive == DialogsTyped /\ Receive => DialogsTyped'
<1> SUFFICES ASSUME DialogsTyped, Receive PROVE DialogsTyped'
  OBVIOUS
<1>1. /\ UNCHANGED <<gui, menu, windows, export, disk, room>>
      /\ Len(store.events) < MaxEvents
  BY DEF Receive, dialogs, files
<1>2. PICK event \in Events : store'.events = Append(store.events, event)
  BY DEF Receive, AddEvent
<1>3. store.events \in Seq(Events) /\ \A window \in windows : window.event \in DOMAIN store.events
  BY DEF DialogsTyped, TypeOK
<1>4. /\ store'.events \in Seq(Events) /\ Len(store'.events) = Len(store.events) + 1
      /\ Len(store.events) \in Nat
      /\ DOMAIN store.events \subseteq DOMAIN store'.events
  BY <1>2, <1>3
<1>5. Len(store'.events) <= MaxEvents
  BY <1>1, <1>4, BoundsAssumption
<1>6. \A window \in windows' : window.event \in DOMAIN store'.events
  BY <1>1, <1>3, <1>4
<1>7. StoreInv'
  <2>1. store'.block \in {store.block, Block("events", Len(store.events) + 1)}
    BY DEF Receive, AddEvent
  <2>2. Block("events", Len(store.events) + 1) \in [kind : Kinds, number : Nat]
    BY <1>4 DEF Block, Kinds
  <2> QED BY <2>1, <2>2 DEF DialogsTyped, StoreInv
<1> QED BY <1>1, <1>4, <1>5, <1>6, <1>7 DEF DialogsTyped, TypeOK, FilesInv, StoreInv

\* An export opens a file that is in the model, and no file outgrows its room.
LEMMA TypedBySave == DialogsTyped /\ Save => DialogsTyped'
<1> SUFFICES ASSUME DialogsTyped, Save PROVE DialogsTyped'
  OBVIOUS
<1>1. /\ UNCHANGED <<store, menu, windows, room>> /\ gui # "menu" /\ gui' # "menu"
      /\ gui' \in Loops \cup {"export", "closed"}
  <2>1. CASE BeginExport \/ NotPicked
    BY <2>1 DEF BeginExport, NotPicked, dialogs, files, Loops
  <2>2. CASE PickPath
    BY <2>2 DEF PickPath, Pick, dialogs, Loops
  <2>3. CASE Writing
    <3>1. /\ UNCHANGED <<store, dialogs, room>> /\ gui = "export"
          /\ gui' \in {"export", "main", "error"}
      BY <2>3 DEF Writing, WritePiece, WriteFails, CloseFile
    <3> QED BY <3>1 DEF dialogs, Loops
  <2> QED BY <2>1, <2>2, <2>3 DEF Save
<1>2. /\ room \in Nat /\ DOMAIN disk = Files
      /\ \A path \in Files : disk[path] # None => Len(disk[path]) <= room \/ disk[path] = <<"old">>
  BY DEF DialogsTyped, TypeOK, FilesInv, StoreInv
<1>3. /\ gui' # "export" => export' = NoExport
      /\ \/ disk' = disk
         \/ \E path, file : disk' = [disk EXCEPT ![path] = file] /\ Len(file) <= room
  <2>1. CASE BeginExport
    BY <2>1 DEF BeginExport, DialogsTyped, TypeOK
  <2>2. CASE NotPicked
    BY <2>2 DEF NotPicked, files, DialogsTyped, TypeOK
  <2>3. CASE PickPath
    <3>1. gui = "save" /\ export = NoExport
      BY <2>3 DEF PickPath, DialogsTyped, TypeOK
    <3>2. PICK path \in Paths, format \in Formats : Pick(path, format)
      BY <2>3 DEF PickPath
    <3>3. CASE gui' = "error" /\ UNCHANGED <<export, disk>>
      BY <3>1, <3>3
    <3>4. CASE gui' = "export" /\ disk' = [disk EXCEPT ![NamedPath(path, format)] = <<>>]
      <4>1. Len(<<>>) <= room
        BY <1>2
      <4> QED BY <3>4, <4>1
    <3> QED BY <3>2, <3>3, <3>4 DEF Pick
  <2>4. CASE WritePiece
    <3>1. gui' = "export"
      BY <2>4 DEF WritePiece
    <3>2. PICK n \in 1..Len(Head(export.pieces)) : Written(n)
      BY <2>4 DEF WritePiece
    <3> QED BY <3>1, <3>2 DEF Written
  <2>5. CASE WriteFails
    BY <2>5 DEF WriteFails
  <2>6. CASE CloseFile
    BY <2>6 DEF CloseFile
  <2> QED BY <2>1, <2>2, <2>3, <2>4, <2>5, <2>6 DEF Save, Writing
<1>4. /\ DOMAIN disk' = Files
      /\ \A path \in Files : disk'[path] # None => Len(disk'[path]) <= room \/ disk'[path] = <<"old">>
  <2>1. CASE disk' = disk
    BY <1>2, <2>1
  <2>2. ASSUME NEW path, NEW file, disk' = [disk EXCEPT ![path] = file], Len(file) <= room
        PROVE  /\ DOMAIN disk' = Files
               /\ \A other \in Files : disk'[other] # None =>
                    Len(disk'[other]) <= room \/ disk'[other] = <<"old">>
    <3>1. /\ DOMAIN disk' = DOMAIN disk
          /\ \A other \in DOMAIN disk : disk'[other] = IF other = path THEN file ELSE disk[other]
      BY <2>2
    <3> QED BY <1>2, <2>2, <3>1
  <2> QED BY <1>3, <2>1, <2>2
<1>5. menu' = None /\ menu = None
  BY <1>1 DEF DialogsTyped, TypeOK
<1> QED BY <1>1, <1>2, <1>3, <1>4, <1>5 DEF DialogsTyped, TypeOK, FilesInv, StoreInv

LEMMA TypedNext == DialogsTyped /\ [Next]_vars => DialogsTyped'
<1> SUFFICES ASSUME DialogsTyped, [Next]_vars PROVE DialogsTyped'
  OBVIOUS
<1>1. CASE Receive
  BY <1>1, TypedByReceive
<1>2. CASE OtherCopies
  BY <1>2 DEF OtherCopies, files, DialogsTyped, TypeOK, FilesInv, StoreInv
<1>3. CASE OpenMenu
  <2>1. \E index \in DOMAIN store.events : menu' = [index |-> index, block |-> store.block]
    BY <1>3 DEF OpenMenu
  <2>2. store.events \in Seq(Events) /\ store.block \in [kind : Kinds, number : Nat] \cup {None}
    BY DEF DialogsTyped, TypeOK, StoreInv
  <2>3. menu' \in [index : Nat, block : [kind : Kinds, number : Nat] \cup {None}]
    BY <2>1, <2>2
  <2>4. menu' # None
    BY <2>3, NoneAssumption
  <2> QED BY <1>3, <2>4 DEF OpenMenu, files, DialogsTyped, TypeOK, FilesInv, StoreInv, Loops
<1>4. CASE MenuCommand \/ DismissMenu
  BY <1>4 DEF MenuCommand, DismissMenu, files, DialogsTyped, TypeOK, FilesInv, StoreInv, Loops
<1>5. CASE Details
  <2>1. UNCHANGED <<gui, store, menu, export, disk, room>>
    BY <1>5 DEF Details, OpenDetails, CopyDetails, CloseDetails, files
  <2>2. \A window \in windows' : window.event \in DOMAIN store.events
    <3>1. \A window \in windows : window.event \in DOMAIN store.events
      BY DEF DialogsTyped, TypeOK
    <3>2. CASE OpenDetails
      <4>1. PICK index \in DOMAIN store.events :
              windows' = windows \cup {[state |-> Fresh("details"), event |-> index]}
        BY <3>2 DEF OpenDetails
      <4> QED BY <3>1, <4>1
    <3>3. CASE \E window \in windows : CopyDetails(window) \/ CloseDetails(window)
      <4>1. windows' \subseteq windows
        BY <3>3 DEF CopyDetails, CloseDetails
      <4> QED BY <3>1, <4>1
    <3> QED BY <1>5, <3>2, <3>3 DEF Details
  <2> QED BY <2>1, <2>2 DEF DialogsTyped, TypeOK, FilesInv, StoreInv
<1>6. CASE Boxes
  BY <1>6 DEF Boxes, ShowAbout, DismissBox, dialogs, files, DialogsTyped, TypeOK, FilesInv, StoreInv, Loops
<1>7. CASE Save
  BY <1>7, TypedBySave
<1>8. CASE CloseWindow
  <2>1. store'.events = <<>> /\ store'.block = None /\ windows' = {} /\ menu' = None /\ gui' = "closed" /\ gui \in Loops
        /\ UNCHANGED <<export, disk, room>>
    BY <1>8 DEF CloseWindow, files
  <2>2. store'.events \in Seq(Events) /\ Len(store'.events) <= MaxEvents
    BY <2>1, BoundsAssumption
  <2> QED BY <2>1, <2>2 DEF DialogsTyped, TypeOK, FilesInv, StoreInv, Loops
<1>9. CASE UNCHANGED vars
  BY <1>9 DEF vars, dialogs, files, DialogsTyped, TypeOK, FilesInv, StoreInv
<1> QED BY <1>1, <1>2, <1>3, <1>4, <1>5, <1>6, <1>7, <1>8, <1>9 DEF Next, Menu

\* The variables have their types, every details window shows an event of the
\* store, and no file outgrows the room it has.
THEOREM DialogsTypeCorrect == Spec => []TypeOK
<1>1. DialogsTyped => TypeOK
  BY DEF DialogsTyped
<1> QED BY TypedInit, TypedNext, <1>1, PTL DEF Spec

-----------------------------------------------------------------------------
(* Induction *)

\* A set of numbers that is not empty has a least one.
LEMMA LeastNumber ==
  ASSUME NEW S, S \subseteq Nat, S # {}
  PROVE  \E n \in S : \A m \in S : n <= m
<1> DEFINE R == OpToRel(<, Nat)
<1>1. \E x \in S : \A y \in S : ~(<<y, x>> \in R)
  <2> HIDE DEF R
  <2> QED BY NatLessThanWellFounded, WFMin DEF R
<1>2. PICK n \in S : \A y \in S : ~(<<y, n>> \in R)
  BY <1>1
<1>3. n \in Nat /\ \A y \in S : ~(y < n)
  BY <1>2 DEF OpToRel
<1>4. \A y \in S : n <= y
  <2> HIDE DEF R
  <2> QED BY <1>3
<1> QED BY <1>4

\* Induction up to a number, for the set of the numbers that have the property.
LEMMA Reached ==
  ASSUME NEW n \in Nat, NEW Good, 0 \in Good,
         \A k \in 0 .. n - 1 : k \in Good => k + 1 \in Good
  PROVE  \A k \in 0 .. n : k \in Good
<1> DEFINE Bad == (0 .. n) \ Good
<1> SUFFICES ASSUME Bad # {} PROVE FALSE
  OBVIOUS
<1>1. PICK k \in Bad : \A m \in Bad : k <= m
  <2>1. Bad \subseteq Nat
    OBVIOUS
  <2> HIDE DEF Bad
  <2> QED BY <2>1, LeastNumber
<1>2. k # 0 /\ k - 1 \in 0 .. n - 1 /\ k - 1 \notin Bad
  BY <1>1
<1> QED BY <1>1, <1>2

\* Induction over the sequences of a set.
LEMMA AllSequences ==
  ASSUME NEW S, NEW Good, <<>> \in Good,
         \A s \in Seq(S), e \in S : s \in Good => Append(s, e) \in Good
  PROVE  \A s \in Seq(S) : s \in Good
<1> DEFINE Lengths == {Len(s) : s \in Seq(S) \ Good}
<1> SUFFICES ASSUME Seq(S) \ Good # {} PROVE FALSE
  OBVIOUS
<1>1. Lengths \subseteq Nat /\ Lengths # {}
  BY LenProperties
<1>2. PICK n \in Lengths : \A m \in Lengths : n <= m
  <2> HIDE DEF Lengths
  <2> QED BY <1>1, LeastNumber
<1>3. PICK s \in Seq(S) \ Good : Len(s) = n
  BY <1>2
<1>4. PICK t \in Seq(S), e \in S : s = Append(t, e)
  BY <1>3, SequenceEmptyOrAppend
<1>5. Len(t) \in Nat /\ Len(s) = Len(t) + 1
  BY <1>4, LenProperties, AppendProperties
<1>6. t \in Good
  <2> SUFFICES ASSUME t \notin Good PROVE FALSE
    OBVIOUS
  <2>1. Len(t) \in Lengths
    OBVIOUS
  <2> HIDE DEF Lengths
  <2> QED BY <1>2, <1>3, <1>5, <2>1
<1> QED BY <1>3, <1>4, <1>6

\* A recursive function of the numbers exists.
Iterated(g, first, next, n) ==
  g[0] = first /\ \A k \in 0 .. n - 1 : g[k + 1] = next[<<k + 1, g[k]>>]

LEMMA Iterates ==
  ASSUME NEW V, NEW first \in V, NEW n \in Nat, NEW next \in [(1 .. n) \X V -> V]
  PROVE  \E g \in [0 .. n -> V] : Iterated(g, first, next, n)
<1> DEFINE Good == {m \in 0 .. n : \E g \in [0 .. m -> V] : Iterated(g, first, next, m)}
<1>1. 0 \in Good
  <2> DEFINE g == [k \in 0 .. 0 |-> first]
  <2>1. g \in [0 .. 0 -> V] /\ g[0] = first
    OBVIOUS
  <2>2. Iterated(g, first, next, 0)
    BY <2>1 DEF Iterated
  <2>3. 0 \in 0 .. n
    OBVIOUS
  <2> HIDE DEF g
  <2> QED BY <2>1, <2>2, <2>3
<1>2. ASSUME NEW m \in 0 .. n - 1, m \in Good PROVE m + 1 \in Good
  <2>1. PICK g \in [0 .. m -> V] : Iterated(g, first, next, m)
    BY <1>2
  <2> DEFINE v == next[<<m + 1, g[m]>>]
             h == [k \in 0 .. m + 1 |-> IF k = m + 1 THEN v ELSE g[k]]
  <2>2. m \in Nat /\ m + 1 \in 1 .. n /\ g[m] \in V
    OBVIOUS
  <2>3. v \in V
    BY <2>2
  <2>4. h \in [0 .. m + 1 -> V]
    BY <2>2, <2>3
  <2>5. h[0] = first
    <3>1. 0 \in 0 .. m + 1 /\ 0 # m + 1
      BY <2>2
    <3> QED BY <2>1, <3>1 DEF Iterated
  <2>6. ASSUME NEW k \in 0 .. m PROVE h[k + 1] = next[<<k + 1, h[k]>>]
    <3>1. h[k] = g[k]
      BY <2>2
    <3>2. CASE k = m
      <4>1. h[m + 1] = v
        BY <2>2
      <4> QED BY <3>1, <3>2, <4>1
    <3>3. CASE k \in 0 .. m - 1
      <4>1. h[k + 1] = g[k + 1]
        BY <2>2, <3>3
      <4> QED BY <2>1, <3>1, <3>3, <4>1 DEF Iterated
    <3> QED BY <2>2, <3>2, <3>3
  <2> HIDE DEF h, v
  <2>7. Iterated(h, first, next, m + 1)
    BY <2>2, <2>5, <2>6 DEF Iterated
  <2>8. m + 1 \in 0 .. n
    BY <2>2
  <2> QED BY <2>4, <2>7, <2>8
<1>3. n \in Good
  <2>1. \A k \in 0 .. n : k \in Good
    <3> HIDE DEF Good
    <3> QED BY <1>1, <1>2, Reached
  <2> QED BY <2>1
<1> QED BY <1>3

-----------------------------------------------------------------------------
\* What FlattenSeq computes, step by step.
Partial(g, ss) ==
  g[0] = <<>> /\ \A k \in 0 .. Len(ss) - 1 : g[k + 1] = g[k] \o ss[k + 1]

LEMMA FlattenSteps ==
  ASSUME NEW S, NEW ss \in Seq(Seq(S))
  PROVE  \E g \in [0 .. Len(ss) -> Seq(S)] : Partial(g, ss) /\ FlattenSeq(ss) = g[Len(ss)]
<1> DEFINE n == Len(ss)
           V == Seq(S)
           first == <<>>
           next == [p \in (1 .. n) \X V |-> p[2] \o ss[p[1]]]
<1>0. n \in Nat
  BY LenProperties
<1>1. \A k \in 1 .. n : ss[k] \in Seq(S)
  BY ElementOfSeq
<1> HIDE DEF n
<1>2. next \in [(1 .. n) \X V -> V] /\ first \in V
  BY <1>1
<1>3. PICK g \in [0 .. n -> V] : Iterated(g, first, next, n)
  <2> HIDE DEF next, V, first
  <2> QED BY <1>0, <1>2, Iterates
<1>4. g[0] = <<>>
  BY <1>3 DEF Iterated
<1>5. ASSUME NEW k \in 0 .. n - 1 PROVE g[k + 1] = g[k] \o ss[k + 1]
  <2>1. k + 1 \in 1 .. n /\ g[k] \in V
    BY <1>0
  <2>2. next[<<k + 1, g[k]>>] = g[k] \o ss[k + 1]
    BY <2>1
  <2> HIDE DEF next
  <2> QED BY <1>3, <2>2 DEF Iterated
<1>6. FlattenSeq(ss) = g[n]
  <2>1. CASE n = 0
    <3>1. ss = <<>>
      BY <2>1, EmptySeq DEF n
    <3> QED BY <1>4, <2>1, <3>1 DEF FlattenSeq
  <2>2. CASE n # 0
    <3> DEFINE P(f, i) == IF i = 1 THEN ss[i] ELSE f[i - 1] \o ss[i]
               f == CHOOSE f : f = [i \in 1 .. n |-> P(f, i)]
    <3>0. g[1] = ss[1] /\ 1 \in 1 .. n
      <4>1. 0 \in 0 .. n - 1 /\ 1 \in 1 .. n
        BY <1>0, <2>2
      <4>2. g[0 + 1] = <<>> \o ss[0 + 1]
        BY <1>4, <1>5, <4>1
      <4>3. <<>> \o ss[1] = ss[1]
        BY <1>1, <4>1, ConcatEmptySeq
      <4> QED BY <4>1, <4>2, <4>3
    <3>1. \E h : h = [i \in 1 .. n |-> P(h, i)]
      <4> DEFINE h == [i \in 1 .. n |-> g[i]]
      <4>1. ASSUME NEW i \in 1 .. n PROVE g[i] = P(h, i)
        <5>1. CASE i = 1
          BY <3>0, <5>1
        <5>2. CASE i # 1
          <6>1. PICK k \in 1 .. n - 1 : i = k + 1
            BY <1>0, <5>2
          <6>2. h[k] = g[k] /\ i - 1 = k /\ k \in 0 .. n - 1
            BY <1>0, <6>1
          <6>3. P(h, i) = g[k] \o ss[i]
            BY <5>2, <6>2
          <6> QED BY <1>5, <6>1, <6>2, <6>3
        <5> QED BY <5>1, <5>2
      <4>2. h = [i \in 1 .. n |-> P(h, i)]
        <5> HIDE DEF P
        <5> QED BY <4>1
      <4> HIDE DEF h
      <4> QED BY <4>2
    <3>2. f = [i \in 1 .. n |-> P(f, i)]
      <4> HIDE DEF P
      <4> QED BY <3>1
    <3>3. FlattenSeq(ss) = f[n]
      BY <1>0, <2>2, Zenon DEF FlattenSeq, n
    <3> HIDE DEF f
    <3>4. \A i \in 1 .. n : f[i] = P(f, i)
      <4> HIDE DEF P
      <4> QED BY <3>2, Zenon
    <3> DEFINE Good == {0} \cup {k \in 1 .. n : f[k] = g[k]}
    <3>5. ASSUME NEW k \in 0 .. n - 1, k \in Good PROVE k + 1 \in Good
      <4>1. CASE k = 0
        <5>1. f[1] = ss[1]
          BY <3>0, <3>4
        <5> QED BY <3>0, <4>1, <5>1
      <4>2. CASE k # 0
        <5>1. f[k] = g[k]
          BY <3>5, <4>2
        <5>2. PICK i \in 1 .. n : i = k + 1
          BY <1>0
        <5>3. i # 1 /\ i - 1 = k
          BY <4>2, <5>2
        <5>4. f[i] = f[k] \o ss[i]
          BY <3>4, <5>3
        <5>5. g[i] = g[k] \o ss[i]
          BY <1>5, <5>2
        <5> QED BY <5>1, <5>2, <5>4, <5>5
      <4> QED BY <4>1, <4>2
    <3>6. n \in Good
      <4>1. 0 \in Good /\ n \in 0 .. n
        BY <1>0
      <4> HIDE DEF Good
      <4> QED BY <1>0, <3>5, <4>1, Reached
    <3> QED BY <2>2, <3>3, <3>6
  <2> QED BY <2>1, <2>2
<1> QED BY <1>4, <1>5, <1>6 DEF Partial, n

\* Pieces over some marks make a document over these marks.
LEMMA FlattenType ==
  ASSUME NEW S, NEW ss \in Seq(Seq(S))
  PROVE  FlattenSeq(ss) \in Seq(S)
<1>1. Len(ss) \in Nat
  BY LenProperties
<1> QED BY <1>1, FlattenSteps

LEMMA FlattenNone == FlattenSeq(<<>>) = <<>>
  BY DEF FlattenSeq

\* One more piece comes last in the document.
LEMMA FlattenAppend ==
  ASSUME NEW S, NEW ss \in Seq(Seq(S)), NEW s \in Seq(S)
  PROVE  FlattenSeq(Append(ss, s)) = FlattenSeq(ss) \o s
<1> DEFINE n == Len(ss)
           tt == Append(ss, s)
<1>0. n \in Nat
  BY LenProperties
<1>1. /\ tt \in Seq(Seq(S)) /\ Len(tt) = n + 1 /\ tt[n + 1] = s
      /\ \A k \in 1 .. n : tt[k] = ss[k]
  BY AppendProperties
<1> HIDE DEF tt, n
<1>2. PICK g \in [0 .. n -> Seq(S)] : Partial(g, ss) /\ FlattenSeq(ss) = g[n]
  BY FlattenSteps DEF n
<1>3. PICK h \in [0 .. n + 1 -> Seq(S)] : Partial(h, tt) /\ FlattenSeq(tt) = h[n + 1]
  BY <1>1, FlattenSteps
<1> DEFINE Good == {k \in 0 .. n : g[k] = h[k]}
<1>4. ASSUME NEW k \in 0 .. n - 1, k \in Good PROVE k + 1 \in Good
  <2>0. k + 1 \in 1 .. n /\ k \in 0 .. (n + 1) - 1
    BY <1>0
  <2>1. g[k + 1] = g[k] \o ss[k + 1]
    BY <1>2 DEF Partial, n
  <2>2. h[k + 1] = h[k] \o tt[k + 1]
    BY <1>1, <1>3, <2>0 DEF Partial
  <2>3. g[k] = h[k] /\ tt[k + 1] = ss[k + 1]
    BY <1>1, <1>4, <2>0
  <2>4. g[k + 1] = h[k + 1]
    BY <2>1, <2>2, <2>3, Zenon
  <2> QED BY <1>0, <2>0, <2>4
<1>5. n \in Good
  <2>1. 0 \in Good
    BY <1>0, <1>2, <1>3 DEF Partial
  <2>2. n \in 0 .. n
    BY <1>0
  <2> HIDE DEF Good
  <2> QED BY <1>0, <1>4, <2>1, <2>2, Reached
<1>6. h[n + 1] = h[n] \o s
  <2>1. n \in 0 .. Len(tt) - 1
    BY <1>0, <1>1
  <2> QED BY <1>1, <1>3, <2>1 DEF Partial
<1> QED BY <1>2, <1>3, <1>5, <1>6 DEF tt

\* Two documents in a row are the document of all their pieces.
LEMMA FlattenConcat ==
  ASSUME NEW S, NEW ss \in Seq(Seq(S)), NEW tt \in Seq(Seq(S))
  PROVE  FlattenSeq(ss \o tt) = FlattenSeq(ss) \o FlattenSeq(tt)
<1> DEFINE Good == {t \in Seq(Seq(S)) : FlattenSeq(ss \o t) = FlattenSeq(ss) \o FlattenSeq(t)}
<1>1. <<>> \in Good
  <2>1. ss \o <<>> = ss /\ FlattenSeq(ss) \o <<>> = FlattenSeq(ss)
    BY ConcatEmptySeq, FlattenType
  <2>2. <<>> \in Seq(Seq(S))
    OBVIOUS
  <2> QED BY <2>1, <2>2, FlattenNone
<1>2. ASSUME NEW t \in Seq(Seq(S)), NEW e \in Seq(S), t \in Good PROVE Append(t, e) \in Good
  <2>1. ss \o Append(t, e) = Append(ss \o t, e)
    OBVIOUS
  <2>2. ss \o t \in Seq(Seq(S)) /\ Append(t, e) \in Seq(Seq(S))
    OBVIOUS
  <2>3. FlattenSeq(Append(ss \o t, e)) = FlattenSeq(ss \o t) \o e
    BY <2>2, FlattenAppend
  <2>4. FlattenSeq(ss \o t) = FlattenSeq(ss) \o FlattenSeq(t)
    BY <1>2
  <2>5. FlattenSeq(Append(t, e)) = FlattenSeq(t) \o e
    BY FlattenAppend
  <2>6. (FlattenSeq(ss) \o FlattenSeq(t)) \o e = FlattenSeq(ss) \o (FlattenSeq(t) \o e)
    <3> DEFINE a == FlattenSeq(ss)
               b == FlattenSeq(t)
    <3>1. a \in Seq(S) /\ b \in Seq(S)
      BY FlattenType
    <3> HIDE DEF a, b, Good
    <3>2. (a \o b) \o e = a \o (b \o e)
      BY <3>1
    <3> QED BY <3>2 DEF a, b
  <2> QED BY <2>1, <2>2, <2>3, <2>4, <2>5, <2>6
<1>3. \A t \in Seq(Seq(S)) : t \in Good
  <2> HIDE DEF Good
  <2> QED BY <1>1, <1>2, AllSequences
<1> QED BY <1>3

LEMMA FlattenOne ==
  ASSUME NEW S, NEW s \in Seq(S)
  PROVE  FlattenSeq(<<s>>) = s
<1>1. Append(<<>>, s) = <<s>> /\ <<>> \in Seq(Seq(S))
  OBVIOUS
<1>2. FlattenSeq(<<s>>) = <<>> \o s
  BY <1>1, FlattenAppend, FlattenNone
<1> QED BY <1>2, ConcatEmptySeq

\* The pieces that remain when the first one is written.
LEMMA FlattenFirst ==
  ASSUME NEW S, NEW s \in Seq(S), NEW ss \in Seq(Seq(S))
  PROVE  FlattenSeq(<<s>> \o ss) = s \o FlattenSeq(ss)
<1>1. <<s>> \in Seq(Seq(S))
  OBVIOUS
<1>2. FlattenSeq(<<s>> \o ss) = FlattenSeq(<<s>>) \o FlattenSeq(ss)
  BY <1>1, FlattenConcat
<1> QED BY <1>2, FlattenOne

-----------------------------------------------------------------------------
\* The characters of a file, and the states of its reader.
Marks == Characters \cup {"[", "]", "{", "}", "name", "bom", "headings", "bar", "old"}
Texts == Seq(Characters)
Places ==
  {"start", "open", "next", "item", "member", "value", "string", "escape", "read",
   "top", "headings", "cell", "quoted", "closed", "end", "error"}
Readers == [at : Places, events : Seq(Seq(Texts)), event : Seq(Texts), text : Texts]

\* Every transition leaves a reader in one of its states.
LEMMA ReadJsonType ==
  ASSUME NEW r \in Readers, NEW c \in Marks
  PROVE  ReadJson(r, c) \in Readers
<1>1. /\ r.events \in Seq(Seq(Texts)) /\ r.event \in Seq(Texts) /\ r.text \in Texts
      /\ r = [at |-> r.at, events |-> r.events, event |-> r.event, text |-> r.text]
  BY DEF Readers
<1>2. Append(r.events, r.event) \in Seq(Seq(Texts)) /\ Append(r.event, r.text) \in Seq(Texts)
  BY <1>1, AppendProperties
<1>3. \A d \in Characters : Append(r.text, d) \in Texts
  BY <1>1, AppendProperties DEF Texts
<1>4. "comma" \in Characters /\ "n" \in Characters /\ "quote" \in Characters
      /\ "backslash" \in Characters /\ "break" \in Characters /\ <<>> \in Texts /\ <<>> \in Seq(Texts)
  BY DEF Characters, Texts
<1> HIDE DEF Texts
<1>5. \A a \in Places : [r EXCEPT !.at = a] \in Readers
  BY <1>1 DEF Readers
<1>6. \A a \in Places, event \in Seq(Texts) : [r EXCEPT !.at = a, !.event = event] \in Readers
  BY <1>1 DEF Readers
<1>7. \A a \in Places, text \in Texts : [r EXCEPT !.at = a, !.text = text] \in Readers
  BY <1>1 DEF Readers
<1>8. \A text \in Texts : [r EXCEPT !.text = text] \in Readers
  BY <1>1 DEF Readers
<1>9. \A a \in Places, events \in Seq(Seq(Texts)) : [r EXCEPT !.at = a, !.events = events] \in Readers
  BY <1>1 DEF Readers
<1>10. CASE r.at \in {"start", "open", "next", "item", "member"}
  BY <1>4, <1>5, <1>6, <1>10 DEF ReadJson, Places
<1>11. CASE r.at = "value"
  BY <1>4, <1>5, <1>7, <1>11 DEF ReadJson, Places
<1>12. CASE r.at = "string"
  BY <1>2, <1>3, <1>4, <1>5, <1>6, <1>8, <1>12 DEF ReadJson, Places
<1>13. CASE r.at = "escape"
  BY <1>3, <1>4, <1>5, <1>7, <1>13 DEF ReadJson, Places
<1>14. CASE r.at = "read"
  BY <1>2, <1>5, <1>9, <1>14 DEF ReadJson, Places
<1>15. CASE r.at \notin {"start", "open", "next", "item", "member", "value", "string", "escape", "read"}
  BY <1>5, <1>15 DEF ReadJson, Places
<1> QED BY <1>10, <1>11, <1>12, <1>13, <1>14, <1>15

LEMMA ReadCsvType ==
  ASSUME NEW r \in Readers, NEW c \in Marks
  PROVE  ReadCsv(r, c) \in Readers
<1>1. /\ r.events \in Seq(Seq(Texts)) /\ r.event \in Seq(Texts) /\ r.text \in Texts
      /\ r = [at |-> r.at, events |-> r.events, event |-> r.event, text |-> r.text]
  BY DEF Readers
<1>2. Append(r.event, r.text) \in Seq(Texts)
  BY <1>1, AppendProperties
<1>3. Append(r.events, Append(r.event, r.text)) \in Seq(Seq(Texts))
  BY <1>1, <1>2, AppendProperties
<1>4. \A d \in Characters : Append(r.text, d) \in Texts
  BY <1>1, AppendProperties DEF Texts
<1>5. "quote" \in Characters /\ <<>> \in Texts /\ <<>> \in Seq(Texts)
  BY DEF Characters, Texts
<1>6. \A a \in Places : [r EXCEPT !.at = a] \in Readers
  BY <1>1 DEF Readers
<1>7. \A a \in Places, event \in Seq(Texts) : [r EXCEPT !.at = a, !.event = event] \in Readers
  BY <1>1 DEF Readers
<1>8. \A a \in Places, text \in Texts : [r EXCEPT !.at = a, !.text = text] \in Readers
  BY <1>1 DEF Readers
<1>9. \A text \in Texts : [r EXCEPT !.text = text] \in Readers
  BY <1>1 DEF Readers
<1>10. \A a \in Places, events \in Seq(Seq(Texts)), event \in Seq(Texts) :
         [r EXCEPT !.at = a, !.events = events, !.event = event] \in Readers
  BY <1>1 DEF Readers
<1> HIDE DEF Texts
<1>11. CASE r.at \in {"end", "cell"}
  BY <1>5, <1>6, <1>8, <1>11 DEF ReadCsv, Places
<1>12. CASE r.at = "quoted"
  BY <1>4, <1>6, <1>9, <1>12 DEF ReadCsv, Places
<1>13. CASE r.at = "closed"
  BY <1>2, <1>3, <1>4, <1>5, <1>6, <1>7, <1>8, <1>10, <1>13 DEF ReadCsv, Places
<1>14. CASE r.at \notin {"end", "cell", "quoted", "closed"}
  BY <1>6, <1>14 DEF ReadCsv, Places
<1> QED BY <1>11, <1>12, <1>13, <1>14

LEMMA StepType ==
  ASSUME NEW format, NEW r \in Readers, NEW c \in Marks
  PROVE  Step(format, r, c) \in Readers
  BY ReadJsonType, ReadCsvType DEF Step

\* What Read computes, step by step.
Trace(g, format, r, file) ==
  g[0] = r /\ \A k \in 0 .. Len(file) - 1 : g[k + 1] = Step(format, g[k], file[k + 1])

LEMMA ReadSteps ==
  ASSUME NEW format, NEW r \in Readers, NEW file \in Seq(Marks)
  PROVE  \E g \in [0 .. Len(file) -> Readers] :
           Trace(g, format, r, file) /\ Read(format, r, file) = g[Len(file)]
<1> DEFINE n == Len(file)
           next == [p \in (1 .. n) \X Readers |-> Step(format, p[2], file[p[1]])]
<1>0. n \in Nat
  BY LenProperties
<1>1. \A k \in 1 .. n : file[k] \in Marks
  BY ElementOfSeq
<1> HIDE DEF n
<1>2. next \in [(1 .. n) \X Readers -> Readers]
  BY <1>1, StepType
<1>3. PICK g \in [0 .. n -> Readers] : Iterated(g, r, next, n)
  <2> HIDE DEF next
  <2> QED BY <1>0, <1>2, Iterates
<1>4. g[0] = r
  BY <1>3 DEF Iterated
<1>5. ASSUME NEW k \in 0 .. n - 1 PROVE g[k + 1] = Step(format, g[k], file[k + 1])
  <2>1. k + 1 \in 1 .. n /\ g[k] \in Readers
    BY <1>0
  <2>2. next[<<k + 1, g[k]>>] = Step(format, g[k], file[k + 1])
    BY <2>1
  <2> HIDE DEF next
  <2> QED BY <1>3, <2>2 DEF Iterated
<1> DEFINE P(f, i) == IF i = 0 THEN r ELSE Step(format, f[i - 1], file[i])
           f == CHOOSE f : f = [i \in 0 .. n |-> P(f, i)]
<1>6. \E h : h = [i \in 0 .. n |-> P(h, i)]
  <2>1. ASSUME NEW i \in 0 .. n PROVE g[i] = P(g, i)
    <3>1. CASE i = 0
      BY <1>4, <3>1
    <3>2. CASE i # 0
      <4>1. PICK k \in 0 .. n - 1 : i = k + 1
        BY <1>0, <3>2
      <4>2. i - 1 = k
        BY <4>1
      <4> QED BY <1>5, <3>2, <4>1, <4>2
    <3> QED BY <3>1, <3>2
  <2>2. g = [i \in 0 .. n |-> P(g, i)]
    <3> HIDE DEF P
    <3> QED BY <2>1
  <2> QED BY <2>2
<1>7. f = [i \in 0 .. n |-> P(f, i)]
  <2> HIDE DEF P
  <2> QED BY <1>6
<1>8. Read(format, r, file) = f[n]
  BY Zenon DEF Read, n
<1> HIDE DEF f
<1>9. \A i \in 0 .. n : f[i] = P(f, i)
  <2> HIDE DEF P
  <2> QED BY <1>7, Zenon
<1> DEFINE Good == {k \in 0 .. n : f[k] = g[k]}
<1>10. ASSUME NEW k \in 0 .. n - 1, k \in Good PROVE k + 1 \in Good
  <2>1. PICK i \in 0 .. n : i = k + 1
    BY <1>0
  <2>2. i # 0 /\ i - 1 = k
    BY <2>1
  <2>3. f[i] = Step(format, f[k], file[i])
    BY <1>9, <2>2
  <2>4. g[i] = Step(format, g[k], file[i])
    BY <1>5, <2>1
  <2> QED BY <1>10, <2>1, <2>3, <2>4
<1>11. n \in Good
  <2>1. 0 \in 0 .. n /\ n \in 0 .. n
    BY <1>0
  <2>2. 0 \in Good
    BY <1>4, <1>9, <2>1
  <2> HIDE DEF Good
  <2> QED BY <1>0, <1>10, <2>1, <2>2, Reached
<1> QED BY <1>4, <1>5, <1>8, <1>11 DEF Trace, n

LEMMA ReadType ==
  ASSUME NEW format, NEW r \in Readers, NEW file \in Seq(Marks)
  PROVE  Read(format, r, file) \in Readers
<1>1. Len(file) \in Nat
  BY LenProperties
<1> QED BY <1>1, ReadSteps

LEMMA ReadNothing ==
  ASSUME NEW format, NEW r \in Readers
  PROVE  Read(format, r, <<>>) = r
<1>1. <<>> \in Seq(Marks) /\ Len(<<>>) = 0
  OBVIOUS
<1>2. PICK g : Trace(g, format, r, <<>>) /\ Read(format, r, <<>>) = g[0]
  BY <1>1, ReadSteps
<1> QED BY <1>2 DEF Trace

\* A file that is longer by a character takes a transition more.
LEMMA ReadAppend ==
  ASSUME NEW format, NEW r \in Readers, NEW file \in Seq(Marks), NEW c \in Marks
  PROVE  Read(format, r, Append(file, c)) = Step(format, Read(format, r, file), c)
<1> DEFINE n == Len(file)
           longer == Append(file, c)
<1>0. n \in Nat
  BY LenProperties
<1>1. /\ longer \in Seq(Marks) /\ Len(longer) = n + 1 /\ longer[n + 1] = c
      /\ \A k \in 1 .. n : longer[k] = file[k]
  BY AppendProperties
<1> HIDE DEF longer, n
<1>2. PICK g \in [0 .. n -> Readers] : Trace(g, format, r, file) /\ Read(format, r, file) = g[n]
  BY ReadSteps DEF n
<1>3. PICK h \in [0 .. n + 1 -> Readers] :
        Trace(h, format, r, longer) /\ Read(format, r, longer) = h[n + 1]
  BY <1>1, ReadSteps
<1> DEFINE Good == {k \in 0 .. n : g[k] = h[k]}
<1>4. ASSUME NEW k \in 0 .. n - 1, k \in Good PROVE k + 1 \in Good
  <2>0. k + 1 \in 1 .. n /\ k \in 0 .. (n + 1) - 1
    BY <1>0
  <2>1. g[k + 1] = Step(format, g[k], file[k + 1])
    BY <1>2 DEF Trace, n
  <2>2. h[k + 1] = Step(format, h[k], longer[k + 1])
    BY <1>1, <1>3, <2>0 DEF Trace
  <2>3. g[k] = h[k] /\ longer[k + 1] = file[k + 1]
    BY <1>1, <1>4, <2>0
  <2>4. g[k + 1] = h[k + 1]
    BY <2>1, <2>2, <2>3, Zenon
  <2> QED BY <1>0, <2>0, <2>4
<1>5. n \in Good
  <2>1. 0 \in Good
    BY <1>0, <1>2, <1>3 DEF Trace
  <2>2. n \in 0 .. n
    BY <1>0
  <2> HIDE DEF Good
  <2> QED BY <1>0, <1>4, <2>1, <2>2, Reached
<1>6. h[n + 1] = Step(format, h[n], c)
  <2>1. n \in 0 .. Len(longer) - 1
    BY <1>0, <1>1
  <2> QED BY <1>1, <1>3, <2>1 DEF Trace
<1> QED BY <1>2, <1>3, <1>5, <1>6 DEF longer

\* A file is read in one go or in two.
LEMMA ReadConcat ==
  ASSUME NEW format, NEW r \in Readers, NEW s \in Seq(Marks), NEW t \in Seq(Marks)
  PROVE  Read(format, r, s \o t) = Read(format, Read(format, r, s), t)
<1> DEFINE q == Read(format, r, s)
           Good == {u \in Seq(Marks) : Read(format, r, s \o u) = Read(format, q, u)}
<1>0. q \in Readers
  BY ReadType
<1> HIDE DEF q
<1>1. <<>> \in Good
  <2>1. s \o <<>> = s /\ <<>> \in Seq(Marks)
    BY ConcatEmptySeq
  <2> QED BY <1>0, <2>1, ReadNothing DEF q
<1>2. ASSUME NEW u \in Seq(Marks), NEW c \in Marks, u \in Good PROVE Append(u, c) \in Good
  <2>1. s \o Append(u, c) = Append(s \o u, c)
    OBVIOUS
  <2>2. s \o u \in Seq(Marks) /\ Append(u, c) \in Seq(Marks)
    OBVIOUS
  <2>3. Read(format, r, Append(s \o u, c)) = Step(format, Read(format, r, s \o u), c)
    BY <2>2, ReadAppend
  <2>4. Read(format, q, Append(u, c)) = Step(format, Read(format, q, u), c)
    BY <1>0, ReadAppend
  <2> QED BY <1>2, <2>1, <2>2, <2>3, <2>4
<1>3. \A u \in Seq(Marks) : u \in Good
  <2> HIDE DEF Good
  <2> QED BY <1>1, <1>2, AllSequences
<1> QED BY <1>3 DEF q

\* One character is one transition, two are two.
LEMMA ReadOne ==
  ASSUME NEW format, NEW r \in Readers, NEW c \in Marks
  PROVE  Read(format, r, <<c>>) = Step(format, r, c)
<1> DEFINE nothing == <<>>
<1>1. Append(nothing, c) = <<c>> /\ nothing \in Seq(Marks)
  OBVIOUS
<1>2. Read(format, r, nothing) = r
  BY ReadNothing
<1> HIDE DEF nothing
<1>3. Read(format, r, Append(nothing, c)) = Step(format, Read(format, r, nothing), c)
  BY <1>1, ReadAppend
<1> QED BY <1>1, <1>2, <1>3

LEMMA ReadTwo ==
  ASSUME NEW format, NEW r \in Readers, NEW c \in Marks, NEW d \in Marks
  PROVE  Read(format, r, <<c, d>>) = Step(format, Step(format, r, c), d)
<1> DEFINE first == <<c>>
<1>1. first \in Seq(Marks) /\ Append(first, d) = <<c, d>>
  <2>1. first \in Seq(Marks)
    OBVIOUS
  <2>2. Append(first, d) = <<c, d>>
    <3>1. /\ Append(first, d) \in Seq(Marks) /\ Len(Append(first, d)) = 2
          /\ Append(first, d)[1] = c /\ Append(first, d)[2] = d
      BY <2>1, AppendProperties
    <3>2. /\ <<c, d>> \in Seq(Marks) /\ Len(<<c, d>>) = 2
          /\ <<c, d>>[1] = c /\ <<c, d>>[2] = d
      OBVIOUS
    <3> HIDE DEF first
    <3>3. \A i \in 1 .. 2 : Append(first, d)[i] = <<c, d>>[i]
      BY <3>1, <3>2
    <3> QED BY <3>1, <3>2, <3>3, SeqEqual
  <2> QED BY <2>1, <2>2
<1>2. Read(format, r, first) = Step(format, r, c)
  BY ReadOne
<1> HIDE DEF first
<1>3. Read(format, r, Append(first, d)) = Step(format, Read(format, r, first), d)
  BY <1>1, ReadAppend
<1> QED BY <1>1, <1>2, <1>3

-----------------------------------------------------------------------------
\* The transitions of the two readers that an export takes.
LEMMA JsonMoves ==
  ASSUME NEW r \in Readers
  PROVE  /\ r.at = "start" => Step("json", r, "[") = [r EXCEPT !.at = "open"]
         /\ r.at \in {"open", "next"} =>
              Step("json", r, "{") = [r EXCEPT !.at = "member", !.event = <<>>]
         /\ r.at \in {"open", "item"} => Step("json", r, "]") = [r EXCEPT !.at = "end"]
         /\ r.at = "member" => Step("json", r, "name") = [r EXCEPT !.at = "value"]
         /\ r.at = "value" => Step("json", r, "quote") = [r EXCEPT !.at = "string", !.text = <<>>]
         /\ r.at = "string" =>
              Step("json", r, "quote") = [r EXCEPT !.at = "read", !.event = Append(@, r.text)]
         /\ r.at = "read" => Step("json", r, "comma") = [r EXCEPT !.at = "member"]
         /\ r.at = "read" =>
              Step("json", r, "}") = [r EXCEPT !.at = "item", !.events = Append(@, r.event)]
         /\ r.at = "item" => Step("json", r, "comma") = [r EXCEPT !.at = "next"]
  BY DEF Step, ReadJson

\* The transitions inside a text; a CSV reader keeps every character but the
\* quote as it is.
LEMMA JsonTextMoves ==
  ASSUME NEW r \in Readers, NEW c
  PROVE  /\ r.at = "string" => Step("json", r, "backslash") = [r EXCEPT !.at = "escape"]
         /\ r.at = "string" /\ c \in {"comma", "n"} =>
              Step("json", r, c) = [r EXCEPT !.text = Append(r.text, c)]
         /\ r.at = "escape" /\ c \in {"quote", "backslash"} =>
              Step("json", r, c) = [r EXCEPT !.at = "string", !.text = Append(r.text, c)]
         /\ r.at = "escape" =>
              Step("json", r, "n") = [r EXCEPT !.at = "string", !.text = Append(r.text, "break")]
  BY DEF Step, ReadJson

LEMMA CsvTextMoves ==
  ASSUME NEW r \in Readers, NEW c \in Characters
  PROVE  /\ r.at = "quoted" => Step("csv", r, "quote") = [r EXCEPT !.at = "closed"]
         /\ r.at = "quoted" /\ c # "quote" => Step("csv", r, c) = [r EXCEPT !.text = Append(r.text, c)]
         /\ r.at = "closed" =>
              Step("csv", r, "quote") = [r EXCEPT !.at = "quoted", !.text = Append(r.text, "quote")]
  BY DEF Step, ReadCsv, Characters

LEMMA CsvMoves ==
  ASSUME NEW r \in Readers
  PROVE  /\ r.at = "start" => Step("csv", r, "bom") = [r EXCEPT !.at = "top"]
         /\ r.at = "top" => Step("csv", r, "headings") = [r EXCEPT !.at = "headings"]
         /\ r.at = "headings" => Step("csv", r, "break") = [r EXCEPT !.at = "end"]
         /\ r.at \in {"end", "cell"} =>
              Step("csv", r, "quote") = [r EXCEPT !.at = "quoted", !.text = <<>>]
         /\ r.at = "quoted" => Step("csv", r, "quote") = [r EXCEPT !.at = "closed"]
         /\ r.at = "closed" =>
              Step("csv", r, "comma") = [r EXCEPT !.at = "cell", !.event = Append(@, r.text)]
         /\ r.at = "closed" =>
              Step("csv", r, "break") =
                [r EXCEPT !.at = "end", !.events = Append(@, Append(r.event, r.text)), !.event = <<>>]
  BY DEF Step, ReadCsv, Characters

-----------------------------------------------------------------------------
\* Quoted texts are read back.
Quoting == {"json", "csv"}
Escaped(format, c) == IF format = "json" THEN JsonEscaped(c) ELSE CsvEscaped(c)
Escapes(format, text) == [i \in DOMAIN text |-> Escaped(format, text[i])]
Inside(format) == IF format = "json" THEN "string" ELSE "quoted"

\* What stands for a character, and for a text, is marks.
LEMMA EscapedType ==
  ASSUME NEW format \in Quoting, NEW c \in Characters
  PROVE  Escaped(format, c) \in Seq(Marks)
<1>1. c \in Marks /\ "backslash" \in Marks /\ "n" \in Marks
  BY DEF Marks, Characters
<1>2. \A a, b \in Marks : <<a>> \in Seq(Marks) /\ <<a, b>> \in Seq(Marks)
  OBVIOUS
<1>3. JsonEscaped(c) \in Seq(Marks)
  BY <1>1, <1>2 DEF JsonEscaped
<1>4. CsvEscaped(c) \in Seq(Marks)
  BY <1>1, <1>2 DEF CsvEscaped
<1> QED BY <1>3, <1>4 DEF Escaped

LEMMA EscapesType ==
  ASSUME NEW format \in Quoting, NEW text \in Texts
  PROVE  Escapes(format, text) \in Seq(Seq(Marks)) /\ Len(Escapes(format, text)) = Len(text)
<1> DEFINE n == Len(text)
<1>1. /\ n \in Nat /\ DOMAIN text = 1 .. n
      /\ \A i \in 1 .. n : text[i] \in Characters
  BY LenProperties, ElementOfSeq DEF Texts
<1>2. \A i \in 1 .. n : Escaped(format, text[i]) \in Seq(Marks)
  BY <1>1, EscapedType
<1>3. Escapes(format, text) = [i \in 1 .. n |-> Escaped(format, text[i])]
  BY <1>1 DEF Escapes
<1> HIDE DEF n
<1>4. Escapes(format, text) \in [1 .. n -> Seq(Marks)]
  BY <1>2, <1>3
<1>5. Escapes(format, text) \in Seq(Seq(Marks)) /\ DOMAIN Escapes(format, text) = 1 .. n
  BY <1>1, <1>4, SeqDef
<1>6. Len(Escapes(format, text)) = n
  BY <1>1, <1>5, LenProperties
<1> QED BY <1>5, <1>6 DEF n

\* A text is quoted character by character.
LEMMA EscapesAppend ==
  ASSUME NEW format \in Quoting, NEW text \in Texts, NEW c \in Characters
  PROVE  Escapes(format, Append(text, c)) = Append(Escapes(format, text), Escaped(format, c))
<1> DEFINE n == Len(text)
           longer == Append(text, c)
           s == Escapes(format, text)
           t == Escapes(format, longer)
           e == Escaped(format, c)
<1>1. /\ n \in Nat /\ longer \in Texts /\ Len(longer) = n + 1 /\ longer[n + 1] = c
      /\ \A i \in 1 .. n : longer[i] = text[i]
  BY LenProperties, AppendProperties DEF Texts
<1>2. DOMAIN text = 1 .. n /\ DOMAIN longer = 1 .. n + 1
  BY <1>1, LenProperties DEF Texts
<1> HIDE DEF longer
<1>3. s \in Seq(Seq(Marks)) /\ Len(s) = n /\ t \in Seq(Seq(Marks)) /\ Len(t) = n + 1
      /\ e \in Seq(Marks)
  BY <1>1, EscapesType, EscapedType
<1>4. \A i \in 1 .. n : s[i] = Escaped(format, text[i])
  BY <1>2 DEF Escapes
<1>5. \A i \in 1 .. n + 1 : t[i] = Escaped(format, longer[i])
  BY <1>2 DEF Escapes
<1> HIDE DEF s, t, n, e
<1>6. /\ Append(s, e) \in Seq(Seq(Marks)) /\ Len(Append(s, e)) = n + 1
      /\ \A i \in 1 .. n : Append(s, e)[i] = s[i]
      /\ Append(s, e)[n + 1] = e
  BY <1>3, AppendProperties
<1>7. \A i \in 1 .. n : t[i] = Append(s, e)[i]
  BY <1>1, <1>4, <1>5, <1>6
<1>8. t[n + 1] = Append(s, e)[n + 1]
  BY <1>1, <1>5, <1>6 DEF e
<1>9. ASSUME NEW i \in 1 .. n + 1 PROVE t[i] = Append(s, e)[i]
  <2>1. n \in Nat
    BY <1>1
  <2>2. i = n + 1 \/ i \in 1 .. n
    BY <2>1
  <2> QED BY <1>7, <1>8, <2>2
<1>10. t = Append(s, e)
  BY <1>3, <1>6, <1>9, SeqEqual
<1> QED BY <1>10 DEF s, t, e, longer

\* What stands for a character adds it to the text that is read, in both formats.
LEMMA CharacterRead ==
  ASSUME NEW format \in Quoting, NEW r \in Readers, r.at = Inside(format), NEW c \in Characters
  PROVE  Read(format, r, Escaped(format, c)) = [r EXCEPT !.text = Append(@, c)]
<1>1. c \in Marks /\ "backslash" \in Marks /\ "n" \in Marks
  BY DEF Marks, Characters
<1>2. CASE format = "json"
  <2>1. r.at = "string"
    BY <1>2 DEF Inside
  <2>2. CASE c \in {"comma", "n"}
    <3>1. Escaped(format, c) = <<c>>
      BY <1>2, <2>2 DEF Escaped, JsonEscaped
    <3>2. Read(format, r, <<c>>) = Step(format, r, c)
      BY <1>1, ReadOne
    <3>3. Step("json", r, c) = [r EXCEPT !.text = Append(r.text, c)]
      BY <2>1, <2>2, JsonTextMoves
    <3> QED BY <1>2, <3>1, <3>2, <3>3
  <2>3. CASE c \notin {"comma", "n"}
    <3> DEFINE d == IF c = "break" THEN "n" ELSE c
               q == Step(format, r, "backslash")
    <3>1. Escaped(format, c) = <<"backslash", d>> /\ d \in Marks /\ d \in {"quote", "backslash", "n"}
          /\ c = IF d = "n" THEN "break" ELSE d
      BY <1>1, <1>2, <2>3 DEF Escaped, JsonEscaped, Characters
    <3> HIDE DEF d
    <3>2. q \in Readers
      BY <1>1, StepType
    <3>3. q = [r EXCEPT !.at = "escape"] /\ q.at = "escape" /\ q.text = r.text
      BY <1>2, <2>1, JsonTextMoves DEF Readers
    <3> HIDE DEF q
    <3>4. Step(format, q, d) = [q EXCEPT !.at = "string", !.text = Append(q.text, c)]
      <4>1. Step("json", q, d) = [q EXCEPT !.at = "string", !.text = Append(q.text, c)]
        <5>1. CASE d = "n"
          BY <3>1, <3>2, <3>3, <5>1, JsonTextMoves
        <5>2. CASE d # "n"
          <6>1. d \in {"quote", "backslash"} /\ c = d
            BY <3>1, <5>2
          <6>2. Step("json", q, d) = [q EXCEPT !.at = "string", !.text = Append(q.text, d)]
            BY <3>2, <3>3, <6>1, JsonTextMoves
          <6> QED BY <6>1, <6>2
        <5> QED BY <5>1, <5>2
      <4> QED BY <1>2, <4>1
    <3>5. Read(format, r, <<"backslash", d>>) = Step(format, q, d)
      BY <1>1, <3>1, ReadTwo DEF q
    <3>6. [q EXCEPT !.at = "string", !.text = Append(q.text, c)] = [r EXCEPT !.text = Append(@, c)]
      BY <2>1, <3>3 DEF Readers
    <3> QED BY <3>1, <3>4, <3>5, <3>6
  <2> QED BY <2>2, <2>3
<1>3. CASE format = "csv"
  <2>1. r.at = "quoted"
    BY <1>3 DEF Inside
  <2>2. CASE c # "quote"
    <3>1. Escaped(format, c) = <<c>>
      BY <1>3, <2>2 DEF Escaped, CsvEscaped
    <3>2. Read(format, r, <<c>>) = Step(format, r, c)
      BY <1>1, ReadOne
    <3>3. Step("csv", r, c) = [r EXCEPT !.text = Append(r.text, c)]
      BY <2>1, <2>2, CsvTextMoves
    <3> QED BY <1>3, <3>1, <3>2, <3>3
  <2>3. CASE c = "quote"
    <3> DEFINE q == Step(format, r, c)
    <3>1. Escaped(format, c) = <<c, c>>
      BY <1>3, <2>3 DEF Escaped, CsvEscaped
    <3>2. q \in Readers
      BY <1>1, StepType
    <3>3. q = [r EXCEPT !.at = "closed"] /\ q.at = "closed" /\ q.text = r.text
      BY <1>3, <2>1, <2>3, CsvTextMoves DEF Readers
    <3> HIDE DEF q
    <3>4. Step(format, q, c) = [q EXCEPT !.at = "quoted", !.text = Append(q.text, c)]
      BY <1>3, <2>3, <3>2, <3>3, CsvTextMoves
    <3>5. Read(format, r, <<c, c>>) = Step(format, q, c)
      BY <1>1, ReadTwo DEF q
    <3>6. [q EXCEPT !.at = "quoted", !.text = Append(q.text, c)] = [r EXCEPT !.text = Append(@, c)]
      BY <2>1, <3>3 DEF Readers
    <3> QED BY <3>1, <3>4, <3>5, <3>6
  <2> QED BY <2>2, <2>3
<1> QED BY <1>2, <1>3 DEF Quoting

\* So do all characters of a text, by induction over the text.
LEMMA CharactersRead ==
  ASSUME NEW format \in Quoting, NEW r \in Readers, r.at = Inside(format), r.text = <<>>,
         NEW text \in Texts
  PROVE  Read(format, r, FlattenSeq(Escapes(format, text))) = [r EXCEPT !.text = text]
<1> DEFINE F(t) == FlattenSeq(Escapes(format, t))
           Good == {t \in Texts : Read(format, r, F(t)) = [r EXCEPT !.text = t]}
<1>1. <<>> \in Good
  <2>0. <<>> \in Texts /\ Len(<<>>) = 0
    BY DEF Texts
  <2>1. Escapes(format, <<>>) \in Seq(Seq(Marks)) /\ Len(Escapes(format, <<>>)) = 0
    BY <2>0, EscapesType
  <2>2. Escapes(format, <<>>) = <<>>
    BY <2>1, EmptySeq
  <2>3. F(<<>>) = <<>>
    BY <2>2, FlattenNone
  <2>4. Read(format, r, <<>>) = r /\ r = [r EXCEPT !.text = <<>>]
    BY ReadNothing DEF Readers
  <2> QED BY <2>0, <2>3, <2>4
<1>2. ASSUME NEW t \in Seq(Characters), NEW c \in Characters, t \in Good PROVE Append(t, c) \in Good
  <2>0. t \in Texts /\ Append(t, c) \in Texts
    BY AppendProperties DEF Texts
  <2>1. Escapes(format, t) \in Seq(Seq(Marks)) /\ Escaped(format, c) \in Seq(Marks)
    BY <2>0, EscapesType, EscapedType
  <2>2. F(Append(t, c)) = F(t) \o Escaped(format, c)
    BY <2>0, <2>1, EscapesAppend, FlattenAppend
  <2>3. F(t) \in Seq(Marks)
    BY <2>1, FlattenType
  <2> DEFINE q == Read(format, r, F(t))
  <2>4. Read(format, r, F(t) \o Escaped(format, c)) = Read(format, q, Escaped(format, c))
    <3> HIDE DEF F
    <3> QED BY <2>1, <2>3, ReadConcat
  <2>5. q = [r EXCEPT !.text = t]
    BY <1>2
  <2>6. q \in Readers
    <3> HIDE DEF F
    <3> QED BY <2>3, ReadType
  <2> HIDE DEF q
  <2>7. q.at = Inside(format) /\ q.text = t
    BY <2>5 DEF Readers
  <2>8. Read(format, q, Escaped(format, c)) = [q EXCEPT !.text = Append(q.text, c)]
    BY <2>6, <2>7, CharacterRead
  <2>9. [q EXCEPT !.text = Append(q.text, c)] = [r EXCEPT !.text = Append(t, c)]
    BY <2>5, <2>7 DEF Readers
  <2> HIDE DEF F
  <2> QED BY <2>0, <2>2, <2>4, <2>8, <2>9
<1>3. \A t \in Seq(Characters) : t \in Good
  <2> HIDE DEF Good
  <2> QED BY <1>1, <1>2, AllSequences
<1> QED BY <1>3 DEF Texts

\* Where a reader is, but for the text it has read last.
Stands(r, at, events, event) ==
  r \in Readers /\ r.at = at /\ r.events = events /\ r.event = event

LEMMA QuotedType ==
  ASSUME NEW text \in Texts
  PROVE  /\ JsonString(text) = <<"quote">> \o FlattenSeq(Escapes("json", text)) \o <<"quote">>
         /\ CsvField(text) = <<"quote">> \o FlattenSeq(Escapes("csv", text)) \o <<"quote">>
         /\ JsonString(text) \in Seq(Marks) /\ CsvField(text) \in Seq(Marks)
<1>1. JsonString(text) = <<"quote">> \o FlattenSeq(Escapes("json", text)) \o <<"quote">>
  BY DEF JsonString, Quoted, Escapes, Escaped
<1>2. CsvField(text) = <<"quote">> \o FlattenSeq(Escapes("csv", text)) \o <<"quote">>
  BY DEF CsvField, Quoted, Escapes, Escaped
<1>3. "json" \in Quoting /\ "csv" \in Quoting /\ "quote" \in Marks
  BY DEF Quoting, Marks, Characters
<1>4. \A format \in Quoting : FlattenSeq(Escapes(format, text)) \in Seq(Marks)
  BY EscapesType, FlattenType
<1>5. <<"quote">> \in Seq(Marks)
  BY <1>3
<1>6. \A s \in Seq(Marks) : <<"quote">> \o s \o <<"quote">> \in Seq(Marks)
  BY <1>5, ConcatProperties
<1> QED BY <1>1, <1>2, <1>3, <1>4, <1>6

\* Between the quotes a reader gathers the text.
LEMMA QuotedRead ==
  ASSUME NEW format \in Quoting, NEW r \in Readers, NEW text \in Texts,
         Step(format, r, "quote") = [r EXCEPT !.at = Inside(format), !.text = <<>>]
  PROVE  Read(format, r, <<"quote">> \o FlattenSeq(Escapes(format, text)) \o <<"quote">>)
           = Step(format, [r EXCEPT !.at = Inside(format), !.text = text], "quote")
<1> DEFINE open == <<"quote">>
           body == FlattenSeq(Escapes(format, text))
           q == [r EXCEPT !.at = Inside(format), !.text = <<>>]
           p == [r EXCEPT !.at = Inside(format), !.text = text]
<1>1. "quote" \in Marks /\ open \in Seq(Marks)
  BY DEF Marks, Characters
<1>2. body \in Seq(Marks)
  BY EscapesType, FlattenType
<1>0. Inside(format) \in Places /\ <<>> \in Texts
  BY DEF Inside, Places, Texts
<1>3. q \in Readers /\ q.at = Inside(format) /\ q.text = <<>>
  BY <1>0 DEF Readers
<1>4. p = [q EXCEPT !.text = text] /\ p \in Readers
  BY <1>0 DEF Readers
<1>5. Read(format, r, open) = q
  BY <1>1, ReadOne
<1> HIDE DEF q, p
<1>6. Read(format, q, body) = p
  BY <1>3, <1>4, CharactersRead
<1>7. Read(format, p, open) = Step(format, p, "quote")
  BY <1>1, <1>4, ReadOne
<1> HIDE DEF open, body
<1> DEFINE begun == open \o body
<1>8. begun \in Seq(Marks)
  BY <1>1, <1>2, ConcatProperties
<1>9. Read(format, r, begun) = p
  BY <1>1, <1>2, <1>5, <1>6, ReadConcat
<1> HIDE DEF begun
<1>10. Read(format, r, begun \o open) = Step(format, p, "quote")
  BY <1>1, <1>7, <1>8, <1>9, ReadConcat
<1> QED BY <1>10 DEF open, body, begun, p

\* A quoted text as a JSON reader finds it, and as a CSV reader does.
LEMMA JsonStringRead ==
  ASSUME NEW r \in Readers, r.at = "value", NEW text \in Texts
  PROVE  Stands(Read("json", r, JsonString(text)), "read", r.events, Append(r.event, text))
<1> DEFINE p == [r EXCEPT !.at = "string", !.text = text]
<1>0. "json" \in Quoting /\ Inside("json") = "string"
  BY DEF Quoting, Inside
<1>1. Step("json", r, "quote") = [r EXCEPT !.at = "string", !.text = <<>>]
  BY JsonMoves
<1>2. Read("json", r, JsonString(text)) = Step("json", p, "quote")
  <2>1. Step("json", r, "quote") = [r EXCEPT !.at = Inside("json"), !.text = <<>>]
    BY <1>0, <1>1
  <2>2. Read("json", r, <<"quote">> \o FlattenSeq(Escapes("json", text)) \o <<"quote">>)
          = Step("json", [r EXCEPT !.at = Inside("json"), !.text = text], "quote")
    BY <1>0, <2>1, QuotedRead
  <2> QED BY <1>0, <2>2, QuotedType
<1>3. p \in Readers /\ p.at = "string" /\ p.text = text /\ p.events = r.events /\ p.event = r.event
  BY DEF Readers, Places
<1> HIDE DEF p
<1>4. Step("json", p, "quote") = [p EXCEPT !.at = "read", !.event = Append(@, p.text)]
  BY <1>3, JsonMoves
<1>5. Step("json", p, "quote") \in Readers
  BY <1>3, StepType DEF Marks, Characters
<1> QED BY <1>2, <1>3, <1>4, <1>5 DEF Stands, Readers

LEMMA CsvFieldRead ==
  ASSUME NEW r \in Readers, r.at \in {"end", "cell"}, NEW text \in Texts
  PROVE  /\ Stands(Read("csv", r, CsvField(text)), "closed", r.events, r.event)
         /\ Read("csv", r, CsvField(text)).text = text
<1> DEFINE p == [r EXCEPT !.at = "quoted", !.text = text]
<1>0. "csv" \in Quoting /\ Inside("csv") = "quoted" /\ "quote" \in Characters
  BY DEF Quoting, Inside, Characters
<1>1. Step("csv", r, "quote") = [r EXCEPT !.at = "quoted", !.text = <<>>]
  BY CsvMoves
<1>2. Read("csv", r, CsvField(text)) = Step("csv", p, "quote")
  <2>1. Step("csv", r, "quote") = [r EXCEPT !.at = Inside("csv"), !.text = <<>>]
    BY <1>0, <1>1
  <2>2. Read("csv", r, <<"quote">> \o FlattenSeq(Escapes("csv", text)) \o <<"quote">>)
          = Step("csv", [r EXCEPT !.at = Inside("csv"), !.text = text], "quote")
    BY <1>0, <2>1, QuotedRead
  <2> QED BY <1>0, <2>2, QuotedType
<1>3. p \in Readers /\ p.at = "quoted" /\ p.text = text /\ p.events = r.events /\ p.event = r.event
  BY DEF Readers, Places
<1> HIDE DEF p
<1>4. Step("csv", p, "quote") = [p EXCEPT !.at = "closed"]
  BY <1>0, <1>3, CsvTextMoves
<1>5. Step("csv", p, "quote") \in Readers
  BY <1>3, StepType DEF Marks, Characters
<1> QED BY <1>2, <1>3, <1>4, <1>5 DEF Stands, Readers

-----------------------------------------------------------------------------
\* One text of an event.
LEMMA FlattenTwo ==
  ASSUME NEW S, NEW s \in Seq(S), NEW t \in Seq(S)
  PROVE  <<s, t>> \in Seq(Seq(S)) /\ FlattenSeq(<<s, t>>) = s \o t
<1> DEFINE last == <<t>>
           both == <<s, t>>
<1>1. last \in Seq(Seq(S)) /\ both \in Seq(Seq(S)) /\ both = <<s>> \o last
  <2>1. last \in Seq(Seq(S)) /\ both \in Seq(Seq(S)) /\ <<s>> \in Seq(Seq(S))
    OBVIOUS
  <2>2. /\ Len(both) = 2 /\ Len(<<s>> \o last) = 2
        /\ both[1] = s /\ (<<s>> \o last)[1] = s
        /\ both[2] = t /\ (<<s>> \o last)[2] = t
    OBVIOUS
  <2>3. <<s>> \o last \in Seq(Seq(S))
    BY <2>1, ConcatProperties
  <2> HIDE DEF both, last
  <2>4. \A i \in 1 .. 2 : both[i] = (<<s>> \o last)[i]
    BY <2>2
  <2> QED BY <2>1, <2>2, <2>3, <2>4, SeqEqual
<1>2. FlattenSeq(last) = t
  BY FlattenOne
<1> HIDE DEF last, both
<1>3. FlattenSeq(<<s>> \o last) = s \o FlattenSeq(last)
  BY <1>1, FlattenFirst
<1> QED BY <1>1, <1>2, <1>3 DEF both

MemberEnd(event, j) == IF j < Len(event) THEN <<"comma">> ELSE <<>>
CellEnd(event, j) == IF j < Len(event) THEN <<"comma">> ELSE <<"break">>

\* A member and a cell are pieces.
LEMMA MemberType ==
  ASSUME NEW event \in Seq(Texts), NEW j \in 1 .. Len(event)
  PROVE  /\ event[j] \in Texts /\ JsonString(event[j]) \in Seq(Marks)
         /\ JsonMember(event, j) \in Seq(Seq(Marks))
         /\ FlattenSeq(JsonMember(event, j)) = (<<"name">> \o JsonString(event[j])) \o MemberEnd(event, j)
<1> DEFINE s == JsonString(event[j])
           name == <<"name">>
           comma == <<"comma">>
           two == <<name, s>>
           end == IF j < Len(event) THEN <<comma>> ELSE <<>>
<1>1. event[j] \in Texts
  BY ElementOfSeq
<1>2. s \in Seq(Marks)
  BY <1>1, QuotedType
<1>3. "name" \in Marks /\ "comma" \in Marks
  BY DEF Marks, Characters
<1>4. name \in Seq(Marks) /\ comma \in Seq(Marks)
  BY <1>3
<1>5. JsonMember(event, j) = two \o end
  BY DEF JsonMember
<1>6. end \in Seq(Seq(Marks)) /\ FlattenSeq(end) = MemberEnd(event, j)
  <2>1. <<comma>> \in Seq(Seq(Marks)) /\ <<>> \in Seq(Seq(Marks))
    BY <1>4
  <2>2. FlattenSeq(<<comma>>) = comma
    <3> HIDE DEF comma
    <3> QED BY <1>4, FlattenOne
  <2> QED BY <2>1, <2>2, FlattenNone DEF MemberEnd
<1> HIDE DEF s, name, comma, end
<1>7. two \in Seq(Seq(Marks)) /\ FlattenSeq(two) = name \o s
  BY <1>2, <1>4, FlattenTwo
<1> HIDE DEF two
<1>8. two \o end \in Seq(Seq(Marks)) /\ FlattenSeq(two \o end) = FlattenSeq(two) \o FlattenSeq(end)
  BY <1>6, <1>7, ConcatProperties, FlattenConcat
<1> QED BY <1>1, <1>2, <1>5, <1>6, <1>7, <1>8 DEF s, name

LEMMA CellType ==
  ASSUME NEW event \in Seq(Texts), NEW j \in 1 .. Len(event)
  PROVE  /\ event[j] \in Texts /\ CsvField(event[j]) \in Seq(Marks)
         /\ CsvCell(event, j) \in Seq(Seq(Marks))
         /\ FlattenSeq(CsvCell(event, j)) = CsvField(event[j]) \o CellEnd(event, j)
<1>1. event[j] \in Texts
  BY ElementOfSeq
<1>2. CsvField(event[j]) \in Seq(Marks)
  BY <1>1, QuotedType
<1>3. "comma" \in Marks /\ "break" \in Marks
  BY DEF Marks, Characters
<1>4. CellEnd(event, j) \in Seq(Marks)
  BY <1>3 DEF CellEnd
<1>5. CsvCell(event, j) = <<CsvField(event[j]), CellEnd(event, j)>>
  BY DEF CsvCell, CellEnd
<1> QED BY <1>1, <1>2, <1>4, <1>5, FlattenTwo

\* A reader of a member, or of a cell, has one text more of the event.
LEMMA MemberRead ==
  ASSUME NEW r \in Readers, r.at = "member", NEW event \in Seq(Texts), NEW j \in 1 .. Len(event)
  PROVE  Stands(Read("json", r, FlattenSeq(JsonMember(event, j))),
                IF j < Len(event) THEN "member" ELSE "read", r.events, Append(r.event, event[j]))
<1> DEFINE name == <<"name">>
           s == JsonString(event[j])
           q == Read("json", r, name)
           p == Read("json", q, s)
           begun == name \o s
<1>1. event[j] \in Texts /\ s \in Seq(Marks)
  BY MemberType
<1>2. "name" \in Marks /\ "comma" \in Marks
  BY DEF Marks, Characters
<1>3. name \in Seq(Marks)
  BY <1>2
<1>4. q = [r EXCEPT !.at = "value"]
  <2>1. q = Step("json", r, "name")
    BY <1>2, ReadOne
  <2>2. Step("json", r, "name") = [r EXCEPT !.at = "value"]
    BY JsonMoves
  <2> QED BY <2>1, <2>2
<1>5. q \in Readers /\ q.at = "value" /\ q.events = r.events /\ q.event = r.event
  BY <1>4 DEF Readers, Places
<1> HIDE DEF name, q
<1>6. Stands(p, "read", r.events, Append(r.event, event[j]))
  BY <1>1, <1>5, JsonStringRead
<1>7. begun \in Seq(Marks) /\ Read("json", r, begun) = p
  BY <1>1, <1>3, ReadConcat, ConcatProperties DEF q
<1> HIDE DEF p, s
<1>8. FlattenSeq(JsonMember(event, j)) = begun \o MemberEnd(event, j)
  BY MemberType DEF name, s
<1> HIDE DEF begun
<1>9. CASE j < Len(event)
  <2>1. MemberEnd(event, j) = <<"comma">> /\ <<"comma">> \in Seq(Marks)
    BY <1>2, <1>9 DEF MemberEnd
  <2>2. Read("json", p, <<"comma">>) = [p EXCEPT !.at = "member"]
    <3>1. p \in Readers /\ p.at = "read"
      BY <1>6 DEF Stands
    <3>2. Read("json", p, <<"comma">>) = Step("json", p, "comma")
      BY <1>2, <3>1, ReadOne
    <3>3. Step("json", p, "comma") = [p EXCEPT !.at = "member"]
      BY <3>1, JsonMoves
    <3> QED BY <3>2, <3>3
  <2>3. Stands([p EXCEPT !.at = "member"], "member", r.events, Append(r.event, event[j]))
    BY <1>6 DEF Stands, Readers, Places
  <2>4. Read("json", r, begun \o MemberEnd(event, j)) = Read("json", p, MemberEnd(event, j))
    <3>1. MemberEnd(event, j) \in Seq(Marks)
      BY <2>1
    <3> QED BY <1>7, <3>1, ReadConcat
  <2> QED BY <1>8, <1>9, <2>1, <2>2, <2>3, <2>4
<1>10. CASE ~(j < Len(event))
  <2>1. begun \o MemberEnd(event, j) = begun
    BY <1>7, <1>10, ConcatEmptySeq DEF MemberEnd
  <2> QED BY <1>6, <1>7, <1>8, <1>10, <2>1
<1> QED BY <1>9, <1>10

LEMMA CellRead ==
  ASSUME NEW r \in Readers, r.at \in {"end", "cell"}, NEW event \in Seq(Texts), NEW j \in 1 .. Len(event)
  PROVE  /\ j < Len(event) =>
              Stands(Read("csv", r, FlattenSeq(CsvCell(event, j))),
                     "cell", r.events, Append(r.event, event[j]))
         /\ ~(j < Len(event)) =>
              Stands(Read("csv", r, FlattenSeq(CsvCell(event, j))),
                     "end", Append(r.events, Append(r.event, event[j])), <<>>)
<1> DEFINE s == CsvField(event[j])
           p == Read("csv", r, s)
<1>1. event[j] \in Texts /\ s \in Seq(Marks)
  BY CellType
<1>2. "comma" \in Marks /\ "break" \in Marks
  BY DEF Marks, Characters
<1>3. Stands(p, "closed", r.events, r.event) /\ p.text = event[j]
  BY <1>1, CsvFieldRead
<1>4. FlattenSeq(CsvCell(event, j)) = s \o CellEnd(event, j)
  BY CellType
<1> HIDE DEF s
<1>5. \A c \in Marks : Read("csv", r, s \o <<c>>) = Step("csv", p, c) /\ Step("csv", p, c) \in Readers
  <2> TAKE c \in Marks
  <2>1. <<c>> \in Seq(Marks)
    OBVIOUS
  <2>2. p \in Readers
    BY <1>3 DEF Stands
  <2>3. Read("csv", r, s \o <<c>>) = Read("csv", p, <<c>>)
    BY <1>1, <2>1, ReadConcat
  <2> HIDE DEF p
  <2> QED BY <2>2, <2>3, ReadOne, StepType
<1> HIDE DEF p
<1>6. p \in Readers /\ p.at = "closed" /\ p.events = r.events /\ p.event = r.event
  BY <1>3 DEF Stands
<1>7. CASE j < Len(event)
  <2>1. Read("csv", r, FlattenSeq(CsvCell(event, j))) = Step("csv", p, "comma")
    BY <1>2, <1>4, <1>5, <1>7 DEF CellEnd
  <2>2. Step("csv", p, "comma") = [p EXCEPT !.at = "cell", !.event = Append(@, p.text)]
    BY <1>6, CsvMoves
  <2>3. Stands(Step("csv", p, "comma"), "cell", r.events, Append(r.event, event[j]))
    BY <1>2, <1>3, <1>5, <1>6, <2>2 DEF Stands, Readers
  <2> QED BY <1>7, <2>1, <2>3
<1>8. CASE ~(j < Len(event))
  <2>1. Read("csv", r, FlattenSeq(CsvCell(event, j))) = Step("csv", p, "break")
    BY <1>2, <1>4, <1>5, <1>8 DEF CellEnd
  <2>2. Step("csv", p, "break") =
          [p EXCEPT !.at = "end", !.events = Append(@, Append(p.event, p.text)), !.event = <<>>]
    BY <1>6, CsvMoves
  <2>3. Stands(Step("csv", p, "break"), "end", Append(r.events, Append(r.event, event[j])), <<>>)
    BY <1>2, <1>3, <1>5, <1>6, <2>2 DEF Stands, Readers
  <2> QED BY <1>8, <2>1, <2>3
<1> QED BY <1>7, <1>8

-----------------------------------------------------------------------------
\* All texts of an event, and all events.
LEMMA SubSeqNext ==
  ASSUME NEW S, NEW s \in Seq(S), NEW k \in 0 .. Len(s) - 1
  PROVE  /\ SubSeq(s, 1, k) \in Seq(S) /\ s[k + 1] \in S
         /\ SubSeq(s, 1, k + 1) = Append(SubSeq(s, 1, k), s[k + 1])
<1> DEFINE n == k + 1
<1>0. Len(s) \in Nat
  BY LenProperties
<1>1. n \in 1 .. Len(s) /\ 1 \in 1 .. Len(s) /\ 1 \in 1 .. n /\ n \in 1 .. n /\ n - 1 = k
  BY <1>0
<1>2. \A i \in 1 .. k : s[i] \in S
  BY <1>0, <1>1, ElementOfSeq
<1>3. SubSeq(s, 1, k) \in Seq(S)
  BY <1>2, SubSeqProperties
<1>4. s[n] \in S
  BY <1>1, ElementOfSeq
<1> HIDE DEF n
<1>5. SubSeq(s, 1, n) = SubSeq(s, 1, n - 1) \o <<s[n]>>
  BY <1>1, SubSeqRecursiveSecond
<1>6. Append(SubSeq(s, 1, k), s[n]) = SubSeq(s, 1, k) \o <<s[n]>>
  BY <1>3, <1>4, AppendIsConcat
<1> QED BY <1>1, <1>3, <1>4, <1>5, <1>6 DEF n

\* What the first k of the parts write, each part being some pieces.
Output(parts, k) == FlattenSeq(FlattenSeq(SubSeq(parts, 1, k)))

\* All parts together are the document.
LEMMA OutputEnds ==
  ASSUME NEW parts \in Seq(Seq(Seq(Marks)))
  PROVE  /\ Output(parts, 0) = <<>>
         /\ Output(parts, Len(parts)) = FlattenSeq(FlattenSeq(parts))
<1>1. SubSeq(parts, 1, 0) = <<>>
  BY SubSeqEmpty
<1>2. SubSeq(parts, 1, Len(parts)) = parts
  BY SubSeqFull
<1> QED BY <1>1, <1>2, FlattenNone DEF Output

\* Reading one part more of the output.
LEMMA OutputRead ==
  ASSUME NEW format, NEW r \in Readers, NEW parts \in Seq(Seq(Seq(Marks))), NEW k \in 0 .. Len(parts) - 1
  PROVE  Read(format, r, Output(parts, k + 1))
           = Read(format, Read(format, r, Output(parts, k)), FlattenSeq(parts[k + 1]))
<1> DEFINE pp == SubSeq(parts, 1, k)
           part == parts[k + 1]
           written == FlattenSeq(pp)
<1>1. pp \in Seq(Seq(Seq(Marks))) /\ part \in Seq(Seq(Marks)) /\ SubSeq(parts, 1, k + 1) = Append(pp, part)
  BY SubSeqNext
<1> HIDE DEF pp, part
<1>2. FlattenSeq(Append(pp, part)) = written \o part
  BY <1>1, FlattenAppend
<1>3. written \in Seq(Seq(Marks))
  BY <1>1, FlattenType
<1> HIDE DEF written
<1>4. FlattenSeq(written \o part) = FlattenSeq(written) \o FlattenSeq(part)
  BY <1>1, <1>3, FlattenConcat
<1>5. FlattenSeq(written) \in Seq(Marks) /\ FlattenSeq(part) \in Seq(Marks)
  BY <1>1, <1>3, FlattenType
<1>6. Output(parts, k + 1) = FlattenSeq(written) \o FlattenSeq(part)
  BY <1>1, <1>2, <1>4 DEF Output
<1>7. Output(parts, k) = FlattenSeq(written)
  BY DEF Output, written, pp
<1> DEFINE before == FlattenSeq(written)
           added == FlattenSeq(part)
<1>8. before \in Seq(Marks) /\ added \in Seq(Marks)
  BY <1>5
<1> HIDE DEF before, added
<1>9. Read(format, r, before \o added) = Read(format, Read(format, r, before), added)
  BY <1>8, ReadConcat
<1> QED BY <1>6, <1>7, <1>9 DEF before, added, part

\* A sequence made by one operator for each index.
LEMMA OneForEach ==
  ASSUME NEW S, NEW T, NEW s \in Seq(S), NEW parts,
         DOMAIN parts = DOMAIN s, parts = [i \in DOMAIN parts |-> parts[i]],
         \A i \in 1 .. Len(s) : parts[i] \in T
  PROVE  parts \in Seq(T) /\ Len(parts) = Len(s)
<1>1. Len(s) \in Nat /\ DOMAIN s = 1 .. Len(s)
  BY LenProperties
<1>2. parts \in [1 .. Len(s) -> T]
  BY <1>1
<1>3. parts \in Seq(T)
  BY <1>1, <1>2, SeqDef
<1> QED BY <1>1, <1>3, LenProperties

Members(event) == [j \in DOMAIN event |-> JsonMember(event, j)]
Cells(event) == [j \in DOMAIN event |-> CsvCell(event, j)]

\* After k members, or cells, a reader has the first k texts of the event.
LEMMA MembersRead ==
  ASSUME NEW r \in Readers, r.at = "member", r.event = <<>>, NEW event \in Seq(Texts), event # <<>>
  PROVE  /\ Members(event) \in Seq(Seq(Seq(Marks)))
         /\ Stands(Read("json", r, FlattenSeq(FlattenSeq(Members(event)))), "read", r.events, event)
<1> DEFINE n == Len(event)
           parts == Members(event)
           At(k) == Read("json", r, Output(parts, k))
           Good == {k \in 0 .. n : Stands(At(k), IF k < n THEN "member" ELSE "read",
                                           r.events, SubSeq(event, 1, k))}
<1>1. n \in Nat /\ n # 0 /\ DOMAIN event = 1 .. n
  BY EmptySeq, LenProperties
<1>2. \A j \in 1 .. n : parts[j] = JsonMember(event, j)
  BY <1>1 DEF Members
<1>3. \A j \in 1 .. n : parts[j] \in Seq(Seq(Marks))
  BY <1>2, MemberType
<1>4. DOMAIN parts = DOMAIN event /\ parts = [i \in DOMAIN parts |-> parts[i]]
  BY DEF Members
<1> HIDE DEF parts
<1>5. parts \in Seq(Seq(Seq(Marks))) /\ Len(parts) = n
  BY <1>3, <1>4, OneForEach
<1> HIDE DEF n
<1>6. 0 \in Good
  <2>1. At(0) = r
    BY <1>5, OutputEnds, ReadNothing
  <2>2. SubSeq(event, 1, 0) = <<>> /\ 0 \in 0 .. n /\ 0 < n
    BY <1>1, SubSeqEmpty
  <2>3. Stands(r, "member", r.events, <<>>)
    BY DEF Stands
  <2> HIDE DEF At
  <2> QED BY <2>1, <2>2, <2>3
<1>7. ASSUME NEW k \in 0 .. n - 1, k \in Good PROVE k + 1 \in Good
  <2>0. k + 1 \in 1 .. n /\ k < n /\ k \in 0 .. n
    BY <1>1
  <2> DEFINE q == At(k)
  <2>1. Stands(q, "member", r.events, SubSeq(event, 1, k))
    BY <1>7, <2>0
  <2>2. At(k + 1) = Read("json", q, FlattenSeq(parts[k + 1]))
    BY <1>5, OutputRead
  <2> HIDE DEF q, At
  <2>3. q \in Readers /\ q.at = "member" /\ q.events = r.events /\ q.event = SubSeq(event, 1, k)
    BY <2>1 DEF Stands
  <2>4. Stands(Read("json", q, FlattenSeq(JsonMember(event, k + 1))),
               IF k + 1 < n THEN "member" ELSE "read", q.events, Append(q.event, event[k + 1]))
    BY <2>0, <2>3, MemberRead DEF n
  <2>5. SubSeq(event, 1, k + 1) = Append(SubSeq(event, 1, k), event[k + 1])
    BY SubSeqNext DEF n
  <2>6. k + 1 \in 0 .. n
    BY <1>1, <2>0
  <2>7. At(k + 1) = Read("json", q, FlattenSeq(JsonMember(event, k + 1)))
    BY <1>2, <2>0, <2>2
  <2> QED BY <2>3, <2>4, <2>5, <2>6, <2>7
<1>8. n \in Good
  <2>1. n \in 0 .. n
    BY <1>1
  <2> HIDE DEF Good
  <2> QED BY <1>1, <1>6, <1>7, <2>1, Reached
<1>9. SubSeq(event, 1, n) = event
  BY SubSeqFull DEF n
<1>10. At(n) = Read("json", r, FlattenSeq(FlattenSeq(parts)))
  BY <1>5, OutputEnds
<1>11. ~(n < n)
  BY <1>1
<1> HIDE DEF At
<1> QED BY <1>5, <1>8, <1>9, <1>10, <1>11 DEF parts

LEMMA CellsRead ==
  ASSUME NEW r \in Readers, r.at = "end", r.event = <<>>, NEW event \in Seq(Texts), event # <<>>
  PROVE  /\ Cells(event) \in Seq(Seq(Seq(Marks)))
         /\ Stands(Read("csv", r, FlattenSeq(FlattenSeq(Cells(event)))),
                   "end", Append(r.events, event), <<>>)
<1> DEFINE n == Len(event)
           parts == Cells(event)
           At(k) == Read("csv", r, Output(parts, k))
           Good == {k \in 0 .. n :
                      IF k < n THEN \E at \in {"end", "cell"} :
                                      Stands(At(k), at, r.events, SubSeq(event, 1, k))
                      ELSE Stands(At(k), "end", Append(r.events, event), <<>>)}
<1>1. n \in Nat /\ n # 0 /\ DOMAIN event = 1 .. n
  BY EmptySeq, LenProperties
<1>2. \A j \in 1 .. n : parts[j] = CsvCell(event, j)
  BY <1>1 DEF Cells
<1>3. \A j \in 1 .. n : parts[j] \in Seq(Seq(Marks))
  BY <1>2, CellType
<1>4. DOMAIN parts = DOMAIN event /\ parts = [i \in DOMAIN parts |-> parts[i]]
  BY DEF Cells
<1> HIDE DEF parts
<1>5. parts \in Seq(Seq(Seq(Marks))) /\ Len(parts) = n
  BY <1>3, <1>4, OneForEach
<1>6. SubSeq(event, 1, n) = event
  BY SubSeqFull
<1> HIDE DEF n
<1>7. 0 \in Good
  <2>1. At(0) = r
    BY <1>5, OutputEnds, ReadNothing
  <2>2. SubSeq(event, 1, 0) = <<>> /\ 0 \in 0 .. n /\ 0 < n
    BY <1>1, SubSeqEmpty
  <2>3. Stands(r, "end", r.events, <<>>)
    BY DEF Stands
  <2> HIDE DEF At
  <2> QED BY <2>1, <2>2, <2>3
<1>8. ASSUME NEW k \in 0 .. n - 1, k \in Good PROVE k + 1 \in Good
  <2>0. k + 1 \in 1 .. n /\ k < n /\ k \in 0 .. n /\ k + 1 \in 0 .. n
    BY <1>1
  <2> DEFINE q == At(k)
             p == Read("csv", q, FlattenSeq(CsvCell(event, k + 1)))
             more == Append(SubSeq(event, 1, k), event[k + 1])
  <2>1. PICK at \in {"end", "cell"} : Stands(q, at, r.events, SubSeq(event, 1, k))
    BY <1>8, <2>0
  <2>2. At(k + 1) = p
    BY <1>2, <1>5, <2>0, OutputRead
  <2> HIDE DEF At
  <2>3. q \in Readers /\ q.at \in {"end", "cell"} /\ q.events = r.events /\ q.event = SubSeq(event, 1, k)
    BY <2>1 DEF Stands
  <2> HIDE DEF q
  <2>4. /\ k + 1 < n => Stands(p, "cell", q.events, Append(q.event, event[k + 1]))
        /\ ~(k + 1 < n) => Stands(p, "end", Append(q.events, Append(q.event, event[k + 1])), <<>>)
    BY <2>0, <2>3, CellRead DEF n
  <2>5. SubSeq(event, 1, k + 1) = more
    BY SubSeqNext DEF n
  <2> HIDE DEF p
  <2>6. CASE k + 1 < n
    BY <2>0, <2>2, <2>3, <2>4, <2>5, <2>6
  <2>7. CASE ~(k + 1 < n)
    <3>1. k + 1 = n
      BY <1>1, <2>0, <2>7
    <3>2. more = event
      BY <1>6, <2>5, <3>1
    <3>3. Stands(At(k + 1), "end", Append(r.events, event), <<>>)
      BY <2>2, <2>3, <2>4, <2>7, <3>2
    <3> QED BY <2>0, <2>7, <3>3
  <2> QED BY <2>6, <2>7
<1>9. n \in Good
  <2>1. n \in 0 .. n
    BY <1>1
  <2> HIDE DEF Good
  <2> QED BY <1>1, <1>7, <1>8, <2>1, Reached
<1>10. At(n) = Read("csv", r, FlattenSeq(FlattenSeq(parts)))
  BY <1>5, OutputEnds
<1>11. ~(n < n)
  BY <1>1
<1> HIDE DEF At
<1> QED BY <1>5, <1>9, <1>10, <1>11 DEF parts

\* Every event has texts.
Told == Seq(Texts) \ {<<>>}

LEMMA ObjectRead ==
  ASSUME NEW events \in Seq(Told), NEW i \in 1 .. Len(events)
  PROVE  /\ JsonObject(events, i) \in Seq(Seq(Marks))
         /\ \A r \in Readers : r.at \in {"open", "next"} =>
              LET q == Read("json", r, FlattenSeq(JsonObject(events, i)))
              IN  /\ q \in Readers /\ q.events = Append(r.events, events[i])
                  /\ q.at = IF i < Len(events) THEN "next" ELSE "item"
<1> DEFINE event == events[i]
           open == <<"{">>
           body == FlattenSeq(Members(event))
           close == IF i < Len(events) THEN <<"}", "comma">> ELSE <<"}">>
           text == FlattenSeq(body)
<1>1. event \in Seq(Texts) /\ event # <<>>
  BY ElementOfSeq DEF Told
<1>2. JsonObject(events, i) = <<open>> \o body \o <<close>>
  BY DEF JsonObject, ForEach, Members
<1>3. "{" \in Marks /\ "}" \in Marks /\ "comma" \in Marks
  BY DEF Marks, Characters
<1>4. open \in Seq(Marks) /\ close \in Seq(Marks)
  <2>1. \A a, b \in Marks : <<a>> \in Seq(Marks) /\ <<a, b>> \in Seq(Marks)
    OBVIOUS
  <2> QED BY <1>3, <2>1
<1> HIDE DEF event, open, close
<1>5. Members(event) \in Seq(Seq(Seq(Marks)))
  <2> DEFINE r == [at |-> "member", events |-> <<>>, event |-> <<>>, text |-> <<>>]
  <2>1. r \in Readers /\ r.at = "member" /\ r.event = <<>>
    BY DEF Readers, Places, Texts
  <2> HIDE DEF r
  <2> QED BY <1>1, <2>1, MembersRead
<1>6. body \in Seq(Seq(Marks))
  BY <1>5, FlattenType
<1> HIDE DEF body
<1>7. text \in Seq(Marks)
  BY <1>6, FlattenType
<1> HIDE DEF text
<1> DEFINE first == <<open>> \o body
           last == <<close>>
           begun == open \o text
<1>8. first \in Seq(Seq(Marks)) /\ FlattenSeq(first) = begun
  <2>1. <<open>> \in Seq(Seq(Marks))
    BY <1>4
  <2> QED BY <1>4, <1>6, <2>1, ConcatProperties, FlattenFirst DEF text
<1>9. last \in Seq(Seq(Marks)) /\ FlattenSeq(last) = close
  <2>1. last \in Seq(Seq(Marks))
    BY <1>4
  <2> QED BY <1>4, <2>1, FlattenOne
<1> HIDE DEF first, last, begun
<1>10. FlattenSeq(first \o last) = begun \o close
  BY <1>8, <1>9, FlattenConcat
<1>11. begun \in Seq(Marks)
  BY <1>4, <1>7, ConcatProperties DEF begun
<1>12. JsonObject(events, i) = first \o last /\ first \o last \in Seq(Seq(Marks))
  BY <1>2, <1>8, <1>9, ConcatProperties DEF first, last
<1>13. ASSUME NEW r \in Readers, r.at \in {"open", "next"}
       PROVE  LET q == Read("json", r, FlattenSeq(JsonObject(events, i)))
              IN  /\ q \in Readers /\ q.events = Append(r.events, events[i])
                  /\ q.at = IF i < Len(events) THEN "next" ELSE "item"
  <2> DEFINE p == Read("json", r, open)
             o == Read("json", p, text)
             m == Step("json", o, "}")
             q == Read("json", r, FlattenSeq(JsonObject(events, i)))
  <2>1. p = [r EXCEPT !.at = "member", !.event = <<>>]
    <3>1. p = Step("json", r, "{")
      BY <1>3, ReadOne DEF open
    <3>2. Step("json", r, "{") = [r EXCEPT !.at = "member", !.event = <<>>]
      BY <1>13, JsonMoves
    <3> QED BY <3>1, <3>2
  <2>2. p \in Readers /\ p.at = "member" /\ p.event = <<>> /\ p.events = r.events
    <3>1. <<>> \in Seq(Texts) /\ "member" \in Places
      BY DEF Places
    <3> HIDE DEF p
    <3> QED BY <2>1, <3>1 DEF Readers
  <2>3. Read("json", r, begun) = o
    BY <1>4, <1>7, ReadConcat DEF begun
  <2> HIDE DEF p
  <2>4. Stands(o, "read", r.events, event)
    BY <1>1, <2>2, MembersRead DEF text, body
  <2> HIDE DEF o
  <2>5. o \in Readers /\ o.at = "read" /\ o.events = r.events /\ o.event = event
    BY <2>4 DEF Stands
  <2>6. m = [o EXCEPT !.at = "item", !.events = Append(@, o.event)] /\ m \in Readers
    BY <1>3, <2>5, JsonMoves, StepType
  <2>7. m.at = "item" /\ m.events = Append(r.events, event)
    BY <2>5, <2>6 DEF Readers
  <2>8. q = Read("json", o, close)
    <3>1. Read("json", r, begun \o close) = Read("json", o, close)
      BY <1>4, <1>11, <2>3, ReadConcat
    <3> QED BY <1>10, <1>12, <3>1
  <2> HIDE DEF q
  <2>9. CASE i < Len(events)
    <3>1. q = Step("json", m, "comma")
      BY <1>3, <2>5, <2>8, <2>9, ReadTwo DEF close
    <3>2. Step("json", m, "comma") = [m EXCEPT !.at = "next"]
      BY <2>6, <2>7, JsonMoves
    <3>3. q \in Readers /\ q.at = "next" /\ q.events = m.events
      BY <1>3, <2>6, <3>1, <3>2, StepType DEF Readers
    <3> QED BY <2>7, <2>9, <3>3 DEF q, event
  <2>10. CASE ~(i < Len(events))
    <3>1. q = m
      BY <1>3, <2>5, <2>8, <2>10, ReadOne DEF close
    <3> QED BY <2>6, <2>7, <2>10, <3>1 DEF q, event
  <2> QED BY <2>9, <2>10
<1> QED BY <1>12, <1>13

Objects(events) == [i \in DOMAIN events |-> JsonObject(events, i)]
Rows(events) == [i \in DOMAIN events |-> CsvRow(events[i])]

\* After k objects, or rows, a reader has the first k events, as they were.
LEMMA ObjectsRead ==
  ASSUME NEW r \in Readers, r.at = "open", r.events = <<>>, NEW events \in Seq(Told)
  PROVE  /\ Objects(events) \in Seq(Seq(Seq(Marks)))
         /\ LET q == Read("json", r, FlattenSeq(FlattenSeq(Objects(events))))
            IN  q \in Readers /\ q.at \in {"open", "item"} /\ q.events = events
<1> DEFINE n == Len(events)
           parts == Objects(events)
           At(k) == Read("json", r, Output(parts, k))
           Good == {k \in 0 .. n :
                      /\ At(k) \in Readers /\ At(k).events = SubSeq(events, 1, k)
                      /\ At(k).at \in IF k < n THEN {"open", "next"} ELSE {"open", "item"}}
<1>1. n \in Nat /\ DOMAIN events = 1 .. n
  BY LenProperties
<1>2. \A j \in 1 .. n : parts[j] = JsonObject(events, j)
  BY <1>1 DEF Objects
<1>3. \A j \in 1 .. n : parts[j] \in Seq(Seq(Marks))
  BY <1>2, ObjectRead
<1>4. DOMAIN parts = DOMAIN events /\ parts = [i \in DOMAIN parts |-> parts[i]]
  BY DEF Objects
<1> HIDE DEF parts
<1>5. parts \in Seq(Seq(Seq(Marks))) /\ Len(parts) = n
  BY <1>3, <1>4, OneForEach
<1>6. SubSeq(events, 1, n) = events
  BY SubSeqFull
<1> HIDE DEF n
<1>7. 0 \in Good
  <2>1. At(0) = r
    BY <1>5, OutputEnds, ReadNothing
  <2>2. SubSeq(events, 1, 0) = <<>> /\ 0 \in 0 .. n
    BY <1>1, SubSeqEmpty
  <2> HIDE DEF At
  <2> QED BY <2>1, <2>2
<1>8. ASSUME NEW k \in 0 .. n - 1, k \in Good PROVE k + 1 \in Good
  <2>0. k + 1 \in 1 .. n /\ k < n /\ k \in 0 .. n /\ k + 1 \in 0 .. n
    BY <1>1
  <2> DEFINE q == At(k)
             p == Read("json", q, FlattenSeq(JsonObject(events, k + 1)))
             more == Append(SubSeq(events, 1, k), events[k + 1])
  <2>1. q \in Readers /\ q.at \in {"open", "next"} /\ q.events = SubSeq(events, 1, k)
    BY <1>8, <2>0
  <2>2. At(k + 1) = p
    BY <1>2, <1>5, <2>0, OutputRead
  <2> HIDE DEF At, q
  <2>3. p \in Readers /\ p.events = Append(q.events, events[k + 1])
        /\ p.at = IF k + 1 < n THEN "next" ELSE "item"
    BY <2>0, <2>1, ObjectRead DEF n
  <2>4. SubSeq(events, 1, k + 1) = more
    BY SubSeqNext DEF n
  <2> HIDE DEF p
  <2> QED BY <2>0, <2>1, <2>2, <2>3, <2>4
<1>9. n \in Good
  <2>1. n \in 0 .. n
    BY <1>1
  <2> HIDE DEF Good
  <2> QED BY <1>1, <1>7, <1>8, <2>1, Reached
<1>10. At(n) = Read("json", r, FlattenSeq(FlattenSeq(parts)))
  BY <1>5, OutputEnds
<1>11. ~(n < n)
  BY <1>1
<1> HIDE DEF At
<1> QED BY <1>5, <1>6, <1>9, <1>10, <1>11 DEF parts

LEMMA RowsRead ==
  ASSUME NEW r \in Readers, r.at = "end", r.events = <<>>, r.event = <<>>, NEW events \in Seq(Told)
  PROVE  /\ Rows(events) \in Seq(Seq(Seq(Marks)))
         /\ Stands(Read("csv", r, FlattenSeq(FlattenSeq(Rows(events)))), "end", events, <<>>)
<1> DEFINE n == Len(events)
           parts == Rows(events)
           At(k) == Read("csv", r, Output(parts, k))
           Good == {k \in 0 .. n : Stands(At(k), "end", SubSeq(events, 1, k), <<>>)}
<1>1. n \in Nat /\ DOMAIN events = 1 .. n
  BY LenProperties
<1>2. \A j \in 1 .. n : parts[j] = FlattenSeq(Cells(events[j]))
  BY <1>1 DEF Rows, CsvRow, ForEach, Cells
<1>3. \A j \in 1 .. n : events[j] \in Seq(Texts) /\ events[j] # <<>>
  BY ElementOfSeq DEF Told
<1>4. \A j \in 1 .. n : parts[j] \in Seq(Seq(Marks))
  BY <1>2, <1>3, CellsRead, FlattenType
<1>5. DOMAIN parts = DOMAIN events /\ parts = [i \in DOMAIN parts |-> parts[i]]
  BY DEF Rows
<1> HIDE DEF parts
<1>6. parts \in Seq(Seq(Seq(Marks))) /\ Len(parts) = n
  BY <1>4, <1>5, OneForEach
<1>7. SubSeq(events, 1, n) = events
  BY SubSeqFull
<1> HIDE DEF n
<1>8. 0 \in Good
  <2>1. At(0) = r
    BY <1>6, OutputEnds, ReadNothing
  <2>2. SubSeq(events, 1, 0) = <<>> /\ 0 \in 0 .. n
    BY <1>1, SubSeqEmpty
  <2>3. Stands(r, "end", <<>>, <<>>)
    BY DEF Stands
  <2> HIDE DEF At
  <2> QED BY <2>1, <2>2, <2>3
<1>9. ASSUME NEW k \in 0 .. n - 1, k \in Good PROVE k + 1 \in Good
  <2>0. k + 1 \in 1 .. n /\ k + 1 \in 0 .. n
    BY <1>1
  <2> DEFINE q == At(k)
             more == Append(SubSeq(events, 1, k), events[k + 1])
  <2>1. Stands(q, "end", SubSeq(events, 1, k), <<>>)
    BY <1>9
  <2>2. At(k + 1) = Read("csv", q, FlattenSeq(FlattenSeq(Cells(events[k + 1]))))
    BY <1>2, <1>6, <2>0, OutputRead
  <2> HIDE DEF At, q
  <2>3. q \in Readers /\ q.at = "end" /\ q.event = <<>> /\ q.events = SubSeq(events, 1, k)
    BY <2>1 DEF Stands
  <2>4. Stands(Read("csv", q, FlattenSeq(FlattenSeq(Cells(events[k + 1])))),
               "end", Append(q.events, events[k + 1]), <<>>)
    BY <1>3, <2>0, <2>3, CellsRead
  <2>5. SubSeq(events, 1, k + 1) = more
    BY SubSeqNext DEF n
  <2> QED BY <2>0, <2>2, <2>3, <2>4, <2>5
<1>10. n \in Good
  <2>1. n \in 0 .. n
    BY <1>1
  <2> HIDE DEF Good
  <2> QED BY <1>1, <1>8, <1>9, <2>1, Reached
<1>11. At(n) = Read("csv", r, FlattenSeq(FlattenSeq(parts)))
  BY <1>6, OutputEnds
<1> HIDE DEF At
<1> QED BY <1>6, <1>7, <1>10, <1>11 DEF parts

-----------------------------------------------------------------------------
\* The text format writes lines; only their type matters here.
LEMMA CellTextType ==
  ASSUME NEW event \in Seq(Texts), NEW j \in 1 .. Len(event)
  PROVE  TextCell(event, j) \in Seq(Marks)
<1> DEFINE end == IF j < Len(event) THEN <<"bar">> ELSE <<"break">>
<1>1. \A a \in Marks : <<a>> \in Seq(Marks)
  OBVIOUS
<1>2. "bar" \in Marks /\ "break" \in Marks /\ Characters \subseteq Marks
  BY DEF Marks, Characters
<1>3. event[j] \in Seq(Marks)
  <2>1. event[j] \in Seq(Characters)
    BY ElementOfSeq DEF Texts
  <2> QED BY <1>2, <2>1, SeqMonotonic
<1>4. end \in Seq(Marks)
  BY <1>1, <1>2
<1>5. TextCell(event, j) = event[j] \o end
  BY DEF TextCell
<1> HIDE DEF end
<1> QED BY <1>3, <1>4, <1>5, ConcatProperties

LEMMA LineType ==
  ASSUME NEW event \in Seq(Texts)
  PROVE  TextLine(event) \in Seq(Marks)
<1> DEFINE cells == [j \in DOMAIN event |-> TextCell(event, j)]
<1>1. TextLine(event) = FlattenSeq(cells)
  BY DEF TextLine, ForEach
<1>2. DOMAIN event = 1 .. Len(event)
  BY LenProperties
<1>3. DOMAIN cells = DOMAIN event /\ cells = [j \in DOMAIN cells |-> cells[j]]
  OBVIOUS
<1>4. \A j \in 1 .. Len(event) : cells[j] \in Seq(Marks)
  BY <1>2, CellTextType
<1> HIDE DEF cells
<1>5. cells \in Seq(Seq(Marks))
  BY <1>3, <1>4, OneForEach
<1> QED BY <1>1, <1>5, FlattenType

LEMMA LinesType ==
  ASSUME NEW events \in Seq(Told)
  PROVE  TextPieces(events) \in Seq(Seq(Marks))
<1> DEFINE lines == [i \in DOMAIN events |-> <<TextLine(events[i])>>]
           bom == <<<<"bom">>>>
<1>1. TextPieces(events) = bom \o FlattenSeq(lines)
  BY DEF TextPieces, ForEach
<1>2. DOMAIN events = 1 .. Len(events)
  BY LenProperties
<1>3. DOMAIN lines = DOMAIN events /\ lines = [i \in DOMAIN lines |-> lines[i]]
  OBVIOUS
<1>4. ASSUME NEW i \in 1 .. Len(events) PROVE lines[i] \in Seq(Seq(Marks))
  <2> DEFINE line == TextLine(events[i])
  <2>1. events[i] \in Seq(Texts)
    BY ElementOfSeq DEF Told
  <2>2. line \in Seq(Marks)
    BY <2>1, LineType
  <2>3. lines[i] = <<line>>
    BY <1>2
  <2> HIDE DEF line, lines
  <2> QED BY <2>2, <2>3
<1> HIDE DEF lines
<1>5. lines \in Seq(Seq(Seq(Marks)))
  BY <1>3, <1>4, OneForEach
<1>6. bom \in Seq(Seq(Marks))
  <2>1. \A a \in Marks : <<<<a>>>> \in Seq(Seq(Marks))
    OBVIOUS
  <2>2. "bom" \in Marks
    BY DEF Marks
  <2> QED BY <2>1, <2>2
<1> HIDE DEF bom
<1> QED BY <1>1, <1>5, <1>6, FlattenType, ConcatProperties

\* Between the brackets, and below the headings, stand the events.
LEMMA JsonRoundTrip ==
  ASSUME NEW events \in Seq(Told)
  PROVE  /\ JsonPieces(events) \in Seq(Seq(Marks))
         /\ Holds("json", FlattenSeq(JsonPieces(events)), events)
<1> DEFINE open == <<"[">>
           close == <<"]">>
           first == <<open>>
           last == <<close>>
           body == FlattenSeq(Objects(events))
           text == FlattenSeq(body)
           file == FlattenSeq(JsonPieces(events))
           r == [at |-> "open", events |-> <<>>, event |-> <<>>, text |-> <<>>]
           q == Read("json", r, text)
<1>1. "[" \in Marks /\ "]" \in Marks
  BY DEF Marks
<1>2. \A a \in Marks : <<a>> \in Seq(Marks) /\ <<<<a>>>> \in Seq(Seq(Marks)) /\ FlattenSeq(<<<<a>>>>) = <<a>>
  <2> TAKE a \in Marks
  <2> DEFINE one == <<a>>
  <2>1. one \in Seq(Marks) /\ <<one>> \in Seq(Seq(Marks))
    OBVIOUS
  <2>2. FlattenSeq(<<one>>) = one
    <3> HIDE DEF one
    <3> QED BY <2>1, FlattenOne
  <2> QED BY <2>1, <2>2
<1>3. /\ open \in Seq(Marks) /\ close \in Seq(Marks)
      /\ first \in Seq(Seq(Marks)) /\ FlattenSeq(first) = open
      /\ last \in Seq(Seq(Marks)) /\ FlattenSeq(last) = close
  BY <1>1, <1>2
<1>4. JsonPieces(events) = first \o body \o last
  BY DEF JsonPieces, ForEach, Objects
<1>5. Reader \in Readers /\ Reader.at = "start" /\ r \in Readers /\ r = [Reader EXCEPT !.at = "open"]
  BY DEF Reader, Readers, Places, Texts
<1>6. r.at = "open" /\ r.events = <<>>
  OBVIOUS
<1>7. Read("json", Reader, open) = r
  <2>1. Read("json", Reader, open) = Step("json", Reader, "[")
    BY <1>1, <1>5, ReadOne
  <2>2. Step("json", Reader, "[") = [Reader EXCEPT !.at = "open"]
    BY <1>5, JsonMoves
  <2> QED BY <1>5, <2>1, <2>2
<1> HIDE DEF r
<1>8. /\ Objects(events) \in Seq(Seq(Seq(Marks)))
      /\ q \in Readers /\ q.at \in {"open", "item"} /\ q.events = events
  BY <1>5, <1>6, ObjectsRead
<1>9. Read("json", q, close) = [q EXCEPT !.at = "end"]
  <2>1. Read("json", q, close) = Step("json", q, "]")
    BY <1>1, <1>8, ReadOne
  <2>2. Step("json", q, "]") = [q EXCEPT !.at = "end"]
    BY <1>8, JsonMoves
  <2> QED BY <2>1, <2>2
<1> HIDE DEF open, close, first, last
<1>10. body \in Seq(Seq(Marks))
  BY <1>8, FlattenType
<1> HIDE DEF body
<1>11. text \in Seq(Marks)
  BY <1>10, FlattenType
<1> DEFINE begun == first \o body
           start == open \o text
<1>12. begun \in Seq(Seq(Marks)) /\ FlattenSeq(begun) = start
  BY <1>3, <1>10, ConcatProperties, FlattenConcat
<1>13. start \in Seq(Marks)
  BY <1>3, <1>11, ConcatProperties
<1> HIDE DEF text
<1>14. Read("json", Reader, start) = Read("json", Read("json", Reader, open), text)
  BY <1>3, <1>5, <1>11, ReadConcat
<1>15. Read("json", Reader, start) = q
  BY <1>7, <1>14 DEF q
<1> HIDE DEF start, begun, q
<1>16. begun \o last \in Seq(Seq(Marks)) /\ FlattenSeq(begun \o last) = start \o close
  BY <1>3, <1>12, ConcatProperties, FlattenConcat
<1>17. JsonPieces(events) = begun \o last
  BY <1>4 DEF begun
<1>18. file = start \o close
  BY <1>16, <1>17
<1> HIDE DEF file
<1>19. Read("json", Reader, file) = [q EXCEPT !.at = "end"]
  BY <1>3, <1>5, <1>9, <1>13, <1>15, <1>18, ReadConcat
<1>20. [q EXCEPT !.at = "end"].at = "end" /\ [q EXCEPT !.at = "end"].events = events
  BY <1>8 DEF Readers
<1>21. Holds("json", file, events)
  BY <1>19, <1>20 DEF Holds
<1> QED BY <1>16, <1>17, <1>21 DEF file

LEMMA CsvRoundTrip ==
  ASSUME NEW events \in Seq(Told)
  PROVE  /\ CsvPieces(events) \in Seq(Seq(Marks))
         /\ Holds("csv", FlattenSeq(CsvPieces(events)), events)
<1> DEFINE bom == <<"bom">>
           headings == <<"headings", "break">>
           first == <<bom, headings>>
           body == FlattenSeq(Rows(events))
           text == FlattenSeq(body)
           file == FlattenSeq(CsvPieces(events))
           r == [at |-> "end", events |-> <<>>, event |-> <<>>, text |-> <<>>]
           q == Read("csv", r, text)
           start == bom \o headings
<1>1. "bom" \in Marks /\ "headings" \in Marks /\ "break" \in Marks
  BY DEF Marks, Characters
<1>2. \A a, b \in Marks : <<a>> \in Seq(Marks) /\ <<a, b>> \in Seq(Marks)
  OBVIOUS
<1>3. bom \in Seq(Marks) /\ headings \in Seq(Marks)
  BY <1>1, <1>2
<1>4. CsvPieces(events) = first \o body
  BY DEF CsvPieces, ForEach, Rows
<1>5. Reader \in Readers /\ Reader.at = "start" /\ Reader.events = <<>> /\ Reader.event = <<>>
  BY DEF Reader, Readers, Places, Texts
<1>6. r \in Readers /\ r.at = "end" /\ r.events = <<>> /\ r.event = <<>>
  BY DEF Readers, Places, Texts
<1>7. Read("csv", Reader, start) = r
  <2> DEFINE p == [Reader EXCEPT !.at = "top"]
             o == [p EXCEPT !.at = "headings"]
  <2>1. Read("csv", Reader, bom) = p
    <3>1. Read("csv", Reader, bom) = Step("csv", Reader, "bom")
      BY <1>1, <1>5, ReadOne
    <3>2. Step("csv", Reader, "bom") = p
      BY <1>5, CsvMoves
    <3> QED BY <3>1, <3>2
  <2>2. p \in Readers /\ p.at = "top" /\ o \in Readers /\ o.at = "headings" /\ [o EXCEPT !.at = "end"] = r
    <3>1. "top" \in Places /\ "headings" \in Places
      BY DEF Places
    <3>2. p \in Readers
      BY <1>5, <3>1 DEF Readers
    <3>3. p.at = "top"
      BY <1>5 DEF Readers
    <3>4. o \in Readers /\ o.at = "headings"
      <4> HIDE DEF p
      <4> QED BY <3>1, <3>2 DEF Readers
    <3>5. [o EXCEPT !.at = "end"] = r
      <4>1. p = [at |-> "top", events |-> <<>>, event |-> <<>>, text |-> <<>>]
        BY DEF Reader
      <4>2. o = [at |-> "headings", events |-> <<>>, event |-> <<>>, text |-> <<>>]
        <5> HIDE DEF p
        <5> QED BY <4>1
      <4> HIDE DEF o
      <4> QED BY <4>2
    <3> QED BY <3>2, <3>3, <3>4, <3>5
  <2> HIDE DEF r
  <2>3. Step("csv", p, "headings") = o /\ Step("csv", o, "break") = r
    <3>1. Step("csv", p, "headings") = [p EXCEPT !.at = "headings"]
      <4> HIDE DEF p
      <4> QED BY <2>2, CsvMoves
    <3>2. Step("csv", o, "break") = [o EXCEPT !.at = "end"]
      <4> HIDE DEF o
      <4> QED BY <2>2, CsvMoves
    <3> QED BY <2>2, <3>1, <3>2
  <2> HIDE DEF p, o
  <2>4. Read("csv", p, headings) = r
    BY <1>1, <2>2, <2>3, ReadTwo
  <2> HIDE DEF bom, headings
  <2> QED BY <1>3, <1>5, <2>1, <2>4, ReadConcat
<1> HIDE DEF r
<1>8. Rows(events) \in Seq(Seq(Seq(Marks))) /\ Stands(q, "end", events, <<>>)
  BY <1>6, RowsRead
<1> HIDE DEF bom, headings
<1>9. first \in Seq(Seq(Marks)) /\ FlattenSeq(first) = start
  BY <1>3, FlattenTwo
<1>10. start \in Seq(Marks)
  BY <1>3, ConcatProperties
<1> HIDE DEF first, start
<1>11. body \in Seq(Seq(Marks))
  BY <1>8, FlattenType
<1> HIDE DEF body
<1>12. text \in Seq(Marks)
  BY <1>11, FlattenType
<1>13. first \o body \in Seq(Seq(Marks)) /\ FlattenSeq(first \o body) = start \o text
  BY <1>9, <1>11, ConcatProperties, FlattenConcat
<1>14. file = start \o text
  BY <1>4, <1>13
<1> HIDE DEF file, text
<1>15. Read("csv", Reader, file) = q
  BY <1>5, <1>7, <1>10, <1>12, <1>14, ReadConcat
<1>16. Holds("csv", file, events)
  BY <1>8, <1>15 DEF Holds, Stands
<1> QED BY <1>4, <1>13, <1>16 DEF file

\* What the export writes, its reader finds: every event, in order, with every
\* text as it was, whatever quotes, backslashes, commas and breaks are in it.
THEOREM ExportRoundTrip ==
  ASSUME NEW format \in Formats, NEW events \in Seq(Told)
  PROVE  /\ PiecesOf(format, events) \in Seq(Seq(Marks))
         /\ Holds(format, FlattenSeq(PiecesOf(format, events)), events)
<1>1. CASE format = "json"
  BY <1>1, JsonRoundTrip DEF PiecesOf
<1>2. CASE format = "csv"
  BY <1>2, CsvRoundTrip DEF PiecesOf
<1>3. CASE format = "text"
  BY <1>3, LinesType DEF PiecesOf, Holds
<1> QED BY <1>1, <1>2, <1>3 DEF Formats

-----------------------------------------------------------------------------
\* What an export under way has to do: the file ends as a whole document once
\* the pieces that are left are written to it.
Underway ==
  /\ export \in [path : Files, format : Formats, pieces : Seq(Seq(Marks))]
  /\ export.path.extension \in KnownExtensions =>
       export.path.extension = ExtensionOf[export.format]
  /\ disk[export.path] \in Seq(Marks)
  /\ disk[export.path] \o FlattenSeq(export.pieces)
       = FlattenSeq(PiecesOf(export.format, store.events))

\* What ExportTruthful needs to be inductive.  While an export is written, all
\* files but its own are what the user was told of them.
ExportInv ==
  /\ DOMAIN told = Files
  /\ gui = "export" => Underway
  /\ \A path \in Files : (gui = "export" /\ path = export.path) \/ Truthful(path)

LEMMA ExportInit == Init => ExportInv
<1> SUFFICES ASSUME Init PROVE ExportInv
  OBVIOUS
<1>1. /\ gui = "main"
      /\ disk = [path \in Files |-> IF path \in OldFiles THEN <<"old">> ELSE None]
      /\ told = [path \in Files |-> Nothing]
  BY DEF Init
<1>2. \A path \in Files : Truthful(path)
  BY <1>1 DEF Truthful, Nothing
<1> QED BY <1>1, <1>2 DEF ExportInv

\* The store's events can be exported.
LEMMA EventsAreTold == Seq(Events) \subseteq Seq(Told)
<1>1. Events \subseteq Told
  BY EventsAssumption DEF Told, Texts
<1> QED BY <1>1, SeqMonotonic

\* What happens outside an export leaves the files and what is known of them.
LEMMA ExportUntouched ==
  ASSUME ExportInv, UNCHANGED <<export, disk, told>>,
         \/ gui # "export" /\ gui' # "export"
         \/ UNCHANGED <<gui, store>>
  PROVE  ExportInv'
<1>1. \A path : Truthful(path)' <=> Truthful(path)
  BY DEF Truthful
<1>2. CASE gui # "export" /\ gui' # "export"
  BY <1>1, <1>2 DEF ExportInv
<1>3. CASE UNCHANGED <<gui, store>>
  <2>1. Underway' <=> Underway
    BY <1>3 DEF Underway
  <2> QED BY <1>1, <1>3, <2>1 DEF ExportInv
<1> QED BY <1>2, <1>3

\* The file that is opened has the extension of its format, unless the user
\* typed one of no format, and is empty.
LEMMA PickKeepsTruth == DialogsTyped /\ ExportInv /\ PickPath => ExportInv'
<1> SUFFICES ASSUME DialogsTyped, ExportInv, PickPath PROVE ExportInv'
  OBVIOUS
<1>1. /\ gui = "save" /\ UNCHANGED <<store, told>>
      /\ DOMAIN told = Files /\ DOMAIN disk = Files /\ store.events \in Seq(Events)
  BY DEF PickPath, ExportInv, DialogsTyped, TypeOK, FilesInv
<1>2. PICK path \in Paths, format \in Formats : Pick(path, format)
  BY DEF PickPath
<1>3. CASE gui' = "error" /\ UNCHANGED <<export, disk>>
  BY <1>1, <1>3, ExportUntouched
<1> DEFINE named == NamedPath(path, format)
           pieces == PiecesOf(format, store.events)
<1>4. CASE /\ gui' = "export"
           /\ export' = [path |-> named, format |-> format, pieces |-> pieces]
           /\ disk' = [disk EXCEPT ![named] = <<>>]
  <2>1. named \in Files
    BY DEF Files
  <2>2. named.extension \in KnownExtensions => named.extension = ExtensionOf[format]
    <3>1. path \in [name : STRING, extension : STRING]
      BY PathsAssumption
    <3>2. CASE path.extension \in KnownExtensions \cup {""}
      <4>1. named = [path EXCEPT !.extension = ExtensionOf[format]]
        BY <3>2 DEF NamedPath
      <4> HIDE DEF named
      <4> QED BY <3>1, <4>1
    <3>3. CASE path.extension \notin KnownExtensions \cup {""}
      BY <3>3 DEF NamedPath
    <3> QED BY <3>2, <3>3
  <2>3. pieces \in Seq(Seq(Marks))
    <3>1. store.events \in Seq(Told)
      BY <1>1, EventsAreTold
    <3> QED BY <3>1, ExportRoundTrip
  <2> DEFINE document == FlattenSeq(pieces)
  <2> HIDE DEF named, pieces
  <2>4. document \in Seq(Marks)
    BY <2>3, FlattenType
  <2> HIDE DEF document
  <2>5. <<>> \in Seq(Marks) /\ <<>> \o document = document
    BY <2>4, ConcatEmptySeq
  <2>6. export'.path = named /\ export'.format = format /\ export'.pieces = pieces
    BY <1>4
  <2>7. disk'[named] = <<>> /\ \A other \in Files \ {named} : disk'[other] = disk[other]
    BY <1>1, <1>4, <2>1
  <2>8. Underway'
    <3>1. export' \in [path : Files, format : Formats, pieces : Seq(Seq(Marks))]
      BY <1>4, <2>1, <2>3
    <3>2. FlattenSeq(PiecesOf(format, store'.events)) = document
      BY <1>1 DEF document, pieces
    <3>3. disk'[export'.path] \o FlattenSeq(export'.pieces) = document
      BY <2>5, <2>6, <2>7 DEF document
    <3> QED BY <2>2, <2>5, <2>6, <2>7, <3>1, <3>2, <3>3 DEF Underway
  <2>9. ASSUME NEW other \in Files \ {named} PROVE Truthful(other)'
    <3>1. Truthful(other)
      BY <1>1 DEF ExportInv
    <3> QED BY <1>1, <2>7, <3>1 DEF Truthful
  <2> QED BY <1>1, <1>4, <2>6, <2>8, <2>9 DEF ExportInv
<1> QED BY <1>2, <1>3, <1>4 DEF Pick

\* Marks in a row have an order and no grouping.
LEMMA MarksInOrder == \A s, t, u \in Seq(Marks) : (s \o t) \o u = s \o (t \o u)
  BY ConcatAssociative

\* WriteFile takes the beginning of a piece: the file and the pieces that are
\* left are together what they were.
LEMMA TakeKeepsDocument ==
  ASSUME NEW written \in Seq(Marks), NEW pieces \in Seq(Seq(Marks)), pieces # <<>>,
         NEW n \in 1 .. Len(Head(pieces))
  PROVE  LET piece == Head(pieces)
             taken == SubSeq(piece, 1, n)
             left  == IF n = Len(piece) THEN Tail(pieces)
                      ELSE <<SubSeq(piece, n + 1, Len(piece))>> \o Tail(pieces)
         IN  /\ written \o taken \in Seq(Marks)
             /\ left \in Seq(Seq(Marks))
             /\ (written \o taken) \o FlattenSeq(left) = written \o FlattenSeq(pieces)
<1> DEFINE piece == Head(pieces)
           rest == Tail(pieces)
           taken == SubSeq(piece, 1, n)
           more == SubSeq(piece, n + 1, Len(piece))
           left == IF n = Len(piece) THEN rest ELSE <<more>> \o rest
<1>1. piece \in Seq(Marks) /\ rest \in Seq(Seq(Marks)) /\ pieces = <<piece>> \o rest
  <2>1. piece \in Seq(Marks) /\ rest \in Seq(Seq(Marks))
    BY HeadTailProperties
  <2>2. pieces = <<piece>> \o rest
    OBVIOUS
  <2> QED BY <2>1, <2>2
<1> HIDE DEF piece, rest
<1>2. Len(piece) \in Nat /\ n \in 1 .. Len(piece)
  BY <1>1, LenProperties DEF piece
<1>3. taken \in Seq(Marks) /\ more \in Seq(Marks) /\ taken \o more = piece
  <2>1. taken \in Seq(Marks) /\ more \in Seq(Marks)
    BY <1>1, <1>2
  <2>2. SubSeq(piece, 1, Len(piece)) = piece
    BY <1>1, SubSeqFull
  <2>3. SubSeq(piece, 1, n) \o SubSeq(piece, n + 1, Len(piece)) = SubSeq(piece, 1, Len(piece))
    BY <1>1, <1>2, ConcatAdjacentSubSeq
  <2> QED BY <2>1, <2>2, <2>3
<1>4. n = Len(piece) => taken = piece
  BY <1>1, SubSeqFull
<1> DEFINE flat == FlattenSeq(rest)
<1>5. flat \in Seq(Marks) /\ FlattenSeq(pieces) = piece \o flat
  BY <1>1, FlattenType, FlattenFirst
<1>6. FlattenSeq(<<more>> \o rest) = more \o flat /\ <<more>> \o rest \in Seq(Seq(Marks))
  <2>1. FlattenSeq(<<more>> \o rest) = more \o flat
    <3> HIDE DEF more
    <3> QED BY <1>1, <1>3, FlattenFirst
  <2>2. <<more>> \in Seq(Seq(Marks))
    BY <1>3
  <2> HIDE DEF more
  <2> QED BY <1>1, <2>1, <2>2, ConcatProperties
<1> HIDE DEF flat, taken, more
<1>7. written \o taken \in Seq(Marks) /\ left \in Seq(Seq(Marks))
  <2>1. written \o taken \in Seq(Marks)
    BY <1>3, ConcatProperties
  <2>2. left \in Seq(Seq(Marks))
    BY <1>1, <1>6
  <2> QED BY <2>1, <2>2
<1>8. taken \o FlattenSeq(left) = piece \o flat
  <2>1. CASE n = Len(piece)
    BY <1>4, <2>1 DEF flat
  <2>2. CASE n # Len(piece)
    <3>1. taken \o FlattenSeq(left) = taken \o (more \o flat)
      BY <1>6, <2>2
    <3>2. taken \o (more \o flat) = (taken \o more) \o flat
      BY <1>3, <1>5, MarksInOrder
    <3> QED BY <1>3, <3>1, <3>2
  <2> QED BY <2>1, <2>2
<1> DEFINE after == FlattenSeq(left)
<1>9. after \in Seq(Marks)
  BY <1>7, FlattenType
<1> HIDE DEF after
<1>10. (written \o taken) \o after = written \o (taken \o after)
  BY <1>3, <1>9, MarksInOrder
<1>11. (written \o taken) \o FlattenSeq(left) = written \o FlattenSeq(pieces)
  BY <1>5, <1>8, <1>10 DEF after
<1> QED BY <1>7, <1>11 DEF piece, rest, taken, more

LEMMA WriteKeepsTruth == DialogsTyped /\ ExportInv /\ WritePiece => ExportInv'
<1> SUFFICES ASSUME DialogsTyped, ExportInv, WritePiece PROVE ExportInv'
  OBVIOUS
<1>1. /\ gui = "export" /\ gui' = gui /\ store' = store /\ told' = told
      /\ export.pieces # <<>> /\ Underway
      /\ DOMAIN told = Files /\ DOMAIN disk = Files
  BY DEF WritePiece, ExportInv, DialogsTyped, FilesInv
<1> DEFINE path == export.path
           pieces == export.pieces
           written == disk[path]
           piece == Head(pieces)
<1>2. PICK n \in 1 .. Len(piece) :
        /\ Written(n)
        /\ export' = [export EXCEPT !.pieces =
             IF n = Len(piece) THEN Tail(pieces)
             ELSE <<SubSeq(piece, n + 1, Len(piece))>> \o Tail(pieces)]
  BY DEF WritePiece
<1> DEFINE longer == written \o SubSeq(piece, 1, n)
           left == IF n = Len(piece) THEN Tail(pieces)
                   ELSE <<SubSeq(piece, n + 1, Len(piece))>> \o Tail(pieces)
<1>3. /\ export \in [path : Files, format : Formats, pieces : Seq(Seq(Marks))]
      /\ written \in Seq(Marks) /\ path \in Files /\ pieces \in Seq(Seq(Marks))
      /\ written \o FlattenSeq(pieces) = FlattenSeq(PiecesOf(export.format, store.events))
      /\ path.extension \in KnownExtensions => path.extension = ExtensionOf[export.format]
  BY <1>1 DEF Underway
<1>4. disk' = [disk EXCEPT ![path] = longer]
  BY <1>2 DEF Written
<1>5. export' = [export EXCEPT !.pieces = left]
  BY <1>2
<1>6. /\ longer \in Seq(Marks) /\ left \in Seq(Seq(Marks))
      /\ longer \o FlattenSeq(left) = written \o FlattenSeq(pieces)
  <2> HIDE DEF pieces, written
  <2> QED BY <1>1, <1>2, <1>3, TakeKeepsDocument DEF pieces
<1> HIDE DEF longer, left, written
<1>7. /\ export'.path = path /\ export'.format = export.format /\ export'.pieces = left
      /\ export' \in [path : Files, format : Formats, pieces : Seq(Seq(Marks))]
  BY <1>3, <1>5, <1>6
<1>8. disk'[path] = longer /\ \A other \in Files \ {path} : disk'[other] = disk[other]
  BY <1>1, <1>3, <1>4
<1>9. Underway'
  <2>1. disk'[export'.path] \o FlattenSeq(export'.pieces)
          = FlattenSeq(PiecesOf(export'.format, store'.events))
    BY <1>1, <1>3, <1>6, <1>7, <1>8
  <2> QED BY <1>3, <1>6, <1>7, <1>8, <2>1 DEF Underway
<1>10. ASSUME NEW other \in Files \ {path} PROVE Truthful(other)'
  <2>1. Truthful(other)
    BY DEF ExportInv
  <2> QED BY <1>1, <1>8, <2>1 DEF Truthful
<1> QED BY <1>1, <1>7, <1>9, <1>10 DEF ExportInv

\* The end of an export, well or badly, is reported for its file alone; and what
\* is reported as saved is a whole document.
LEMMA EndKeepsTruth ==
  DialogsTyped /\ ExportInv /\ (WriteFails \/ CloseFile) => ExportInv'
<1> SUFFICES ASSUME DialogsTyped, ExportInv, WriteFails \/ CloseFile PROVE ExportInv'
  OBVIOUS
<1>1. /\ gui = "export" /\ gui' # "export" /\ disk' = disk /\ Underway
      /\ DOMAIN told = Files /\ store.events \in Seq(Events)
  BY DEF WriteFails, CloseFile, ExportInv, DialogsTyped, TypeOK
<1>2. /\ export.path \in Files /\ export.format \in Formats
      /\ disk[export.path] \in Seq(Marks)
  BY <1>1 DEF Underway
<1>3. PICK path \in Files : path = export.path
  BY <1>2
<1>4. PICK report :
        /\ told' = [told EXCEPT ![path] = report]
        /\ \/ report = [at |-> "failed"]
           \/ /\ export.pieces = <<>>
              /\ report = [at |-> "saved", format |-> export.format, events |-> store.events]
  BY <1>3 DEF WriteFails, CloseFile
<1>5. /\ DOMAIN told' = Files /\ told'[path] = report
      /\ \A other \in Files \ {path} : told'[other] = told[other]
  BY <1>1, <1>2, <1>4
<1>6. ASSUME NEW other \in Files \ {path} PROVE Truthful(other)'
  <2>1. Truthful(other)
    BY <1>3 DEF ExportInv
  <2> QED BY <1>1, <1>5, <2>1 DEF Truthful
<1>7. Truthful(path)'
  <2>1. CASE report = [at |-> "failed"]
    BY <1>5, <2>1 DEF Truthful
  <2>2. CASE /\ export.pieces = <<>>
             /\ report = [at |-> "saved", format |-> export.format, events |-> store.events]
    <3>1. FlattenSeq(export.pieces) = <<>>
      BY <2>2, FlattenNone
    <3>2. disk[path] = FlattenSeq(PiecesOf(export.format, store.events))
      BY <1>1, <1>2, <1>3, <3>1, ConcatEmptySeq DEF Underway
    <3>3. store.events \in Seq(Told)
      BY <1>1, EventsAreTold
    <3>4. Holds(export.format, disk[path], store.events)
      BY <1>2, <1>3, <3>2, <3>3, ExportRoundTrip
    <3>5. path.extension \in KnownExtensions =>
            path.extension = ExtensionOf[export.format]
      BY <1>1, <1>3 DEF Underway
    <3> QED BY <1>1, <1>5, <2>2, <3>4, <3>5 DEF Truthful
  <2> QED BY <1>4, <2>1, <2>2
<1> QED BY <1>1, <1>5, <1>6, <1>7 DEF ExportInv

LEMMA ExportNext == DialogsTyped /\ ExportInv /\ [Next]_vars => ExportInv'
<1> SUFFICES ASSUME DialogsTyped, ExportInv, [Next]_vars PROVE ExportInv'
  OBVIOUS
<1>1. CASE Receive
  BY <1>1, ExportUntouched DEF Receive, Loops, files
<1>2. CASE OtherCopies
  BY <1>2, ExportUntouched DEF OtherCopies, files
<1>3. CASE Menu
  BY <1>3, ExportUntouched DEF Menu, OpenMenu, MenuCommand, DismissMenu, files
<1>4. CASE Details
  BY <1>4, ExportUntouched DEF Details, OpenDetails, CopyDetails, CloseDetails, files
<1>5. CASE Boxes
  BY <1>5, ExportUntouched DEF Boxes, ShowAbout, DismissBox, files
<1>6. CASE Save
  <2>1. CASE BeginExport
    BY <2>1, ExportUntouched DEF BeginExport
  <2>2. CASE NotPicked
    BY <2>2, ExportUntouched DEF NotPicked, files
  <2>3. CASE PickPath
    BY <2>3, PickKeepsTruth
  <2>4. CASE WritePiece
    BY <2>4, WriteKeepsTruth
  <2>5. CASE WriteFails \/ CloseFile
    BY <2>5, EndKeepsTruth
  <2> QED BY <1>6, <2>1, <2>2, <2>3, <2>4, <2>5 DEF Save, Writing
<1>7. CASE CloseWindow
  BY <1>7, ExportUntouched DEF CloseWindow, Loops, files
<1>8. CASE UNCHANGED vars
  BY <1>8, ExportUntouched DEF vars, files
<1> QED BY <1>1, <1>2, <1>3, <1>4, <1>5, <1>6, <1>7, <1>8 DEF Next

\* A file that the user was told is saved (export_session_events) holds, in the
\* format its extension names, every event the session had, with every text as
\* it was: whatever part of a piece WriteFile takes at a time (write_all),
\* whichever texts need quoting (write_json_string, write_csv_field), and
\* whatever the other dialogs do before and after.
THEOREM DialogsExportTruthful == Spec => []ExportTruthful
<1>1. DialogsTyped /\ ExportInv => ExportTruthful
  BY DEF ExportInv, ExportTruthful
<1>2. Init => DialogsTyped /\ ExportInv
  BY TypedInit, ExportInit
<1>3. DialogsTyped /\ ExportInv /\ [Next]_vars => (DialogsTyped /\ ExportInv)'
  BY TypedNext, ExportNext
<1> QED BY <1>1, <1>2, <1>3, PTL DEF Spec
===============================================================================
