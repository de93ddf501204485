------------------------------ MODULE ChatView ------------------------------
(***************************************************************************)
(* The chat of the terminal interface: internal/ui/model/chat.go over the  *)
(* list of ChatList, and the handlers of internal/ui/model/ui.go that      *)
(* change it: events of the messages of the session on screen, keys, mouse,*)
(* resizing, switching sessions, and the ticks that animate spinners.      *)
(*                                                                         *)
(* The interface is one event loop, so a handler is one step; what makes   *)
(* it hard is that events, timers and user input come in any order.  The   *)
(* session consists of MaxMessages messages; an assistant message has at   *)
(* most one tool call.  Events arrive in order and none is lost (Broker    *)
(* has the losses).  Thinking, nested tools and text selection are left    *)
(* out.                                                                    *)
(***************************************************************************)
EXTENDS ChatList

CONSTANTS
    TextHeight,           \* heights a text may be rendered with
    OpenHeight,           \* height of an expanded tool
    ViewHeight,           \* heights of the viewport
    MouseScrollThreshold,
    MaxMessages           \* bound: messages of the session

ASSUME HeightsPositive ==
    /\ TextHeight \subseteq Nat \ {0}
    /\ OpenHeight \in Nat \ {0}
    /\ ViewHeight \subseteq Nat \ {0}
    /\ MouseScrollThreshold \in Nat \ {0}
    /\ MaxMessages \in Nat

VARIABLES
    msgs,     \* the stored messages of the session
    session,  \* what is on screen: the session, another one or none
    lateText, \* messages whose text came after their text item was dropped
    chat      \* the list's fields, and those of Chat:
              \*   follow, idInxMap, paused; ticks: ids with a StepMsg under
              \*   way; click: a DelayedClickMsg that is still valid is

vars == <<msgs, session, lateText, chat>>

Part == {"text", "tool", "info"}
Id(n, part) == [msg |-> n, part |-> part]

NewMessage(role) ==
    [role |-> role, text |-> role = "user", tool |-> "none", finish |-> "no"]

Init ==
    /\ msgs = <<>>
    /\ session = "none"
    /\ lateText = {}
    /\ \E h \in ViewHeight :
           chat = [items |-> <<>>, height |-> h, selectedIdx |-> -1,
                   offsetIdx |-> 0, offsetLine |-> 0, follow |-> FALSE,
                   idInxMap |-> <<>>, paused |-> {}, ticks |-> {},
                   click |-> FALSE]

-----------------------------------------------------------------------------
(* Items.                                                                  *)

ShouldRenderAssistantMessage(m) ==
    m.tool = "none" \/ m.text \/ m.finish = "canceled"

isSpinning(m, part) ==
    CASE part = "text" -> /\ m.role = "assistant" /\ m.finish = "no"
                          /\ ~m.text /\ m.tool = "none"
      [] part = "tool" -> m.tool = "open"
      [] part = "info" -> FALSE

(* A spinner, a closed tool and a footer take one row.                     *)
Item(n, m, part, rows) ==
    [id |-> Id(n, part), spins |-> isSpinning(m, part),
     h |-> IF part = "text" /\ m.text THEN rows ELSE 1]

isSelectable(c, i) == i \in Indices(c) /\ ItemAt(c, i).id.part # "info"

ExtractMessageItems(n, m, rows) ==
    (IF m.role = "user" \/ ShouldRenderAssistantMessage(m)
     THEN <<Item(n, m, "text", rows)>> ELSE <<>>)
    \o (IF m.tool # "none" THEN <<Item(n, m, "tool", rows)>> ELSE <<>>)

Footer(n, m) ==
    IF m.finish = "end" THEN <<Item(n, m, "info", 1)>> ELSE <<>>

Spinning(items) == {items[i].id : i \in {j \in DOMAIN items : items[j].spins}}

StartAnimations(c, items) == [c EXCEPT !.ticks = @ \union Spinning(items)]

Known(c, id) == id \in DOMAIN c.idInxMap
MessageItem(c, id) == ItemAt(c, c.idInxMap[id])
ReplaceItem(c, item) == [c EXCEPT !.items[c.idInxMap[item.id] + 1] = item]

IndexOf(items) ==
    [id \in {items[i].id : i \in DOMAIN items} |->
        CHOOSE i \in 0 .. Len(items) - 1 : items[i + 1].id = id]

AppendMessages(c, items) ==
    LET offset == Len(c.items)
        new == IndexOf(items)
    IN [AppendItems(c, items) EXCEPT
            !.idInxMap = [id \in DOMAIN new \union DOMAIN @ |->
                             IF id \in DOMAIN new THEN offset + new[id] ELSE @[id]]]

(* Mutant: the index still finds the removed item.                         *)
RemoveKeepingIndex(c, id) ==
    IF ~Known(c, id) THEN c
    ELSE [RemoveItem(c, c.idInxMap[id]) EXCEPT !.paused = @ \ {id}]

RemoveMessage(c, id) ==
    IF ~Known(c, id) THEN c
    ELSE LET idx == c.idInxMap[id]
             left == RemoveItem(c, idx)
             behind(x) == {i \in Indices(left) : i >= idx /\ ItemAt(left, i).id = x}
         IN [left EXCEPT
                 !.idInxMap = [x \in DOMAIN @ \ {id} |->
                     IF behind(x) = {} THEN @[x] ELSE CHOOSE i \in behind(x) : TRUE],
                 !.paused = @ \ {id}]

ClearMouse(c) == [c EXCEPT !.click = FALSE]

ClearMessages(c) ==
    ClearMouse([setItems(c, <<>>) EXCEPT !.idInxMap = <<>>, !.paused = {}])

-----------------------------------------------------------------------------
(* Scrolling, and the flag that makes the view follow the conversation.    *)

(* Mutant of ScrollToSelected: the flag stays as it was.                   *)
ScrollKeepingFollow(c) == ListToSelected(c)

ScrollToBottom(c) == [ListToBottom(c) EXCEPT !.follow = TRUE]
ScrollToTop(c) == [ListToTop(c) EXCEPT !.follow = FALSE]
ScrollBy(c, lines) ==
    LET l == ListBy(c, lines)
    IN [l EXCEPT !.follow = lines > 0 /\ AtBottom(l)]
ScrollToSelected(c) ==
    LET l == ListToSelected(c) IN [l EXCEPT !.follow = AtBottom(l)]
ScrollToIndex(c, i) ==
    LET l == ListToIndex(c, i) IN [l EXCEPT !.follow = AtBottom(l)]

(* Paused items that are gone are forgotten, visible ones start again.     *)
RestartPausedVisibleAnimations(c) ==
    LET here == {id \in c.paused : Known(c, id)}
        visible == {id \in here : InView(c, c.idInxMap[id])}
    IN IF c.paused = {} THEN c
       ELSE [c EXCEPT !.paused = here \ visible,
                      !.ticks = @ \union {id \in visible :
                                             MessageItem(c, id).spins}]

Animated(c) == RestartPausedVisibleAnimations(c)
ScrollToBottomAndAnimate(c) == Animated(ScrollToBottom(c))

IfFollowToBottom(c) == IF c.follow THEN ScrollToBottomAndAnimate(c) ELSE c

SetMessages(c, items) ==
    ScrollToBottom([setItems(c, items) EXCEPT
                        !.idInxMap = IndexOf(items), !.paused = {}])

(* Is the list at the bottom, in its new size?                             *)
SetSize(c, height) ==
    LET l == [c EXCEPT !.height = height]
    IN IF AtBottom(l) THEN ScrollToBottom(l) ELSE l

-----------------------------------------------------------------------------
(* Selecting: the loops skip what is not selectable, and end at the end of *)
(* the list whether it is selectable or not.                               *)

SelectNext(c) ==
    LET next == {i \in Indices(c) : i > c.selectedIdx /\ isSelectable(c, i)}
    IN IF c.selectedIdx >= LastIdx(c) THEN c
       ELSE [c EXCEPT !.selectedIdx = IF next = {} THEN LastIdx(c) ELSE Min(next)]

SelectPrev(c) ==
    LET prev == {i \in Indices(c) : i < c.selectedIdx /\ isSelectable(c, i)}
    IN IF c.selectedIdx <= 0 THEN c
       ELSE [c EXCEPT !.selectedIdx = IF prev = {} THEN 0 ELSE Max(prev)]

Selectable(c) == {i \in Indices(c) : isSelectable(c, i)}

SelectFirst(c) ==
    IF c.items = <<>> THEN c
    ELSE [c EXCEPT !.selectedIdx =
              IF Selectable(c) = {} THEN LastIdx(c) ELSE Min(Selectable(c))]

SelectLast(c) ==
    IF c.items = <<>> THEN c
    ELSE [c EXCEPT !.selectedIdx =
              IF Selectable(c) = {} THEN 0 ELSE Max(Selectable(c))]

SetSelected(c, i) ==
    LET from == {k \in Selectable(c) : k >= i}
    IN IF i \notin Indices(c) THEN Select(c, i)
       ELSE IF from # {} THEN Select(c, Min(from)) ELSE SelectLast(c)

VisibleSelectable(c) == {i \in Selectable(c) : InView(c, i)}
SelectFirstInView(c) ==
    IF VisibleSelectable(c) = {} THEN c ELSE Select(c, Min(VisibleSelectable(c)))
SelectLastInView(c) ==
    IF VisibleSelectable(c) = {} THEN c ELSE Select(c, Max(VisibleSelectable(c)))

(* When the selection has been scrolled out of the view it moves on (then  *)
(* the list is "next"), and the view comes to it.                          *)
BringSelection(c, next) ==
    IF SelectedItemInView(c) THEN c ELSE Animated(ScrollToSelected(next))

-----------------------------------------------------------------------------
(* Events of messages.                                                     *)

Number == Len(msgs)
Current == msgs[Number]
Unfinished == msgs # <<>> /\ Current.role = "assistant" /\ Current.finish = "no"

(* Every message is created unfinished (agent.go 346, 704, 809), so the    *)
(* footer of one that is created finished (ui.go 1071-1079) is left out.   *)
appendSessionMessage(c, n, m, rows) ==
    LET items == ExtractMessageItems(n, m, rows)
        longer == AppendMessages(StartAnimations(c, items), items)
    IN IF Known(c, Id(n, "text")) THEN c
       ELSE IF m.role = "user" THEN ScrollToBottomAndAnimate(longer)
       ELSE IfFollowToBottom(longer)

UpdateText(c, n, m, rows) ==
    IF Known(c, Id(n, "text")) THEN ReplaceItem(c, Item(n, m, "text", rows))
    ELSE c

(* A message that is only tool calls loses its empty text.                 *)
DropEmptyText(c, n, m) ==
    IF ShouldRenderAssistantMessage(m) \/ m.tool = "none"
       \/ ~Known(c, Id(n, "text"))
    THEN c
    ELSE IF m.finish = "end" THEN RemoveMessage(c, Id(n, "text"))
    ELSE RemoveMessage(RemoveMessage(c, Id(n, "text")), Id(n, "info"))

AddFooter(c, n, m) ==
    IF Known(c, Id(n, "info")) THEN c ELSE AppendMessages(c, Footer(n, m))

(* Mutant: the spinner of a new tool is not started.                       *)
UpdateToolQuietly(c, n, m) ==
    LET id == Id(n, "tool")
    IN IF m.tool = "none" THEN c
       ELSE IF Known(c, id)
       THEN ReplaceItem(c, [MessageItem(c, id) EXCEPT
                                !.spins = isSpinning(m, "tool")])
       ELSE AppendMessages(c, <<Item(n, m, "tool", 1)>>)

UpdateTool(c, n, m) ==
    LET id == Id(n, "tool")
        new == <<Item(n, m, "tool", 1)>>
    IN IF m.tool = "none" THEN c
       ELSE IF Known(c, id)
       THEN ReplaceItem(c, [MessageItem(c, id) EXCEPT
                                !.spins = isSpinning(m, "tool")])
       ELSE AppendMessages(StartAnimations(c, new), new)

updateSessionMessage(c, n, m, rows) ==
    LET text == DropEmptyText(UpdateText(c, n, m, rows), n, m)
        all == UpdateTool(AddFooter(text, n, m), n, m)
    IN IF all.follow THEN SelectLast(ScrollToBottomAndAnimate(all)) ELSE all

(* The messages go on, and the event reaches the chat while it shows the   *)
(* session.                                                                *)
Shows(c) == chat' = IF session = "this" THEN c ELSE chat

MessageCreated ==
    /\ Number < MaxMessages
    /\ ~Unfinished
    /\ \E role \in {"user", "assistant"}, rows \in TextHeight :
           LET m == NewMessage(role)
           IN /\ role = "assistant" => Number > 0
              /\ msgs' = Append(msgs, m)
              /\ Shows(appendSessionMessage(chat, Number + 1, m, rows))
    /\ UNCHANGED <<session, lateText>>

(* How an assistant message may go on: it ends with no tool call open.     *)
Progress(m) ==
    {[m EXCEPT !.text = TRUE]}
    \union {[m EXCEPT !.tool = t] : t \in
               CASE m.tool = "none" -> {"open"} [] m.tool = "open" -> {"done"}
                 [] OTHER -> {}}
    \union {[m EXCEPT !.finish = f] : f \in
               CASE m.tool = "none" -> {"end", "canceled"}
                 [] m.tool = "open" -> {}
                 [] m.tool = "done" -> {"end", "canceled", "tool_use"}}

MessageUpdated ==
    /\ Unfinished
    /\ \E m \in Progress(Current), rows \in TextHeight :
           /\ msgs' = [msgs EXCEPT ![Number] = m]
           /\ lateText' = IF /\ session = "this"
                             /\ ShouldRenderAssistantMessage(m)
                             /\ ~Known(chat, Id(Number, "text"))
                          THEN lateText \union {Number} ELSE lateText
           /\ Shows(updateSessionMessage(chat, Number, m, rows))
    /\ UNCHANGED session

(* The result of a tool call is a message without items of its own.        *)
ToolResult ==
    /\ session = "this" /\ Unfinished /\ Current.tool = "done"
    /\ chat' = IfFollowToBottom(chat)
    /\ UNCHANGED <<msgs, session, lateText>>

(* Only an unfinished message is deleted: a summary that was cancelled.    *)
(* Its number is used again, so the ticks that nobody would heed go too.   *)
MessageDeleted ==
    /\ Unfinished /\ Current.tool = "none"
    /\ LET gone == Id(Number, "text")
           c == IF session = "this" THEN RemoveMessage(chat, gone) ELSE chat
       IN chat' = [c EXCEPT !.ticks = @ \ {gone}]
    /\ msgs' = SubSeq(msgs, 1, Number - 1)
    /\ UNCHANGED <<session, lateText>>

-----------------------------------------------------------------------------
(* Keys and mouse.  They change the chat only.                             *)

ByHand(c) ==
    /\ session # "none"
    /\ chat' = c
    /\ UNCHANGED <<msgs, session, lateText>>

Moved(lines) == Animated(ScrollBy(chat, lines))

WheelUp ==
    LET c == Moved(-MouseScrollThreshold)
    IN ByHand(BringSelection(c, SelectPrev(c)))
WheelDown ==
    LET c == Moved(MouseScrollThreshold)
    IN ByHand(BringSelection(c, IF AtBottom(c) THEN SelectLast(c) ELSE SelectNext(c)))

(* The arrow keys, and dragging at the edge of the view.                   *)
LineUp == LET c == Moved(-1) IN ByHand(BringSelection(c, SelectPrev(c)))
LineDown == LET c == Moved(1) IN ByHand(BringSelection(c, SelectNext(c)))

ItemUp == ByHand(Animated(ScrollToSelected(SelectPrev(chat))))
ItemDown == ByHand(Animated(ScrollToSelected(SelectNext(chat))))

PageUp ==
    \E lines \in {chat.height, chat.height \div 2} :
        ByHand(SelectFirstInView(Moved(-lines)))
PageDown ==
    \E lines \in {chat.height, chat.height \div 2} :
        ByHand(SelectLastInView(Moved(lines)))

Home == ByHand(SelectFirst(Animated(ScrollToTop(chat))))
End == ByHand(SelectLast(ScrollToBottomAndAnimate(chat)))

(* Expanding or collapsing the selected tool; others do not expand.        *)
ToggleExpanded(c) ==
    LET idx == c.selectedIdx
        opens == ItemAt(c, idx).h = 1
        other == [c EXCEPT !.items[idx + 1].h = IF opens THEN OpenHeight ELSE 1]
    IN IF opens THEN other ELSE ScrollToIndex(other, idx)

Anchor(c) == IF AtBottom(c) THEN ScrollToBottom(c) ELSE c

SelectedPart(c) ==
    IF c.selectedIdx \in Indices(c) THEN ItemAt(c, c.selectedIdx).id.part
    ELSE "none"

ToggleExpandedSelectedItem ==
    /\ SelectedPart(chat) = "tool"
    /\ ByHand(Anchor(ToggleExpanded(chat)))

(* The first click of a row selects its item and schedules an action that  *)
(* a second click calls off.                                               *)
HandleMouseDown ==
    \E idx \in {findItemAtY(chat, y) : y \in 0 .. chat.height - 1},
       click \in BOOLEAN :
        /\ isSelectable(chat, idx)
        /\ ByHand([Select(chat, idx) EXCEPT !.click = click])

(* The action is for the item selected by now; it does nothing when the    *)
(* user has dragged to select text.                                        *)
HandleDelayedClick ==
    /\ chat.click
    /\ LET c == ClearMouse(chat)
           part == SelectedPart(c)
           isAssistant ==
               part = "text" /\ msgs[ItemAt(c, c.selectedIdx).id.msg].role # "user"
       IN chat' \in {c} \union
              (IF part = "tool" THEN {Anchor(ToggleExpanded(c))}
               ELSE IF isAssistant THEN {Anchor(c)} ELSE {})
    /\ UNCHANGED <<msgs, session, lateText>>

-----------------------------------------------------------------------------
(* Ticks and the layout.                                                   *)

(* A tick for an item that is out of view pauses it.                       *)
Animate(c, id) ==
    LET left == [c EXCEPT !.ticks = @ \ {id}]
    IN IF ~Known(c, id) THEN left
       ELSE IF ~InView(c, c.idInxMap[id]) THEN [left EXCEPT !.paused = @ \union {id}]
       ELSE [left EXCEPT !.paused = @ \ {id},
                         !.ticks = IF MessageItem(c, id).spins
                                   THEN @ \union {id} ELSE @]

(* Without a session on screen the tick is dropped.                        *)
Tick ==
    /\ \E id \in chat.ticks :
           chat' = IF session = "none" THEN [chat EXCEPT !.ticks = @ \ {id}]
                   ELSE IfFollowToBottom(Animate(chat, id))
    /\ UNCHANGED <<msgs, session, lateText>>

Rewrap(c, rows) ==
    LET new(item) == IF item.id.part = "text" /\ msgs[item.id.msg].text
                     THEN [item EXCEPT !.h = rows] ELSE item
    IN [c EXCEPT !.items = [i \in DOMAIN c.items |-> new(c.items[i])]]

(* A second pass, when the height of the editor changes with its width, is *)
(* a Relayout before this one.                                             *)
updateLayoutAndSize(c, height, rows) == SetSize(Rewrap(c, rows), height)

(* The window's size or the editor's height changed.                       *)
Resize ==
    /\ \E then \in ViewHeight, rows \in TextHeight :
           LET c == updateLayoutAndSize(chat, then, rows)
           IN chat' = IF session = "none" THEN c ELSE IfFollowToBottom(c)
    /\ UNCHANGED <<msgs, session, lateText>>

(* The pills were expanded or collapsed.                                   *)
togglePillsExpanded ==
    \E then \in ViewHeight, rows \in TextHeight :
        LET c == updateLayoutAndSize(chat, then, rows)
        IN ByHand(IF c.follow THEN ScrollToBottom(c) ELSE c)

(* The size of the queue, the todos, the help or the compact mode changed. *)
Relayout ==
    /\ \E then \in ViewHeight, rows \in TextHeight :
           chat' = updateLayoutAndSize(chat, then, rows)
    /\ UNCHANGED <<msgs, session, lateText>>

(* Tab puts the focus on the chat and selects its last item.               *)
FocusChat ==
    \E then \in ViewHeight, rows \in TextHeight :
        LET c == updateLayoutAndSize(chat, then, rows)
        IN ByHand(SetSelected(c, LastIdx(c)))

-----------------------------------------------------------------------------
(* Switching sessions.                                                     *)

setSessionMessages(c, items) ==
    SelectLast(ScrollToBottomAndAnimate(
        SetMessages(StartAnimations(c, items), items)))

AllItems(rows) ==
    FlattenSeq([n \in DOMAIN msgs |->
        ExtractMessageItems(n, msgs[n], rows) \o Footer(n, msgs[n])])

(* Loads this session, or another one, which is empty.  What the layout of *)
(* before did to the view is overwritten.                                  *)
LoadSession ==
    /\ \/ \E then \in ViewHeight, rows \in TextHeight :
              chat' = SetSize(setSessionMessages(chat, AllItems(rows)), then)
          /\ session' = "this"
       \/ \E then \in ViewHeight :
              chat' = SetSize(setSessionMessages(chat, <<>>), then)
          /\ session' = "other"
    /\ lateText' = {}
    /\ UNCHANGED msgs

newSession ==
    /\ session # "none"
    /\ ~Unfinished
    /\ \E then \in ViewHeight : chat' = ClearMessages(SetSize(chat, then))
    /\ session' = "none"
    /\ lateText' = {}
    /\ UNCHANGED msgs

Event == MessageCreated \/ MessageUpdated \/ ToolResult \/ MessageDeleted
Scrolling == WheelUp \/ WheelDown \/ LineUp \/ LineDown \/ ItemUp \/ ItemDown
Paging == PageUp \/ PageDown \/ Home \/ End
Pointing == ToggleExpandedSelectedItem \/ HandleMouseDown \/ HandleDelayedClick
Layout == Resize \/ togglePillsExpanded \/ Relayout \/ FocusChat

Next ==
    \/ Event \/ Scrolling \/ Paging \/ Pointing \/ Layout
    \/ Tick \/ LoadSession \/ newSession

Spec == Init /\ [][Next]_vars

-----------------------------------------------------------------------------
(* Properties.                                                             *)

(* The view begins inside the list, never above the first row of an item   *)
(* (list.go:29-31), and what is selected is there.                         *)
TypeOK ==
    /\ session \in {"this", "other", "none"}
    /\ chat.height \in ViewHeight
    /\ chat.offsetLine \in Nat
    /\ chat.offsetIdx \in IF chat.items = <<>> THEN {-1, 0} ELSE Indices(chat)
    /\ chat.selectedIdx \in {-1} \union Indices(chat)
    /\ chat.follow \in BOOLEAN

(* Rows: where the view begins, the furthest it may begin, what is below.  *)
Position(l) == Stack(l, 0, l.offsetIdx) + l.offsetLine
Total(l) == Extent(l, 0, LastIdx(l))
MaxPosition(l) == AtLeastZero(Total(l) - l.height)

(* A row of a gap stands for the first row of the item behind it.          *)
Snap(l, row) ==
    LET start(i) == Stack(l, 0, i)
        behind == {i \in Indices(l) : start(i) - gap <= row /\ row < start(i)}
    IN IF behind = {} THEN row ELSE start(CHOOSE i \in behind : TRUE)

Distances(l) ==
    {1, MouseScrollThreshold, l.height, l.height \div 2} \ {0}

(* Scrolling moves the view by the rows that were asked for, and stops at  *)
(* the first and at the last row: on the way down the gap is skipped       *)
(* (ScrollBy, list.go:184-244, a walk over items and their rows).          *)
ScrollMovesExactly ==
    chat.items # <<>> /\ Position(chat) <= MaxPosition(chat) =>
        \A n \in Distances(chat) :
            /\ Position(ListBy(chat, n))
                 = Min({MaxPosition(chat), Snap(chat, Position(chat) + n)})
            /\ Position(ListBy(chat, -n)) = AtLeastZero(Position(chat) - n)

(* A click hits the item that its row shows (list.go:618-650 against       *)
(* 278-336), unless the first item has shrunk under the view.              *)
ClickHitsWhatIsShown ==
    chat.items # <<>> /\ chat.offsetLine <= HeightAt(chat, chat.offsetIdx) + gap =>
        LET shown == Render(chat)
        IN \A y \in 0 .. chat.height - 1 :
               findItemAtY(chat, y)
                   = IF y + 1 \in DOMAIN shown THEN shown[y + 1] ELSE -1

(* The chat that follows the conversation shows its end.                   *)
AtTheEnd ==
    chat.follow /\ chat.items # <<>> =>
        Extent(chat, chat.offsetIdx, LastIdx(chat)) - chat.offsetLine <= chat.height

Loosens ==
    ToggleExpandedSelectedItem \/ HandleDelayedClick \/ Relayout \/ FocusChat
    \/ MessageDeleted \/ LoadSession

Repairs == session = "this" /\ (Tick \/ MessageCreated \/ MessageUpdated
                                 \/ ToolResult)

(* In follow mode no handler but expanding, deleting and the plain changes *)
(* of the layout loses the end of the conversation, and the next event or  *)
(* tick shows it again (chat.go:265-297, ui.go:670-677, 813-823,           *)
(* 1030-1187).                                                             *)
EndStaysInView ==
    [][\/ AtTheEnd'
       \/ ~AtTheEnd /\ ~Repairs
       \/ Loosens]_vars

StoredIds ==
    {Id(n, "text") : n \in {k \in DOMAIN msgs :
        msgs[k].role = "user" \/ ShouldRenderAssistantMessage(msgs[k])}}
    \union {Id(n, "tool") : n \in {k \in DOMAIN msgs : msgs[k].tool # "none"}}
    \union {Id(n, "info") : n \in {k \in DOMAIN msgs : msgs[k].finish = "end"}}

(* The items built from events are those that loading the session would    *)
(* build, each once, and the index finds every one of them; only a text    *)
(* that comes after its message was taken for tool calls alone is missing  *)
(* (ui.go:920-970 against 1030-1187).                                      *)
ShownIsStored ==
    session = "this" =>
        /\ IsInjective([i \in DOMAIN chat.items |-> chat.items[i].id])
        /\ {chat.items[i].id : i \in DOMAIN chat.items}
             = StoredIds \ {Id(n, "text") : n \in lateText}
        /\ chat.idInxMap = IndexOf(chat.items)

(* A spinner that turns has a tick under way or is remembered as paused:   *)
(* otherwise nothing would ever make it move again (chat.go:183-246).      *)
SpinnersTurn == Spinning(chat.items) \subseteq chat.ticks \union chat.paused

=============================================================================
