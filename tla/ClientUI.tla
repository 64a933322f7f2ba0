------------------------------ MODULE ClientUI ------------------------------
(***************************************************************************)
(* The window of the desktop client (the script of client-app/ui.go): the  *)
(* selected device, the tabs of remote sessions with their WebSockets, and *)
(* the chat with the user of a device.  The script has one thread and each *)
(* handler runs to its end, but what it has asked for, a session, a        *)
(* connection, a chat, arrives in a later event, whatever has been clicked *)
(* in between.                                                             *)
(*                                                                         *)
(* A handler is an operator from one state of the window to the next, so   *)
(* that handlers call one another as they do in the script.  Tabs,         *)
(* connections and chats are numbered as they are created; 0 is null.      *)
(***************************************************************************)
EXTENDS Integers, SequencesExt

CONSTANTS
    Device,    \* devices with an agent that is online
    MaxTabs,   \* bound: tabs ever opened
    MaxConns,  \* bound: sessions ever asked for
    MaxChats,  \* bound: chats ever asked for
    None       \* no device

ASSUME UIConstants ==
    /\ MaxTabs \in Nat /\ MaxConns \in Nat /\ MaxChats \in Nat
    /\ None \notin Device

VARIABLE ui

Init ==
    ui = [selected |-> None,      \* selectedDevice
          activeTab |-> "remote", \* what is shown of it: "remote" or "other"
          tab |-> <<>>,           \* the tab objects, closed ones included
          sessionTabs |-> <<>>,   \* the tabs shown
          active |-> 0,           \* activeSessionTabId
          conn |-> <<>>,          \* the sessions asked for, with their WebSockets
          remoteWs |-> 0,
          timer |-> FALSE,        \* perfInterval is set
          chat |-> <<>>,          \* the chats asked for
          chatId |-> 0,
          userClosed |-> FALSE,   \* chatUserClosed: its user has left
          panel |-> FALSE,        \* the chat panel is open
          shown |-> {}]           \* the chats whose messages are displayed
-----------------------------------------------------------------------------
(* Remote sessions.                                                         *)
\* WebSocket.close: the close event comes later.
Closing(u, w) ==
    IF w # 0 /\ u.conn[w].state \in {"connecting", "open"}
    THEN [u EXCEPT !.conn[w].state = "closing"] ELSE u

stopRemote(u) == [Closing(u, u.remoteWs) EXCEPT !.remoteWs = 0, !.timer = FALSE]

\* The server is told, and the panel is emptied and closed.
closeChat(u) ==
    [(IF u.chatId = 0 THEN u ELSE [u EXCEPT !.chat[u.chatId].state = "closed"])
        EXCEPT !.chatId = 0, !.userClosed = FALSE, !.shown = {}, !.panel = FALSE]

\* Leaving the remote pane ends the session that is shown.
switchTab(u, pane) ==
    LET v == [u EXCEPT !.activeTab = pane] IN IF pane = "remote" THEN v ELSE stopRemote(v)

selectDevice(u, d) ==
    LET v == IF u.selected \in {None, d} THEN u ELSE closeChat(u)
    IN  switchTab([v EXCEPT !.selected = d], v.activeTab)

\* The device is selected before selectDevice compares it.
switchSessionTab(u, t) ==
    selectDevice([u EXCEPT !.active = t, !.selected = u.tab[t].device, !.remoteWs = u.tab[t].ws],
                 u.tab[t].device)

\* Fault: the tab after the closed one is taken, also when there is none.
closeSessionTab_Next(u, t) ==
    LET i == CHOOSE i \in DOMAIN u.sessionTabs : u.sessionTabs[i] = t
        v == [Closing(u, u.tab[t].ws) EXCEPT !.sessionTabs = RemoveAt(@, i)]
    IN  IF u.active # t THEN v
        ELSE IF i \in DOMAIN v.sessionTabs THEN switchSessionTab(v, v.sessionTabs[i])
        ELSE [v EXCEPT !.active = 0, !.remoteWs = 0]

\* The neighbour takes the place of the active tab.
closeSessionTab(u, t) ==
    LET i == CHOOSE i \in DOMAIN u.sessionTabs : u.sessionTabs[i] = t
        v == [Closing(u, u.tab[t].ws) EXCEPT !.sessionTabs = RemoveAt(@, i)]
        last == Len(v.sessionTabs)
    IN  IF u.active # t THEN v
        ELSE IF last = 0 THEN [v EXCEPT !.active = 0, !.remoteWs = 0]
        ELSE switchSessionTab(v, v.sessionTabs[IF i < last THEN i ELSE last])

TabsOf(u, d) == {t \in ToSet(u.sessionTabs) : u.tab[t].device = d}

\* One tab for a device: it is switched to, or opened.
addSessionTab(u, d) ==
    IF TabsOf(u, d) # {} THEN switchSessionTab(u, CHOOSE t \in TabsOf(u, d) : TRUE)
    ELSE [u EXCEPT !.tab = Append(@, [device |-> d, ws |-> 0]),
                   !.sessionTabs = Append(@, Len(u.tab) + 1),
                   !.active = Len(u.tab) + 1]

\* Connect: the session is asked for, and the script goes on until it comes.
startRemote(u) ==
    LET v == addSessionTab(u, u.selected)
    IN  [v EXCEPT !.conn = Append(@, [tab |-> v.active, state |-> "requested"])]

\* Fault: the connection is given to the tab that is active by now.
Connects_ActiveTab(u, w) ==
    LET v == [u EXCEPT !.conn[w].state = "connecting", !.remoteWs = w]
    IN  IF u.active = 0 THEN v ELSE [v EXCEPT !.tab[u.active].ws = w]

\* The session has come: the WebSocket is that of the tab, which may have been
\* closed, and of the window, whatever tab is shown.
Connects(u, w) ==
    [u EXCEPT !.conn[w].state = "connecting", !.remoteWs = w, !.tab[u.conn[w].tab].ws = w]

onopen(u, w) == [u EXCEPT !.conn[w].state = "open", !.timer = TRUE]

\* Fault: the tab keeps its WebSocket.
onclose_KeepTab(u, w) ==
    [u EXCEPT !.conn[w].state = "closed", !.remoteWs = 0, !.timer = FALSE]

\* The window's connection is forgotten, and the tab's, whichever they are by now.
onclose(u, w) ==
    [u EXCEPT !.conn[w].state = "closed", !.remoteWs = 0, !.timer = FALSE,
              !.tab[u.conn[w].tab].ws = 0]
-----------------------------------------------------------------------------
(* The chat.                                                                *)
openChatSession(u) == [u EXCEPT !.chat = Append(@, [device |-> u.selected, state |-> "requested"])]

toggleChat(u) ==
    IF u.panel THEN [u EXCEPT !.panel = FALSE]
    ELSE IF u.chatId = 0 THEN [openChatSession(u) EXCEPT !.panel = TRUE]
    ELSE [u EXCEPT !.panel = TRUE]

\* Fault: the note that the user has left stays, of another chat.
Acknowledged_KeepNote(u, o) == [u EXCEPT !.chat[o].state = "open", !.chatId = o]

\* The acknowledgement of chat:open, however late.
Acknowledged(u, o) == [u EXCEPT !.chat[o].state = "open", !.chatId = o, !.userClosed = FALSE]

\* A message of either side: to a user who has left, the agent opens its window again.
Written(u, o) == [u EXCEPT !.chat[o].state = "open", !.shown = @ \cup {o}, !.userClosed = FALSE]

sendChatMessage(u) == Written(u, u.chatId)

\* Messages of another chat are ignored.
onChatMessage(u, o) == IF o # u.chatId THEN u ELSE Written(u, o)

\* The user has closed the window of the chat: the chat goes on.
onChatClosed(u, o) ==
    IF o # u.chatId THEN u ELSE [u EXCEPT !.chat[o].state = "left", !.userClosed = TRUE]

logout(u) == closeChat(stopRemote(u))
-----------------------------------------------------------------------------
ConnIn(w, states) == ui.conn[w].state \in states

SelectDevice == \E d \in Device : ui' = selectDevice(ui, d)

SwitchTab == ui.selected # None /\ \E pane \in {"remote", "other"} : ui' = switchTab(ui, pane)

SwitchSessionTab == \E t \in ToSet(ui.sessionTabs) : ui' = switchSessionTab(ui, t)

CloseSessionTab == \E t \in ToSet(ui.sessionTabs) : ui' = closeSessionTab(ui, t)

\* The button is part of the remote pane.
StartRemote ==
    /\ ui.selected # None /\ ui.activeTab = "remote"
    /\ Len(ui.conn) < MaxConns /\ (Len(ui.tab) < MaxTabs \/ TabsOf(ui, ui.selected) # {})
    /\ ui' = startRemote(ui)

StopRemote == ui.remoteWs # 0 /\ ui.activeTab = "remote" /\ ui' = stopRemote(ui)

\* The request is answered, with a session or an error.
SessionCreated == \E w \in DOMAIN ui.conn : ConnIn(w, {"requested"}) /\ ui' = Connects(ui, w)

SessionRefused ==
    \E w \in DOMAIN ui.conn :
        ConnIn(w, {"requested"}) /\ ui' = [ui EXCEPT !.conn[w].state = "refused"]

OnOpen == \E w \in DOMAIN ui.conn : ConnIn(w, {"connecting"}) /\ ui' = onopen(ui, w)

\* After close, or when the connection fails or the far end closes it.
OnClose ==
    \E w \in DOMAIN ui.conn : ConnIn(w, {"connecting", "open", "closing"}) /\ ui' = onclose(ui, w)

ToggleChat ==
    /\ ui.selected # None
    /\ ui.panel \/ ui.chatId # 0 \/ Len(ui.chat) < MaxChats
    /\ ui' = toggleChat(ui)

ChatAck ==
    \E o \in DOMAIN ui.chat :
        /\ ui.chat[o].state = "requested"
        /\ ui' = Acknowledged(ui, o) \/ ui' = [ui EXCEPT !.chat[o].state = "refused"]

SendChatMessage == ui.panel /\ ui.chatId # 0 /\ ui' = sendChatMessage(ui)

\* The chats whose rooms the script has joined, which it does not leave.
Joined == {o \in DOMAIN ui.chat : ui.chat[o].state \in {"open", "left", "closed"}}

OnChatMessage == \E o \in Joined : ui' = onChatMessage(ui, o)

OnChatClosed == \E o \in Joined : ui' = onChatClosed(ui, o)

Logout == ui' = logout(ui)

Next ==
    \/ SelectDevice \/ SwitchTab \/ SwitchSessionTab \/ CloseSessionTab
    \/ StartRemote \/ StopRemote \/ SessionCreated \/ SessionRefused \/ OnOpen \/ OnClose
    \/ ToggleChat \/ ChatAck \/ SendChatMessage \/ OnChatMessage \/ OnChatClosed \/ Logout

Spec == Init /\ [][Next]_ui
-----------------------------------------------------------------------------
Tabs == DOMAIN ui.tab

\* Types, and the tabs: those shown are distinct and of distinct devices, and one
\* of them is active whenever there is one (ui.go:644).
TypeOK ==
    /\ ui.selected \in Device \cup {None}
    /\ ui.activeTab \in {"remote", "other"}
    /\ ui.tab \in Seq([device : Device, ws : 0 .. MaxConns])
    /\ \A t, r \in Tabs :
          {t, r} \subseteq ToSet(ui.sessionTabs) /\ ui.tab[t].device = ui.tab[r].device => t = r
    /\ IsInjective(ui.sessionTabs) /\ ToSet(ui.sessionTabs) \subseteq Tabs
    /\ ui.active \in IF ui.sessionTabs = <<>> THEN {0} ELSE ToSet(ui.sessionTabs)
    /\ ui.conn \in Seq([tab : Tabs,
                        state : {"requested", "refused", "connecting", "open", "closing", "closed"}])
    /\ ui.remoteWs \in 0 .. Len(ui.conn)
    /\ ui.timer \in BOOLEAN /\ ui.panel \in BOOLEAN
    /\ ui.chat \in Seq([device : Device, state : {"requested", "refused", "open", "left", "closed"}])
    /\ ui.userClosed \in BOOLEAN
    /\ ui.chatId \in 0 .. Len(ui.chat) /\ ui.shown \subseteq DOMAIN ui.chat

Live(w) == ui.conn[w].state \in {"connecting", "open", "closing"}

\* Neither a tab nor the window keeps the WebSocket of a connection whose close
\* event has come, so that what a switch of tabs restores can be used, or is about
\* to end (ui.go:634), and the timer of the performance display ends with the last
\* one.  (Decoders, recordings and what is drawn are not told apart.)
NoDeadSocket ==
    /\ ui.timer => \E w \in DOMAIN ui.conn : ConnIn(w, {"open", "closing"})
    /\ ui.remoteWs # 0 => Live(ui.remoteWs)
    /\ \A t \in Tabs : ui.tab[t].ws # 0 => Live(ui.tab[t].ws) /\ ui.conn[ui.tab[t].ws].tab = t

\* A connection that its tab does not hold any more, and so cannot close or come
\* back to, is that of a tab that has been given a second one (ui.go:970-980).
LeftRunning ==
    \A w \in DOMAIN ui.conn :
        ConnIn(w, {"connecting", "open"}) =>
            \/ ui.tab[ui.conn[w].tab].ws = w
            \/ \E v \in DOMAIN ui.conn \ {w} :
                   ui.conn[v].tab = ui.conn[w].tab /\ ~ConnIn(v, {"requested", "refused"})

\* The chat that messages go to, and those that are displayed, are chats the
\* server has opened and the operator has not closed; their users may have left.
\* The window says so of the user of the chat it shows, until one of the two
\* writes again, and never of the user of another chat (ui.go:1675-1706).
ChatCurrent ==
    /\ \A o \in ui.shown \cup ({ui.chatId} \ {0}) : ui.chat[o].state \in {"open", "left"}
    /\ ui.userClosed <=> ui.chatId # 0 /\ ui.chat[ui.chatId].state = "left"
=============================================================================
