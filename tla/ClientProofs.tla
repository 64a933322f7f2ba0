---------------------------- MODULE ClientProofs ----------------------------
(***************************************************************************)
(* The invariants of the client's window.  A handler is an operator from   *)
(* state to state, and handlers call one another; so most of the proof is  *)
(* about operators.  What closes connections and chats and turns from tab  *)
(* to tab is shown to do no more than Releases says, a relation that can   *)
(* be composed (ReleasesOn) and that keeps the invariant (ReleasesGood).   *)
(* Each of the others, which ask for something or take what has come, has  *)
(* a lemma that says it keeps the invariant itself.                        *)
(*                                                                         *)
(* The invariant, Good, is the conjunction of what the runs check, said of *)
(* any state of the window; what it adds is that whatever is referred to,  *)
(* a tab, a connection or a chat, exists (Refs).                           *)
(***************************************************************************)
EXTENDS ClientUI, SequenceTheorems, TLAPS

ConnState == {"requested", "refused", "connecting", "open", "closing", "closed"}
ChatState == {"requested", "refused", "open", "left", "closed"}
Tab == [device : Device, ws : Nat]
Conn == [tab : Nat, state : ConnState]
Chat == [device : Device, state : ChatState]

State == [selected : Device \cup {None}, activeTab : {"remote", "other"},
          tab : Seq(Tab), sessionTabs : Seq(Nat), active : Nat,
          conn : Seq(Conn), remoteWs : Nat, timer : BOOLEAN,
          chat : Seq(Chat), chatId : Nat, panel : BOOLEAN,
          userClosed : BOOLEAN, shown : SUBSET Nat]

\* What the handlers do that ask for nothing: they close connections and chats,
\* and turn to another tab.
Releases(u, v) ==
    /\ v \in State
    /\ v.tab = u.tab
    /\ Len(v.conn) = Len(u.conn)
    /\ \A w \in DOMAIN u.conn :
          /\ v.conn[w].tab = u.conn[w].tab
          /\ \/ v.conn[w].state = u.conn[w].state
             \/ u.conn[w].state \in {"connecting", "open"} /\ v.conn[w].state = "closing"
    /\ v.remoteWs \in {0, u.remoteWs} \cup {u.tab[t].ws : t \in DOMAIN u.tab}
    /\ v.timer => u.timer
    /\ \/ v.chat = u.chat /\ v.chatId = u.chatId /\ v.shown = u.shown /\ v.userClosed = u.userClosed
       \/ v.chatId = 0 /\ v.shown = {} /\ ~v.userClosed /\ Len(v.chat) = Len(u.chat)

\* The tabs and their order are left alone.
SameTabs(u, v) == v.sessionTabs = u.sessionTabs /\ v.active = u.active

LEMMA ReleasesNothing ==
    ASSUME NEW u \in State PROVE Releases(u, u)
BY DEF Releases

LEMMA Domains ==
    ASSUME NEW u \in State
    PROVE  /\ Len(u.conn) \in Nat /\ DOMAIN u.conn = 1 .. Len(u.conn)
           /\ Len(u.chat) \in Nat /\ DOMAIN u.chat = 1 .. Len(u.chat)
           /\ Len(u.tab) \in Nat /\ DOMAIN u.tab = 1 .. Len(u.tab)
           /\ Len(u.sessionTabs) \in Nat /\ DOMAIN u.sessionTabs = 1 .. Len(u.sessionTabs)
           /\ \A w \in DOMAIN u.conn : u.conn[w] \in Conn
           /\ \A o \in DOMAIN u.chat : u.chat[o] \in Chat
           /\ \A t \in DOMAIN u.tab : u.tab[t] \in Tab
           /\ \A i \in DOMAIN u.sessionTabs : u.sessionTabs[i] \in Nat
<1>1. u.conn \in Seq(Conn) /\ u.chat \in Seq(Chat) /\ u.tab \in Seq(Tab) /\ u.sessionTabs \in Seq(Nat)
    BY DEF State
<1>2. QED
    BY <1>1, LenProperties

LEMMA ReleasesOn ==
    ASSUME NEW u \in State, NEW v, NEW x, Releases(u, v), Releases(v, x)
    PROVE  Releases(u, x)
<1>0. DOMAIN v.conn = DOMAIN u.conn
    <2>1. v \in State
        BY DEF Releases
    <2>2. QED
        BY <2>1, Domains DEF Releases
<1>1. x \in State /\ x.tab = u.tab /\ Len(x.conn) = Len(u.conn) /\ (x.timer => u.timer)
    BY DEF Releases
<1>2. \A w \in DOMAIN u.conn :
          /\ x.conn[w].tab = u.conn[w].tab
          /\ \/ x.conn[w].state = u.conn[w].state
             \/ u.conn[w].state \in {"connecting", "open"} /\ x.conn[w].state = "closing"
    BY <1>0 DEF Releases
<1>3. x.remoteWs \in {0, u.remoteWs} \cup {u.tab[t].ws : t \in DOMAIN u.tab}
    BY DEF Releases
<1>4. \/ x.chat = u.chat /\ x.chatId = u.chatId /\ x.shown = u.shown /\ x.userClosed = u.userClosed
      \/ x.chatId = 0 /\ x.shown = {} /\ ~x.userClosed /\ Len(x.chat) = Len(u.chat)
    BY DEF Releases
<1>5. QED
    BY <1>1, <1>2, <1>3, <1>4 DEF Releases

LEMMA ClosingReleases ==
    ASSUME NEW u \in State, NEW w \in 0 .. Len(u.conn)
    PROVE  Releases(u, Closing(u, w)) /\ SameTabs(u, Closing(u, w))
<1>1. CASE w # 0 /\ u.conn[w].state \in {"connecting", "open"}
    <2> DEFINE v == [u EXCEPT !.conn[w].state = "closing"]
    <2>1. w \in DOMAIN u.conn /\ u.conn[w] \in Conn
        BY <1>1, Domains
    <2>2. v.conn = [u.conn EXCEPT ![w] = [u.conn[w] EXCEPT !.state = "closing"]]
        BY DEF State
    <2>3. [u.conn[w] EXCEPT !.state = "closing"] \in Conn
        BY <2>1 DEF Conn, ConnState
    <2>4. v.conn \in Seq(Conn) /\ Len(v.conn) = Len(u.conn)
        BY <2>1, <2>2, <2>3 DEF State
    <2>5. v \in State
        BY <2>2, <2>4 DEF State
    <2>6. v.conn[w].tab = u.conn[w].tab /\ v.conn[w].state = "closing"
        BY <2>1, <2>2 DEF Conn, State
    <2>7. \A x \in DOMAIN u.conn \ {w} : v.conn[x] = u.conn[x]
        BY <2>1, <2>2 DEF State
    <2>8. /\ v.tab = u.tab /\ v.sessionTabs = u.sessionTabs /\ v.active = u.active
          /\ v.remoteWs = u.remoteWs /\ v.timer = u.timer
          /\ v.chat = u.chat /\ v.chatId = u.chatId /\ v.shown = u.shown /\ v.userClosed = u.userClosed
        BY DEF State
    <2> HIDE DEF v
    <2>9. Releases(u, v) /\ SameTabs(u, v)
        BY <1>1, <2>4, <2>5, <2>6, <2>7, <2>8 DEF Releases, SameTabs
    <2>10. QED
        BY <1>1, <2>9 DEF Closing, v
<1>2. CASE ~(w # 0 /\ u.conn[w].state \in {"connecting", "open"})
    BY <1>2, ReleasesNothing DEF Closing, SameTabs
<1>3. QED
    BY <1>1, <1>2

LEMMA stopRemoteReleases ==
    ASSUME NEW u \in State, u.remoteWs \in 0 .. Len(u.conn)
    PROVE  Releases(u, stopRemote(u)) /\ SameTabs(u, stopRemote(u))
<1> DEFINE c == Closing(u, u.remoteWs)
<1>1. Releases(u, c) /\ SameTabs(u, c)
    BY ClosingReleases
<1>2. c \in State
    BY <1>1 DEF Releases
<1>3. stopRemote(u) = [c EXCEPT !.remoteWs = 0, !.timer = FALSE]
    BY DEF stopRemote
<1> HIDE DEF c
<1>4. [c EXCEPT !.remoteWs = 0, !.timer = FALSE] \in State
    BY <1>2, Zenon DEF State
<1>5. stopRemote(u) \in State
    BY <1>3, <1>4
<1>6. Releases(c, stopRemote(u)) /\ SameTabs(c, stopRemote(u))
    BY <1>2, <1>3, <1>5 DEF State, Releases, SameTabs
<1>7. QED
    BY <1>1, <1>6, ReleasesOn DEF SameTabs

LEMMA closeChatReleases ==
    ASSUME NEW u \in State, u.chatId \in 0 .. Len(u.chat)
    PROVE  Releases(u, closeChat(u)) /\ SameTabs(u, closeChat(u))
<1> DEFINE c == IF u.chatId = 0 THEN u ELSE [u EXCEPT !.chat[u.chatId].state = "closed"]
<1>1. /\ c.chat \in Seq(Chat) /\ Len(c.chat) = Len(u.chat)
      /\ c \in State
    <2>1. CASE u.chatId = 0
        BY <2>1 DEF State
    <2>2. CASE u.chatId # 0
        <3>1. u.chatId \in DOMAIN u.chat /\ u.chat[u.chatId] \in Chat
            BY <2>2, Domains
        <3>2. c.chat = [u.chat EXCEPT ![u.chatId] = [u.chat[u.chatId] EXCEPT !.state = "closed"]]
            BY <2>2 DEF State
        <3>3. [u.chat[u.chatId] EXCEPT !.state = "closed"] \in Chat
            BY <3>1 DEF Chat, ChatState
        <3>4. c.chat \in Seq(Chat) /\ Len(c.chat) = Len(u.chat)
            BY <3>1, <3>2, <3>3 DEF State
        <3>5. c = [u EXCEPT !.chat = c.chat]
            BY <2>2, <3>2
        <3>6. QED
            BY <3>4, <3>5 DEF State
    <2>3. QED
        BY <2>1, <2>2
<1>2. /\ c.tab = u.tab /\ c.conn = u.conn /\ c.remoteWs = u.remoteWs /\ c.timer = u.timer
      /\ c.sessionTabs = u.sessionTabs /\ c.active = u.active
    BY DEF State
<1>3. closeChat(u) = [c EXCEPT !.chatId = 0, !.userClosed = FALSE, !.shown = {}, !.panel = FALSE]
    BY DEF closeChat
<1> HIDE DEF c
<1>4. [c EXCEPT !.chatId = 0, !.userClosed = FALSE, !.shown = {}, !.panel = FALSE] \in State
    BY <1>1, Zenon DEF State
<1>5. /\ closeChat(u).tab = u.tab /\ closeChat(u).conn = u.conn
      /\ closeChat(u).remoteWs = u.remoteWs /\ closeChat(u).timer = u.timer
      /\ closeChat(u).sessionTabs = u.sessionTabs /\ closeChat(u).active = u.active
      /\ closeChat(u).chatId = 0 /\ closeChat(u).shown = {} /\ closeChat(u).chat = c.chat
      /\ ~closeChat(u).userClosed
    BY <1>1, <1>2, <1>3 DEF State
<1>6. QED
    BY <1>1, <1>3, <1>4, <1>5 DEF Releases, SameTabs

LEMMA switchTabReleases ==
    ASSUME NEW u \in State, NEW pane \in {"remote", "other"}, u.remoteWs \in 0 .. Len(u.conn)
    PROVE  Releases(u, switchTab(u, pane)) /\ SameTabs(u, switchTab(u, pane))
<1> DEFINE v == [u EXCEPT !.activeTab = pane]
<1>1. v \in State
    BY DEF State
<1>2. Releases(u, v) /\ SameTabs(u, v) /\ v.remoteWs = u.remoteWs /\ v.conn = u.conn
    BY <1>1 DEF State, Releases, SameTabs
<1>3. switchTab(u, pane) = IF pane = "remote" THEN v ELSE stopRemote(v)
    BY DEF switchTab
<1> HIDE DEF v
<1>4. Releases(v, stopRemote(v)) /\ SameTabs(v, stopRemote(v))
    BY <1>1, <1>2, stopRemoteReleases
<1>5. QED
    BY <1>1, <1>2, <1>3, <1>4, ReleasesOn DEF SameTabs

\* What is referred to is there.
Refs(u) ==
    /\ u.remoteWs \in 0 .. Len(u.conn)
    /\ \A t \in DOMAIN u.tab : u.tab[t].ws \in 0 .. Len(u.conn)
    /\ \A w \in DOMAIN u.conn : u.conn[w].tab \in DOMAIN u.tab
    /\ u.chatId \in 0 .. Len(u.chat)
    /\ u.shown \subseteq DOMAIN u.chat

LEMMA ReleasesRefs ==
    ASSUME NEW u \in State, Refs(u), NEW v, Releases(u, v)
    PROVE  v \in State /\ Refs(v)
<1>1. v \in State
    BY DEF Releases
<1>2. DOMAIN v.conn = DOMAIN u.conn /\ DOMAIN v.chat = DOMAIN u.chat
    BY <1>1, Domains DEF Releases
<1>3. v.remoteWs \in 0 .. Len(v.conn) /\ v.chatId \in 0 .. Len(v.chat)
    BY Domains DEF Releases, Refs
<1>4. QED
    BY <1>1, <1>2, <1>3 DEF Releases, Refs

LEMMA selectDeviceReleases ==
    ASSUME NEW u \in State, Refs(u), NEW d \in Device
    PROVE  Releases(u, selectDevice(u, d)) /\ SameTabs(u, selectDevice(u, d))
<1> DEFINE v == IF u.selected \in {None, d} THEN u ELSE closeChat(u)
<1> DEFINE x == [v EXCEPT !.selected = d]
<1>1. Releases(u, v) /\ SameTabs(u, v)
    BY closeChatReleases, ReleasesNothing DEF Refs, SameTabs
<1>2. v \in State /\ Refs(v)
    BY <1>1, ReleasesRefs
<1> HIDE DEF v
<1>3. x \in State
    BY <1>2 DEF State
<1>4. Releases(v, x) /\ SameTabs(v, x) /\ x.activeTab = v.activeTab
    BY <1>2, <1>3 DEF State, Releases, SameTabs
<1>5. Refs(x) /\ v.activeTab \in {"remote", "other"}
    BY <1>2, <1>4, ReleasesRefs DEF State
<1> HIDE DEF x
<1>6. selectDevice(u, d) = switchTab(x, v.activeTab)
    BY DEF selectDevice, v, x
<1>7. Releases(x, switchTab(x, v.activeTab)) /\ SameTabs(x, switchTab(x, v.activeTab))
    BY <1>3, <1>5, switchTabReleases DEF Refs
<1>8. Releases(u, x)
    BY <1>1, <1>4, ReleasesOn
<1>9. QED
    BY <1>1, <1>4, <1>6, <1>7, <1>8, ReleasesOn DEF SameTabs

LEMMA switchSessionTabReleases ==
    ASSUME NEW u \in State, Refs(u), NEW t \in DOMAIN u.tab
    PROVE  /\ Releases(u, switchSessionTab(u, t))
           /\ switchSessionTab(u, t).sessionTabs = u.sessionTabs
           /\ switchSessionTab(u, t).active = t
<1> DEFINE v == [u EXCEPT !.active = t, !.selected = u.tab[t].device, !.remoteWs = u.tab[t].ws]
<1>1. t \in Nat /\ u.tab[t].device \in Device /\ u.tab[t].ws \in Nat
    BY Domains DEF Tab
<1>2. v \in State
    BY <1>1 DEF State
<1>3. Releases(u, v) /\ v.sessionTabs = u.sessionTabs /\ v.active = t
    BY <1>2 DEF State, Releases
<1>4. Refs(v)
    BY <1>3, ReleasesRefs
<1> HIDE DEF v
<1>5. Releases(v, selectDevice(v, u.tab[t].device)) /\ SameTabs(v, selectDevice(v, u.tab[t].device))
    BY <1>1, <1>2, <1>4, selectDeviceReleases
<1>6. switchSessionTab(u, t) = selectDevice(v, u.tab[t].device)
    BY DEF switchSessionTab, v
<1>7. QED
    BY <1>3, <1>5, <1>6, ReleasesOn DEF SameTabs

LEMMA logoutReleases ==
    ASSUME NEW u \in State, Refs(u)
    PROVE  Releases(u, logout(u)) /\ SameTabs(u, logout(u))
<1>1. Releases(u, stopRemote(u)) /\ SameTabs(u, stopRemote(u))
    BY stopRemoteReleases DEF Refs
<1>2. stopRemote(u) \in State /\ Refs(stopRemote(u))
    BY <1>1, ReleasesRefs
<1>3. /\ Releases(stopRemote(u), closeChat(stopRemote(u)))
      /\ SameTabs(stopRemote(u), closeChat(stopRemote(u)))
    BY <1>2, closeChatReleases DEF Refs
<1>4. QED
    BY <1>1, <1>3, ReleasesOn DEF logout, SameTabs

-----------------------------------------------------------------------------
(* The tabs.                                                                *)
\* Taking the i-th out of a sequence.
LEMMA Removed ==
    ASSUME NEW S, NEW s \in Seq(S), NEW i \in DOMAIN s
    PROVE  /\ RemoveAt(s, i) \in Seq(S)
           /\ Len(RemoveAt(s, i)) = Len(s) - 1
           /\ \A j \in 1 .. (Len(s) - 1) : RemoveAt(s, i)[j] = IF j < i THEN s[j] ELSE s[j + 1]
<1> DEFINE a == SubSeq(s, 1, i - 1)
<1> DEFINE b == SubSeq(s, i + 1, Len(s))
<1>1. Len(s) \in Nat /\ i \in 1 .. Len(s)
    BY LenProperties
<1>2. a \in Seq(S) /\ Len(a) = i - 1 /\ \A j \in 1 .. (i - 1) : a[j] = s[j]
    BY <1>1, SubSeqProperties, Z3
<1>3. b \in Seq(S) /\ Len(b) = Len(s) - i /\ \A j \in 1 .. (Len(s) - i) : b[j] = s[i + j]
    BY <1>1, SubSeqProperties
<1>4. RemoveAt(s, i) = a \o b
    BY DEF RemoveAt
<1> HIDE DEF a, b
<1>5. /\ a \o b \in Seq(S)
      /\ Len(a \o b) = Len(a) + Len(b)
      /\ \A j \in 1 .. (Len(a) + Len(b)) : (a \o b)[j] = IF j <= Len(a) THEN a[j] ELSE b[j - Len(a)]
    BY <1>2, <1>3, ConcatProperties
<1>6. Len(a) + Len(b) = Len(s) - 1
    BY <1>1, <1>2, <1>3
<1>7. ASSUME NEW j \in 1 .. (Len(s) - 1)
      PROVE  (a \o b)[j] = IF j < i THEN s[j] ELSE s[j + 1]
    <2>1. CASE j < i
        <3>1. j <= Len(a) /\ j \in 1 .. (i - 1)
            BY <1>1, <1>2, <2>1
        <3>2. (a \o b)[j] = a[j]
            BY <1>5, <1>6, <3>1
        <3>3. QED
            BY <1>2, <2>1, <3>1, <3>2
    <2>2. CASE ~(j < i)
        <3>1. ~(j <= Len(a)) /\ j - Len(a) \in 1 .. (Len(s) - i) /\ i + (j - Len(a)) = j + 1
            BY <1>1, <1>2, <2>2
        <3>2. (a \o b)[j] = b[j - Len(a)]
            BY <1>5, <1>6, <3>1
        <3>3. b[j - Len(a)] = s[i + (j - Len(a))]
            BY <1>3, <3>1
        <3>4. QED
            BY <2>2, <3>1, <3>2, <3>3
    <2>3. QED
        BY <2>1, <2>2
<1>8. QED
    BY <1>4, <1>5, <1>6, <1>7

LEMMA RemovedSet ==
    ASSUME NEW S, NEW s \in Seq(S), IsInjective(s), NEW i \in DOMAIN s
    PROVE  IsInjective(RemoveAt(s, i)) /\ ToSet(RemoveAt(s, i)) = ToSet(s) \ {s[i]}
<1> DEFINE r == RemoveAt(s, i)
<1>1. /\ Len(s) \in Nat /\ DOMAIN s = 1 .. Len(s) /\ i \in 1 .. Len(s)
      /\ r \in Seq(S) /\ Len(r) = Len(s) - 1 /\ DOMAIN r = 1 .. (Len(s) - 1)
      /\ \A j \in 1 .. (Len(s) - 1) : r[j] = IF j < i THEN s[j] ELSE s[j + 1]
    BY Removed, LenProperties
<1> HIDE DEF r
<1>2. \A j, k \in DOMAIN s : s[j] = s[k] => j = k
    BY DEF IsInjective
<1>3. IsInjective(r)
    <2> DEFINE old(j) == IF j < i THEN j ELSE j + 1
    <2>1. ASSUME NEW j \in DOMAIN r PROVE j \in Nat /\ old(j) \in DOMAIN s /\ r[j] = s[old(j)]
        <3>1. j \in 1 .. (Len(s) - 1)
            BY <1>1
        <3>2. j \in Nat /\ j \in 1 .. Len(s) /\ j + 1 \in 1 .. Len(s)
            BY <1>1, <3>1
        <3>. QED BY <1>1, <3>1, <3>2
    <2>2. ASSUME NEW j \in Nat, NEW k \in Nat, old(j) = old(k) PROVE j = k
        BY <1>1, <2>2
    <2>. HIDE DEF old
    <2>3. ASSUME NEW j \in DOMAIN r, NEW k \in DOMAIN r, r[j] = r[k] PROVE j = k
        <3>1. old(j) = old(k)
            BY <1>2, <2>1, <2>3
        <3>. QED BY <2>1, <2>2, <3>1
    <2>. QED BY <2>3 DEF IsInjective
<1>4. ToSet(r) \subseteq ToSet(s) \ {s[i]}
    <2>1. ASSUME NEW j \in DOMAIN r PROVE r[j] \in ToSet(s) \ {s[i]}
        <3>1. CASE j < i
            <4>1. j \in DOMAIN s /\ j # i /\ r[j] = s[j]
                BY <1>1, <3>1
            <4>2. s[j] # s[i]
                BY <1>1, <1>2, <4>1
            <4>3. QED
                BY <4>1, <4>2 DEF ToSet
        <3>2. CASE ~(j < i)
            <4>1. j + 1 \in DOMAIN s /\ j + 1 # i /\ r[j] = s[j + 1]
                BY <1>1, <3>2
            <4>2. s[j + 1] # s[i]
                BY <1>1, <1>2, <4>1
            <4>3. QED
                BY <4>1, <4>2 DEF ToSet
        <3>3. QED
            BY <3>1, <3>2
    <2>2. QED
        BY <2>1 DEF ToSet
<1>5. ToSet(s) \ {s[i]} \subseteq ToSet(r)
    <2>1. ASSUME NEW j \in DOMAIN s, j # i PROVE s[j] \in ToSet(r)
        <3>1. CASE j < i
            <4>1. j \in DOMAIN r /\ r[j] = s[j]
                BY <1>1, <3>1
            <4>2. QED
                BY <4>1 DEF ToSet
        <3>2. CASE ~(j < i)
            <4>1. j - 1 \in DOMAIN r /\ r[j - 1] = s[j]
                BY <1>1, <2>1, <3>2
            <4>2. QED
                BY <4>1 DEF ToSet
        <3>3. QED
            BY <3>1, <3>2
    <2>2. QED
        BY <2>1 DEF ToSet
<1>6. QED
    BY <1>3, <1>4, <1>5 DEF r

\* The tabs shown are distinct and of distinct devices.
Tabbed(u) ==
    /\ \A t, r \in DOMAIN u.tab :
          {t, r} \subseteq ToSet(u.sessionTabs) /\ u.tab[t].device = u.tab[r].device => t = r
    /\ IsInjective(u.sessionTabs) /\ ToSet(u.sessionTabs) \subseteq DOMAIN u.tab

\* One of them is active.
Active(u) == u.active \in IF u.sessionTabs = <<>> THEN {0} ELSE ToSet(u.sessionTabs)

\* A tab is taken out, and its place taken by a neighbour if it was active.
LEMMA closeSessionTabReleases ==
    ASSUME NEW u \in State, Refs(u), Tabbed(u), Active(u), NEW t \in ToSet(u.sessionTabs)
    PROVE  /\ Releases(u, closeSessionTab(u, t))
           /\ Tabbed(closeSessionTab(u, t)) /\ Active(closeSessionTab(u, t))
<1> DEFINE i == CHOOSE i \in DOMAIN u.sessionTabs : u.sessionTabs[i] = t
<1> DEFINE c == Closing(u, u.tab[t].ws)
<1> DEFINE v == [c EXCEPT !.sessionTabs = RemoveAt(@, i)]
<1> DEFINE last == Len(v.sessionTabs)
<1> DEFINE r == closeSessionTab(u, t)
<1>1. i \in DOMAIN u.sessionTabs /\ u.sessionTabs[i] = t
    BY DEF ToSet
<1>2. t \in DOMAIN u.tab
    BY DEF Tabbed
<1>3. Releases(u, c) /\ SameTabs(u, c)
    BY <1>2, ClosingReleases DEF Refs
<1>4. r = IF u.active # t THEN v
          ELSE IF last = 0 THEN [v EXCEPT !.active = 0, !.remoteWs = 0]
          ELSE switchSessionTab(v, v.sessionTabs[IF i < last THEN i ELSE last])
    BY DEF closeSessionTab
<1> HIDE DEF i, c, r
<1>5. c \in State /\ Refs(c)
    BY <1>3, ReleasesRefs
<1>6. u.sessionTabs \in Seq(Nat) /\ IsInjective(u.sessionTabs)
    BY DEF State, Tabbed
<1>7. /\ RemoveAt(u.sessionTabs, i) \in Seq(Nat)
      /\ IsInjective(RemoveAt(u.sessionTabs, i))
      /\ ToSet(RemoveAt(u.sessionTabs, i)) = ToSet(u.sessionTabs) \ {t}
    BY <1>1, <1>6, Removed, RemovedSet
<1>8. /\ v \in State /\ v.sessionTabs = RemoveAt(u.sessionTabs, i) /\ v.active = u.active
      /\ v.tab = u.tab
    BY <1>3, <1>5, <1>7 DEF State, SameTabs, Releases
<1>9. Releases(c, v)
    BY <1>5, <1>8 DEF State, Releases
<1>10. Releases(u, v) /\ Refs(v)
    BY <1>3, <1>5, <1>9, ReleasesOn, ReleasesRefs
<1>11. \A x : x.sessionTabs = v.sessionTabs /\ x.tab = u.tab => Tabbed(x)
    BY <1>7, <1>8 DEF Tabbed
<1> HIDE DEF v
<1>12. CASE u.active # t
    <2>1. u.active \in ToSet(v.sessionTabs)
        BY <1>7, <1>8, <1>12 DEF Active, ToSet
    <2>2. v.sessionTabs # <<>>
        BY <2>1 DEF ToSet
    <2>3. QED
        BY <1>4, <1>8, <1>10, <1>11, <1>12, <2>1, <2>2 DEF Active, r
<1>13. CASE u.active = t /\ last = 0
    <2> DEFINE x == [v EXCEPT !.active = 0, !.remoteWs = 0]
    <2>1. x \in State
        BY <1>8 DEF State
    <2>2. x.sessionTabs = v.sessionTabs /\ x.active = 0 /\ Releases(v, x)
        BY <1>8, <2>1 DEF State, Releases
    <2>3. v.sessionTabs = <<>>
        BY <1>8, <1>13 DEF State
    <2>4. r = x
        BY <1>4, <1>13
    <2> HIDE DEF x
    <2>5. Releases(u, x) /\ x.tab = u.tab
        <3>1. Releases(u, x)
            BY <1>10, <2>2, ReleasesOn
        <3>2. QED
            BY <3>1 DEF Releases
    <2>6. QED
        BY <1>11, <2>2, <2>3, <2>4, <2>5 DEF Active, r
<1>14. CASE u.active = t /\ last # 0
    <2> DEFINE n == v.sessionTabs[IF i < last THEN i ELSE last]
    <2>1. (IF i < last THEN i ELSE last) \in DOMAIN v.sessionTabs
        BY <1>1, <1>8, <1>14, Domains
    <2>2. n \in ToSet(v.sessionTabs) /\ v.sessionTabs # <<>>
        BY <1>14, <2>1 DEF ToSet
    <2>3. n \in DOMAIN v.tab
        BY <1>7, <1>8, <2>2 DEF Tabbed
    <2>4. r = switchSessionTab(v, n)
        BY <1>4, <1>14
    <2> HIDE DEF n
    <2>5. /\ Releases(v, r) /\ r.sessionTabs = v.sessionTabs /\ r.active = n
        BY <1>8, <1>10, <2>3, <2>4, switchSessionTabReleases
    <2>6. Releases(u, r) /\ r.tab = u.tab
        <3>1. Releases(u, r)
            BY <1>10, <2>5, ReleasesOn
        <3>2. QED
            BY <3>1 DEF Releases
    <2>7. QED
        BY <1>11, <2>2, <2>5, <2>6 DEF Active, r
<1>15. QED
    BY <1>12, <1>13, <1>14

-----------------------------------------------------------------------------
(* The invariant.                                                           *)
Alive(u, w) == u.conn[w].state \in {"connecting", "open", "closing"}
Connected(u, w) == u.conn[w].state \notin {"requested", "refused"}

\* NoDeadSocket, LeftRunning and ChatCurrent of a state of the window.
Sockets(u) ==
    /\ u.timer => \E w \in DOMAIN u.conn : u.conn[w].state \in {"open", "closing"}
    /\ u.remoteWs # 0 => Alive(u, u.remoteWs)
    /\ \A t \in DOMAIN u.tab :
          u.tab[t].ws # 0 => Alive(u, u.tab[t].ws) /\ u.conn[u.tab[t].ws].tab = t

Kept(u) ==
    \A w \in DOMAIN u.conn :
        u.conn[w].state \in {"connecting", "open"} =>
            \/ u.tab[u.conn[w].tab].ws = w
            \/ \E v \in DOMAIN u.conn \ {w} : u.conn[v].tab = u.conn[w].tab /\ Connected(u, v)

Chats(u) ==
    /\ \A o \in u.shown \cup ({u.chatId} \ {0}) : u.chat[o].state \in {"open", "left"}
    /\ u.userClosed <=> u.chatId # 0 /\ u.chat[u.chatId].state = "left"

Good(u) ==
    /\ u \in State /\ Refs(u) /\ Len(u.conn) <= MaxConns
    /\ Sockets(u) /\ Kept(u) /\ Chats(u)
    /\ Tabbed(u) /\ Active(u)

\* What a sequence is of is told by its elements.
LEMMA Narrowed ==
    ASSUME NEW S, NEW s \in Seq(S), NEW T, \A i \in DOMAIN s : s[i] \in T
    PROVE  s \in Seq(T)
<1>1. PICK n \in Nat : s \in [1 .. n -> S]
    BY SeqDef
<1>2. s \in [1 .. n -> T]
    BY <1>1
<1>3. QED
    BY <1>2, SeqDef

LEMMA GoodInv ==
    ASSUME Good(ui)
    PROVE  TypeOK /\ NoDeadSocket /\ LeftRunning /\ ChatCurrent
<1>1. NoDeadSocket /\ LeftRunning /\ ChatCurrent
    BY DEF Good, Sockets, Alive, Connected, Kept, Chats, NoDeadSocket, LeftRunning, ChatCurrent, ConnIn,
       Live, Tabs
<1>2. ui.tab \in Seq([device : Device, ws : 0 .. MaxConns])
    <2>1. ui.tab \in Seq(Tab)
        BY DEF Good, State
    <2>2. \A t \in DOMAIN ui.tab : ui.tab[t] \in [device : Device, ws : 0 .. MaxConns]
        <3>1. ASSUME NEW t \in DOMAIN ui.tab PROVE ui.tab[t] \in [device : Device, ws : 0 .. MaxConns]
            <4>1. ui.tab[t] \in Tab /\ Len(ui.conn) \in Nat
                BY Domains DEF Good
            <4>2. ui.tab[t].ws \in 0 .. MaxConns
                BY <4>1, <3>1, UIConstants DEF Good, Refs
            <4>3. QED
                BY <4>1, <4>2 DEF Tab
        <3>2. QED
            BY <3>1
    <2>3. QED
        BY <2>1, <2>2, Narrowed
<1>3. ui.conn \in Seq([tab : Tabs, state : ConnState])
    <2>1. ui.conn \in Seq(Conn)
        BY DEF Good, State
    <2>2. \A w \in DOMAIN ui.conn : ui.conn[w] \in [tab : Tabs, state : ConnState]
        <3>1. ASSUME NEW w \in DOMAIN ui.conn PROVE ui.conn[w] \in [tab : Tabs, state : ConnState]
            <4>1. ui.conn[w] \in Conn
                BY Domains DEF Good
            <4>2. ui.conn[w].tab \in Tabs
                BY DEF Good, Refs, Tabs
            <4>3. QED
                BY <4>1, <4>2 DEF Conn
        <3>2. QED
            BY <3>1
    <2>3. QED
        BY <2>1, <2>2, Narrowed
<1>4. /\ ui.selected \in Device \cup {None} /\ ui.activeTab \in {"remote", "other"}
      /\ ui.chat \in Seq([device : Device, state : ChatState])
    BY DEF Good, State, Chat
<1>5. ui.timer \in BOOLEAN /\ ui.panel \in BOOLEAN /\ ui.userClosed \in BOOLEAN
    BY Zenon DEF Good, State
<1>6. QED
    BY <1>1, <1>2, <1>3, <1>4, <1>5
       DEF TypeOK, Good, Refs, Tabbed, Active, Tabs, ConnState, ChatState

LEMMA ReleasesGood ==
    ASSUME NEW u, Good(u), NEW v, Releases(u, v), Tabbed(v), Active(v)
    PROVE  Good(v)
<1>1. u \in State /\ v \in State /\ Refs(u) /\ Refs(v)
    BY ReleasesRefs DEF Good
<1>2. DOMAIN v.conn = DOMAIN u.conn /\ DOMAIN v.chat = DOMAIN u.chat /\ v.tab = u.tab
    BY <1>1, Domains DEF Releases
<1>3. \A w \in DOMAIN u.conn : Alive(u, w) => Alive(v, w) /\ v.conn[w].tab = u.conn[w].tab
    BY DEF Releases, Alive
<1>4. Sockets(v)
    <2>1. v.timer => \E w \in DOMAIN v.conn : v.conn[w].state \in {"open", "closing"}
        BY <1>2 DEF Good, Sockets, Releases
    <2>2. \A t \in DOMAIN u.tab : u.tab[t].ws # 0 => u.tab[t].ws \in DOMAIN u.conn
        BY <1>1, Domains DEF Refs
    <2>3. u.remoteWs # 0 => u.remoteWs \in DOMAIN u.conn
        BY <1>1, Domains DEF Refs
    <2>4. v.remoteWs # 0 => Alive(v, v.remoteWs)
        BY <1>3, <2>2, <2>3 DEF Good, Sockets, Releases
    <2>5. QED
        BY <1>2, <1>3, <2>1, <2>2, <2>4 DEF Good, Sockets
<1>5. Kept(v)
    BY <1>2 DEF Good, Kept, Releases, Connected
<1>6. Chats(v)
    BY DEF Good, Chats, Releases
<1>7. QED
    BY <1>1, <1>4, <1>5, <1>6 DEF Good, Releases

-----------------------------------------------------------------------------
(* The handlers that ask, and those that are answered.                      *)
SetConn(u, w, st) == [u.conn EXCEPT ![w] = [u.conn[w] EXCEPT !.state = st]]

LEMMA ConnSet ==
    ASSUME NEW u \in State, NEW w \in DOMAIN u.conn, NEW st \in ConnState
    PROVE  /\ SetConn(u, w, st) \in Seq(Conn)
           /\ Len(SetConn(u, w, st)) = Len(u.conn) /\ DOMAIN SetConn(u, w, st) = DOMAIN u.conn
           /\ SetConn(u, w, st)[w].tab = u.conn[w].tab /\ SetConn(u, w, st)[w].state = st
           /\ \A x \in DOMAIN u.conn \ {w} : SetConn(u, w, st)[x] = u.conn[x]
<1> DEFINE q == SetConn(u, w, st)
<1>1. u.conn \in Seq(Conn) /\ u.conn[w] \in Conn
    BY Domains DEF State
<1>2. [u.conn[w] EXCEPT !.state = st] \in Conn
    BY <1>1 DEF Conn
<1>3. q \in Seq(Conn) /\ Len(q) = Len(u.conn) /\ DOMAIN q = DOMAIN u.conn
    BY <1>1, <1>2 DEF SetConn
<1>4. q[w] = [u.conn[w] EXCEPT !.state = st] /\ \A x \in DOMAIN u.conn \ {w} : q[x] = u.conn[x]
    BY <1>1 DEF SetConn
<1> HIDE DEF q
<1>5. QED
    BY <1>1, <1>3, <1>4 DEF Conn, q

SetTab(u, t, w) == [u.tab EXCEPT ![t] = [u.tab[t] EXCEPT !.ws = w]]

LEMMA TabSet ==
    ASSUME NEW u \in State, NEW t \in DOMAIN u.tab, NEW w \in Nat
    PROVE  /\ SetTab(u, t, w) \in Seq(Tab) /\ DOMAIN SetTab(u, t, w) = DOMAIN u.tab
           /\ SetTab(u, t, w)[t].ws = w
           /\ \A x \in DOMAIN u.tab : SetTab(u, t, w)[x].device = u.tab[x].device
           /\ \A x \in DOMAIN u.tab \ {t} : SetTab(u, t, w)[x].ws = u.tab[x].ws
<1> DEFINE q == SetTab(u, t, w)
<1>1. u.tab \in Seq(Tab) /\ u.tab[t] \in Tab
    BY Domains DEF State
<1>2. [u.tab[t] EXCEPT !.ws = w] \in Tab
    BY <1>1 DEF Tab
<1>3. q \in Seq(Tab) /\ DOMAIN q = DOMAIN u.tab
    BY <1>1, <1>2 DEF SetTab
<1>4. q[t] = [u.tab[t] EXCEPT !.ws = w] /\ \A x \in DOMAIN u.tab \ {t} : q[x] = u.tab[x]
    BY <1>1 DEF SetTab
<1> HIDE DEF q
<1>5. QED
    BY <1>1, <1>3, <1>4 DEF Tab, q

SetChat(u, o, st) == [u.chat EXCEPT ![o] = [u.chat[o] EXCEPT !.state = st]]

LEMMA ChatSet ==
    ASSUME NEW u \in State, NEW o \in DOMAIN u.chat, NEW st \in ChatState
    PROVE  /\ SetChat(u, o, st) \in Seq(Chat)
           /\ Len(SetChat(u, o, st)) = Len(u.chat) /\ DOMAIN SetChat(u, o, st) = DOMAIN u.chat
           /\ SetChat(u, o, st)[o].state = st
           /\ \A x \in DOMAIN u.chat \ {o} : SetChat(u, o, st)[x] = u.chat[x]
<1> DEFINE q == SetChat(u, o, st)
<1>1. u.chat \in Seq(Chat) /\ u.chat[o] \in Chat
    BY Domains DEF State
<1>2. [u.chat[o] EXCEPT !.state = st] \in Chat
    BY <1>1 DEF Chat
<1>3. q \in Seq(Chat) /\ Len(q) = Len(u.chat) /\ DOMAIN q = DOMAIN u.chat
    BY <1>1, <1>2 DEF SetChat
<1>4. q[o] = [u.chat[o] EXCEPT !.state = st] /\ \A x \in DOMAIN u.chat \ {o} : q[x] = u.chat[x]
    BY <1>1 DEF SetChat
<1> HIDE DEF q
<1>5. QED
    BY <1>1, <1>3, <1>4 DEF Chat, q

\* The parts of the invariant that speak of chats only, and of tabs only.
LEMMA OnlyChats ==
    ASSUME NEW u, Good(u), NEW v \in State,
           v.tab = u.tab, v.sessionTabs = u.sessionTabs, v.active = u.active, v.conn = u.conn,
           v.remoteWs = u.remoteWs, v.timer = u.timer,
           v.chatId \in 0 .. Len(v.chat), v.shown \subseteq DOMAIN v.chat, Chats(v)
    PROVE  Good(v)
<1>1. Refs(v) /\ Len(v.conn) <= MaxConns
    BY DEF Good, Refs
<1>2. Sockets(v)
    BY DEF Good, Sockets, Alive
<1>3. Kept(v)
    BY DEF Good, Kept, Connected
<1>4. Tabbed(v) /\ Active(v)
    BY DEF Good, Tabbed, Active
<1>5. QED
    BY <1>1, <1>2, <1>3, <1>4 DEF Good

LEMMA ConnectsGood ==
    ASSUME NEW u, Good(u), NEW w \in DOMAIN u.conn, u.conn[w].state = "requested"
    PROVE  Good(Connects(u, w))
<1> DEFINE v == Connects(u, w)
<1> DEFINE t == u.conn[w].tab
<1>1. u \in State /\ t \in DOMAIN u.tab /\ w \in Nat /\ w # 0 /\ w \in 0 .. Len(u.conn)
    BY Domains DEF Good, Refs
<1>2. /\ v.conn = SetConn(u, w, "connecting")
      /\ v.tab = SetTab(u, t, w)
      /\ v.remoteWs = w
      /\ v.sessionTabs = u.sessionTabs /\ v.active = u.active /\ v.timer = u.timer
      /\ v.chat = u.chat /\ v.chatId = u.chatId /\ v.shown = u.shown /\ v.userClosed = u.userClosed
    BY <1>1 DEF Connects, State, SetConn, SetTab
<1>3. v = [u EXCEPT !.conn = v.conn, !.remoteWs = w, !.tab = v.tab]
    BY <1>1, <1>2 DEF Connects, t, SetConn, SetTab
<1> HIDE DEF t, v
<1>4. /\ v.conn \in Seq(Conn) /\ Len(v.conn) = Len(u.conn) /\ DOMAIN v.conn = DOMAIN u.conn
      /\ v.conn[w].tab = t /\ v.conn[w].state = "connecting"
      /\ \A x \in DOMAIN u.conn \ {w} : v.conn[x] = u.conn[x]
    <2>1. "connecting" \in ConnState
        BY DEF ConnState
    <2>2. QED
        BY <1>1, <1>2, <2>1, ConnSet DEF t
<1>5. /\ v.tab \in Seq(Tab) /\ DOMAIN v.tab = DOMAIN u.tab /\ v.tab[t].ws = w
      /\ \A x \in DOMAIN u.tab : v.tab[x].device = u.tab[x].device
      /\ \A x \in DOMAIN u.tab \ {t} : v.tab[x].ws = u.tab[x].ws
    BY <1>1, <1>2, TabSet
<1>6. v \in State
    BY <1>1, <1>3, <1>4, <1>5 DEF State
<1>7. Refs(v) /\ Len(v.conn) <= MaxConns
    <2>1. Refs(u) /\ Len(u.conn) <= MaxConns
        BY DEF Good
    <2>2. \A x \in DOMAIN v.tab : v.tab[x].ws \in 0 .. Len(v.conn)
        <3>1. ASSUME NEW x \in DOMAIN u.tab \ {t} PROVE v.tab[x].ws \in 0 .. Len(u.conn)
            BY <1>5, <2>1, <3>1 DEF Refs
        <3>2. QED
            BY <1>1, <1>4, <1>5, <3>1
    <2>3. \A x \in DOMAIN v.conn : v.conn[x].tab \in DOMAIN v.tab
        <3>1. ASSUME NEW x \in DOMAIN u.conn \ {w} PROVE v.conn[x].tab \in DOMAIN u.tab
            BY <1>4, <2>1, <3>1 DEF Refs
        <3>2. QED
            BY <1>1, <1>4, <1>5, <3>1
    <2>4. v.remoteWs \in 0 .. Len(v.conn)
        BY <1>1, <1>2, <1>4
    <2>5. v.chatId \in 0 .. Len(v.chat) /\ v.shown \subseteq DOMAIN v.chat
        BY <1>2, <2>1 DEF Refs
    <2>6. QED
        BY <1>4, <2>1, <2>2, <2>3, <2>4, <2>5 DEF Refs
<1>8. Sockets(v)
    <2>1. v.timer => \E x \in DOMAIN v.conn : v.conn[x].state \in {"open", "closing"}
        BY <1>2, <1>4 DEF Good, Sockets
    <2>2. ASSUME NEW x \in DOMAIN u.tab, x # t, v.tab[x].ws # 0
          PROVE  Alive(v, v.tab[x].ws) /\ v.conn[v.tab[x].ws].tab = x
        <3>1. v.tab[x].ws = u.tab[x].ws
            BY <1>5, <2>2
        <3>2. Alive(u, u.tab[x].ws) /\ u.conn[u.tab[x].ws].tab = x
            BY <2>2, <3>1 DEF Good, Sockets
        <3>3. u.tab[x].ws \in DOMAIN u.conn
            <4>1. u.tab[x].ws \in 0 .. Len(u.conn) /\ u.tab[x].ws # 0
                BY <2>2, <3>1 DEF Good, Refs
            <4>2. DOMAIN u.conn = 1 .. Len(u.conn) /\ Len(u.conn) \in Nat
                BY <1>1, Domains
            <4>3. QED
                BY <4>1, <4>2
        <3>4. u.tab[x].ws # w
            BY <3>2 DEF Alive
        <3>5. QED
            BY <1>4, <3>1, <3>2, <3>3, <3>4 DEF Alive
    <2>3. Alive(v, w) /\ v.conn[w].tab = t /\ v.tab[t].ws = w
        BY <1>4, <1>5 DEF Alive
    <2>4. QED
        BY <1>2, <1>5, <2>1, <2>2, <2>3 DEF Sockets
<1>9. Kept(v)
    <2>1. ASSUME NEW x \in DOMAIN u.conn, x # w, v.conn[x].state \in {"connecting", "open"}
          PROVE  \/ v.tab[v.conn[x].tab].ws = x
                 \/ \E y \in DOMAIN u.conn \ {x} : v.conn[y].tab = v.conn[x].tab /\ Connected(v, y)
        <3>1. v.conn[x] = u.conn[x] /\ \A y \in DOMAIN u.conn : v.conn[y].tab = u.conn[y].tab
            BY <1>4, <2>1 DEF t
        <3>2. CASE u.conn[x].tab = t
            BY <1>4, <2>1, <3>1, <3>2 DEF Connected
        <3>3. CASE u.conn[x].tab # t
            <4>1. u.conn[x].tab \in DOMAIN u.tab
                BY DEF Good, Refs
            <4>2. v.tab[u.conn[x].tab].ws = u.tab[u.conn[x].tab].ws
                BY <1>5, <3>3, <4>1
            <4>3. QED
                BY <1>4, <2>1, <3>1, <4>2 DEF Good, Kept, Connected
        <3>4. QED
            BY <3>2, <3>3
    <2>2. QED
        BY <1>4, <1>5, <2>1 DEF Kept
<1>10. Chats(v) /\ Tabbed(v) /\ Active(v)
    BY <1>2, <1>5 DEF Good, Chats, Tabbed, Active
<1>11. QED
    BY <1>6, <1>7, <1>8, <1>9, <1>10 DEF Good, v

\* A connection that changes its state otherwise: opened, refused or closed.
LEMMA onopenGood ==
    ASSUME NEW u, Good(u), NEW w \in DOMAIN u.conn, u.conn[w].state = "connecting"
    PROVE  Good(onopen(u, w))
<1> DEFINE v == onopen(u, w)
<1>1. u \in State
    BY DEF Good
<1>2. /\ v.conn = SetConn(u, w, "open")
      /\ v.tab = u.tab /\ v.remoteWs = u.remoteWs
      /\ v.sessionTabs = u.sessionTabs /\ v.active = u.active
      /\ v.chat = u.chat /\ v.chatId = u.chatId /\ v.shown = u.shown /\ v.userClosed = u.userClosed
    BY <1>1 DEF onopen, State, SetConn
<1>3. /\ v.conn \in Seq(Conn) /\ Len(v.conn) = Len(u.conn) /\ DOMAIN v.conn = DOMAIN u.conn
      /\ v.conn[w].tab = u.conn[w].tab /\ v.conn[w].state = "open"
      /\ \A x \in DOMAIN u.conn \ {w} : v.conn[x] = u.conn[x]
    <2>1. "open" \in ConnState
        BY DEF ConnState
    <2> HIDE DEF v
    <2>2. QED
        BY <1>1, <1>2, <2>1, ConnSet
<1>4. v \in State
    <2>1. v = [u EXCEPT !.conn = v.conn, !.timer = TRUE]
        BY <1>1, <1>2 DEF onopen, SetConn
    <2>2. \A q \in Seq(Conn) : [u EXCEPT !.conn = q, !.timer = TRUE] \in State
        BY <1>1, Zenon DEF State
    <2>3. QED
        BY <1>3, <2>1, <2>2
<1> HIDE DEF v
<1>5. Refs(v) /\ Len(v.conn) <= MaxConns
    BY <1>1, <1>2, <1>3 DEF Good, Refs
<1>6. \A x \in DOMAIN u.conn : /\ v.conn[x].tab = u.conn[x].tab
                               /\ Alive(u, x) => Alive(v, x)
                               /\ v.conn[x].state \in {"connecting", "open"} =>
                                     u.conn[x].state \in {"connecting", "open"}
    BY <1>3 DEF Alive
<1>7. Sockets(v)
    <2>1. \A t \in DOMAIN u.tab : u.tab[t].ws # 0 => u.tab[t].ws \in DOMAIN u.conn
        BY <1>1, Domains DEF Good, Refs
    <2>2. u.remoteWs # 0 => u.remoteWs \in DOMAIN u.conn
        BY <1>1, Domains DEF Good, Refs
    <2>3. v.timer => \E x \in DOMAIN v.conn : v.conn[x].state \in {"open", "closing"}
        BY <1>2, <1>3 DEF Good, Sockets
    <2>4. v.remoteWs # 0 => Alive(v, v.remoteWs)
        BY <1>2, <1>6, <2>2 DEF Good, Sockets
    <2>5. \A t \in DOMAIN v.tab :
              v.tab[t].ws # 0 => Alive(v, v.tab[t].ws) /\ v.conn[v.tab[t].ws].tab = t
        BY <1>2, <1>6, <2>1 DEF Good, Sockets
    <2>6. QED
        BY <2>3, <2>4, <2>5 DEF Sockets
<1>8. Kept(v)
    <2>1. \A x \in DOMAIN u.conn : Connected(u, x) => Connected(v, x)
        BY <1>3 DEF Connected
    <2> SUFFICES ASSUME NEW x \in DOMAIN u.conn,
                        v.conn[x].state \in {"connecting", "open"}
                 PROVE  \/ v.tab[v.conn[x].tab].ws = x
                        \/ \E y \in DOMAIN u.conn \ {x} :
                               v.conn[y].tab = v.conn[x].tab /\ Connected(v, y)
        BY <1>3 DEF Kept
    <2>2. \/ u.tab[u.conn[x].tab].ws = x
          \/ \E y \in DOMAIN u.conn \ {x} : u.conn[y].tab = u.conn[x].tab /\ Connected(u, y)
        BY <1>6 DEF Good, Kept
    <2>3. QED
        BY <1>2, <1>6, <2>1, <2>2
<1>9. Chats(v) /\ Tabbed(v) /\ Active(v)
    BY <1>2 DEF Good, Chats, Tabbed, Active
<1>10. QED
    BY <1>4, <1>5, <1>7, <1>8, <1>9 DEF Good, v

LEMMA refusedGood ==
    ASSUME NEW u, Good(u), NEW w \in DOMAIN u.conn, u.conn[w].state = "requested"
    PROVE  Good([u EXCEPT !.conn[w].state = "refused"])
<1> DEFINE v == [u EXCEPT !.conn[w].state = "refused"]
<1>1. u \in State
    BY DEF Good
<1>2. /\ v.conn = SetConn(u, w, "refused")
      /\ v.tab = u.tab /\ v.remoteWs = u.remoteWs /\ v.timer = u.timer
      /\ v.sessionTabs = u.sessionTabs /\ v.active = u.active
      /\ v.chat = u.chat /\ v.chatId = u.chatId /\ v.shown = u.shown /\ v.userClosed = u.userClosed
    BY <1>1 DEF State, SetConn
<1>3. /\ v.conn \in Seq(Conn) /\ Len(v.conn) = Len(u.conn) /\ DOMAIN v.conn = DOMAIN u.conn
      /\ v.conn[w].tab = u.conn[w].tab /\ v.conn[w].state = "refused"
      /\ \A x \in DOMAIN u.conn \ {w} : v.conn[x] = u.conn[x]
    <2>1. "refused" \in ConnState
        BY DEF ConnState
    <2> HIDE DEF v
    <2>2. QED
        BY <1>1, <1>2, <2>1, ConnSet
<1>4. v \in State
    <2>1. v = [u EXCEPT !.conn = v.conn]
        BY <1>1, <1>2 DEF SetConn
    <2>2. QED
        BY <1>1, <1>3, <2>1 DEF State
<1> HIDE DEF v
<1>5. Refs(v) /\ Len(v.conn) <= MaxConns
    BY <1>1, <1>2, <1>3 DEF Good, Refs
<1>6. \A x \in DOMAIN u.conn : /\ v.conn[x].tab = u.conn[x].tab
                               /\ Alive(u, x) => Alive(v, x)
                               /\ v.conn[x].state \in {"connecting", "open"} =>
                                     u.conn[x].state \in {"connecting", "open"}
                               /\ u.conn[x].state \in {"open", "closing"} =>
                                     v.conn[x].state \in {"open", "closing"}
    BY <1>3 DEF Alive
<1>7. Sockets(v)
    <2>1. \A t \in DOMAIN u.tab : u.tab[t].ws # 0 => u.tab[t].ws \in DOMAIN u.conn
        BY <1>1, Domains DEF Good, Refs
    <2>2. u.remoteWs # 0 => u.remoteWs \in DOMAIN u.conn
        BY <1>1, Domains DEF Good, Refs
    <2>3. v.timer => \E x \in DOMAIN v.conn : v.conn[x].state \in {"open", "closing"}
        BY <1>2, <1>3 DEF Good, Sockets
    <2>4. v.remoteWs # 0 => Alive(v, v.remoteWs)
        BY <1>2, <1>6, <2>2 DEF Good, Sockets
    <2>5. \A t \in DOMAIN v.tab :
              v.tab[t].ws # 0 => Alive(v, v.tab[t].ws) /\ v.conn[v.tab[t].ws].tab = t
        BY <1>2, <1>6, <2>1 DEF Good, Sockets
    <2>6. QED
        BY <2>3, <2>4, <2>5 DEF Sockets
<1>8. Kept(v)
    BY <1>2, <1>3, <1>6 DEF Good, Kept, Connected
<1>9. Chats(v) /\ Tabbed(v) /\ Active(v)
    BY <1>2 DEF Good, Chats, Tabbed, Active
<1>10. QED
    BY <1>4, <1>5, <1>7, <1>8, <1>9 DEF Good, v

\* Only its own tab may hold the connection that is closed.
LEMMA oncloseGood ==
    ASSUME NEW u, Good(u), NEW w \in DOMAIN u.conn, Alive(u, w)
    PROVE  Good(onclose(u, w))
<1> DEFINE v == onclose(u, w)
<1> DEFINE t == u.conn[w].tab
<1>1. u \in State /\ t \in DOMAIN u.tab
    BY DEF Good, Refs
<1>2. /\ v.conn = SetConn(u, w, "closed")
      /\ v.tab = SetTab(u, t, 0)
      /\ v.remoteWs = 0
      /\ v.sessionTabs = u.sessionTabs /\ v.active = u.active
      /\ v.chat = u.chat /\ v.chatId = u.chatId /\ v.shown = u.shown /\ v.userClosed = u.userClosed
    BY <1>1 DEF onclose, State, SetConn, SetTab
<1>3. ~v.timer
    BY <1>1, Zenon DEF onclose, State
<1>4. v = [u EXCEPT !.conn = v.conn, !.remoteWs = 0, !.timer = FALSE, !.tab = v.tab]
    BY <1>1, <1>2 DEF onclose, t, SetConn, SetTab
<1> HIDE DEF t, v
<1>5. /\ v.conn \in Seq(Conn) /\ Len(v.conn) = Len(u.conn) /\ DOMAIN v.conn = DOMAIN u.conn
      /\ v.conn[w].tab = t /\ v.conn[w].state = "closed"
      /\ \A x \in DOMAIN u.conn \ {w} : v.conn[x] = u.conn[x]
    <2>1. "closed" \in ConnState
        BY DEF ConnState
    <2>2. QED
        BY <1>1, <1>2, <2>1, ConnSet DEF t
<1>6. /\ v.tab \in Seq(Tab) /\ DOMAIN v.tab = DOMAIN u.tab /\ v.tab[t].ws = 0
      /\ \A x \in DOMAIN u.tab : v.tab[x].device = u.tab[x].device
      /\ \A x \in DOMAIN u.tab \ {t} : v.tab[x].ws = u.tab[x].ws
    BY <1>1, <1>2, TabSet
<1>7. v \in State
    <2>1. \A q \in Seq(Conn), r \in Seq(Tab) :
              [u EXCEPT !.conn = q, !.remoteWs = 0, !.timer = FALSE, !.tab = r] \in State
        <3>1. 0 \in Nat
            OBVIOUS
        <3>2. QED
            BY <1>1, <3>1, Zenon DEF State
    <2>2. v.conn \in Seq(Conn) /\ v.tab \in Seq(Tab)
        BY <1>5, <1>6
    <2>3. [u EXCEPT !.conn = v.conn, !.remoteWs = 0, !.timer = FALSE, !.tab = v.tab] \in State
        BY <2>1, <2>2, Zenon
    <2>4. QED
        BY <1>4, <2>3, Zenon
<1>8. Refs(v) /\ Len(v.conn) <= MaxConns
    <2>1. Len(u.conn) \in Nat
        BY <1>1, Domains
    <2>2. \A x \in DOMAIN v.conn : v.conn[x].tab \in DOMAIN v.tab
        BY <1>1, <1>5, <1>6 DEF Good, Refs
    <2>3. \A x \in DOMAIN v.tab : v.tab[x].ws \in 0 .. Len(v.conn)
        <3>1. \A x \in DOMAIN u.tab : u.tab[x].ws \in 0 .. Len(u.conn)
            BY DEF Good, Refs
        <3>2. v.tab[t].ws \in 0 .. Len(v.conn)
            BY <1>5, <1>6, <2>1
        <3>3. \A x \in DOMAIN u.tab \ {t} : v.tab[x].ws \in 0 .. Len(v.conn)
            BY <1>5, <1>6, <3>1
        <3>4. QED
            BY <1>6, <3>2, <3>3
    <2>4. v.remoteWs \in 0 .. Len(v.conn)
        BY <1>2, <1>5, <2>1
    <2>5. v.chatId \in 0 .. Len(v.chat) /\ v.shown \subseteq DOMAIN v.chat /\ Len(v.conn) <= MaxConns
        BY <1>2, <1>5 DEF Good, Refs
    <2>6. QED
        BY <2>2, <2>3, <2>4, <2>5 DEF Refs
<1>9. Sockets(v)
    <2>1. ASSUME NEW x \in DOMAIN u.tab, x # t, v.tab[x].ws # 0
          PROVE  Alive(v, v.tab[x].ws) /\ v.conn[v.tab[x].ws].tab = x
        <3>1. v.tab[x].ws = u.tab[x].ws
            BY <1>6, <2>1
        <3>2. Alive(u, u.tab[x].ws) /\ u.conn[u.tab[x].ws].tab = x
            BY <2>1, <3>1 DEF Good, Sockets
        <3>3. u.tab[x].ws \in DOMAIN u.conn
            BY <1>1, <2>1, <3>1, Domains DEF Good, Refs
        <3>4. u.tab[x].ws # w
            BY <2>1, <3>2 DEF t
        <3>5. QED
            BY <1>5, <3>1, <3>2, <3>3, <3>4 DEF Alive
    <2>2. QED
        BY <1>2, <1>3, <1>6, <2>1 DEF Sockets
<1>10. Kept(v)
    <2>1. ASSUME NEW x \in DOMAIN u.conn, x # w, v.conn[x].state \in {"connecting", "open"}
          PROVE  \/ v.tab[v.conn[x].tab].ws = x
                 \/ \E y \in DOMAIN u.conn \ {x} : v.conn[y].tab = v.conn[x].tab /\ Connected(v, y)
        <3>1. v.conn[x] = u.conn[x] /\ \A y \in DOMAIN u.conn : v.conn[y].tab = u.conn[y].tab
            BY <1>5, <2>1 DEF t
        <3>2. CASE u.conn[x].tab = t
            BY <1>5, <2>1, <3>1, <3>2 DEF Connected
        <3>3. CASE u.conn[x].tab # t
            <4>1. u.conn[x].tab \in DOMAIN u.tab
                BY DEF Good, Refs
            <4>2. v.tab[u.conn[x].tab].ws = u.tab[u.conn[x].tab].ws
                BY <1>6, <3>3, <4>1
            <4>3. QED
                BY <1>5, <2>1, <3>1, <4>2 DEF Good, Kept, Connected
        <3>4. QED
            BY <3>2, <3>3
    <2>2. QED
        BY <1>5, <1>6, <2>1 DEF Kept
<1>11. Chats(v) /\ Tabbed(v) /\ Active(v)
    BY <1>2, <1>6 DEF Good, Chats, Tabbed, Active
<1>12. QED
    BY <1>7, <1>8, <1>9, <1>10, <1>11 DEF Good, v

LEMMA Appended ==
    ASSUME NEW S, NEW s \in Seq(S), NEW e \in S
    PROVE  /\ Append(s, e) \in Seq(S) /\ Len(s) \in Nat /\ Len(Append(s, e)) = Len(s) + 1
           /\ DOMAIN s = 1 .. Len(s) /\ DOMAIN Append(s, e) = 1 .. (Len(s) + 1)
           /\ Append(s, e)[Len(s) + 1] = e
           /\ \A i \in DOMAIN s : Append(s, e)[i] = s[i]
BY AppendProperties, LenProperties

\* The tab of a device, shown or made, becomes the active one.
LEMMA addSessionTabGood ==
    ASSUME NEW u, Good(u), NEW d \in Device
    PROVE  LET r == addSessionTab(u, d)
           IN  Good(r) /\ r.active \in DOMAIN r.tab /\ Len(r.conn) = Len(u.conn)
<1> DEFINE r == addSessionTab(u, d)
<1>1. u \in State /\ Refs(u) /\ Tabbed(u)
    BY DEF Good
<1>2. CASE TabsOf(u, d) # {}
    <2> DEFINE t == CHOOSE t \in TabsOf(u, d) : TRUE
    <2>1. t \in TabsOf(u, d)
        BY <1>2
    <2>2. t \in ToSet(u.sessionTabs) /\ t \in DOMAIN u.tab
        BY <1>1, <2>1 DEF TabsOf, Tabbed
    <2>3. r = switchSessionTab(u, t)
        BY <1>2 DEF addSessionTab
    <2> HIDE DEF t, r
    <2>4. Releases(u, r) /\ r.sessionTabs = u.sessionTabs /\ r.active = t
        BY <1>1, <2>2, <2>3, switchSessionTabReleases
    <2>5. r.tab = u.tab /\ Len(r.conn) = Len(u.conn)
        BY <2>4 DEF Releases
    <2>6. Tabbed(r)
        BY <1>1, <2>4, <2>5 DEF Tabbed
    <2>7. Active(r)
        BY <2>2, <2>4 DEF Active, ToSet
    <2>8. QED
        BY <2>2, <2>4, <2>5, <2>6, <2>7, ReleasesGood DEF r
<1>3. CASE TabsOf(u, d) = {}
    <2> DEFINE n == Len(u.tab) + 1
    <2> DEFINE e == [device |-> d, ws |-> 0]
    <2>1. r = [u EXCEPT !.tab = Append(u.tab, e), !.sessionTabs = Append(u.sessionTabs, n),
                        !.active = n]
        BY <1>1, <1>3 DEF addSessionTab, State
    <2>2. e \in Tab /\ e.device = d /\ e.ws = 0
        BY DEF Tab
    <2>3. u.tab \in Seq(Tab) /\ u.sessionTabs \in Seq(Nat)
        BY <1>1 DEF State
    <2>4. n \in Nat
        BY <2>3, LenProperties
    <2>5. /\ r.tab = Append(u.tab, e) /\ r.sessionTabs = Append(u.sessionTabs, n) /\ r.active = n
          /\ r.conn = u.conn /\ r.remoteWs = u.remoteWs /\ r.timer = u.timer
          /\ r.chat = u.chat /\ r.chatId = u.chatId /\ r.shown = u.shown /\ r.userClosed = u.userClosed
        BY <1>1, <2>1 DEF State
    <2> HIDE DEF e
    <2>6. /\ r.tab \in Seq(Tab) /\ DOMAIN u.tab = 1 .. Len(u.tab) /\ DOMAIN r.tab = 1 .. n
          /\ Len(u.tab) \in Nat /\ r.tab[n] = e
          /\ \A x \in DOMAIN u.tab : r.tab[x] = u.tab[x]
        BY <2>2, <2>3, <2>5, Appended
    <2> HIDE DEF n
    <2>7. /\ r.sessionTabs \in Seq(Nat) /\ Len(u.sessionTabs) \in Nat
          /\ DOMAIN u.sessionTabs = 1 .. Len(u.sessionTabs)
          /\ DOMAIN r.sessionTabs = 1 .. (Len(u.sessionTabs) + 1)
          /\ r.sessionTabs[Len(u.sessionTabs) + 1] = n
          /\ \A i \in DOMAIN u.sessionTabs : r.sessionTabs[i] = u.sessionTabs[i]
        <3>1. r.sessionTabs = Append(u.sessionTabs, n)
            BY <2>5
        <3>2. QED
            BY <2>3, <2>4, <3>1, Appended
    <2>8. r \in State
        BY <1>1, <2>1, <2>4, <2>5, <2>6, <2>7 DEF State
    <2> HIDE DEF r
    <2>9. n \notin DOMAIN u.tab /\ n \in DOMAIN r.tab /\ DOMAIN r.tab = DOMAIN u.tab \cup {n}
        BY <2>6 DEF n
    <2>10. Refs(r) /\ Len(r.conn) <= MaxConns
        <3>1. e.ws \in 0 .. Len(u.conn)
            BY <1>1, <2>2, Domains
        <3>2. QED
            BY <2>2, <2>5, <2>6, <2>9, <3>1 DEF Good, Refs
    <2>11. Sockets(r)
        <3>1. Sockets(u) /\ \A w : Alive(r, w) <=> Alive(u, w)
            BY <2>5 DEF Good, Alive
        <3>2. ASSUME NEW x \in DOMAIN r.tab, r.tab[x].ws # 0
              PROVE  Alive(r, r.tab[x].ws) /\ r.conn[r.tab[x].ws].tab = x
            <4>1. x \in DOMAIN u.tab /\ r.tab[x] = u.tab[x]
                BY <2>2, <2>6, <2>9, <3>2
            <4>2. QED
                BY <2>5, <3>1, <3>2, <4>1 DEF Sockets
        <3>3. QED
            BY <2>5, <3>1, <3>2 DEF Sockets
    <2>12. Kept(r) /\ Chats(r)
        <3>1. Chats(r)
            BY <2>5 DEF Good, Chats
        <3>2. \A w \in DOMAIN u.conn : r.tab[u.conn[w].tab] = u.tab[u.conn[w].tab]
            BY <1>1, <2>6 DEF Refs
        <3>3. ASSUME NEW w \in DOMAIN r.conn, r.conn[w].state \in {"connecting", "open"}
              PROVE  \/ r.tab[r.conn[w].tab].ws = w
                     \/ \E x \in DOMAIN r.conn \ {w} : r.conn[x].tab = r.conn[w].tab /\ Connected(r, x)
            <4>1. w \in DOMAIN u.conn /\ u.conn[w].state \in {"connecting", "open"}
                BY <2>5, <3>3
            <4>2. \/ u.tab[u.conn[w].tab].ws = w
                  \/ \E x \in DOMAIN u.conn \ {w} : u.conn[x].tab = u.conn[w].tab /\ Connected(u, x)
                BY <4>1 DEF Good, Kept
            <4>3. QED
                BY <2>5, <3>2, <4>1, <4>2 DEF Connected
        <3>4. QED
            BY <3>1, <3>3 DEF Kept
    <2>13. ToSet(r.sessionTabs) = ToSet(u.sessionTabs) \cup {n}
        <3>1. ToSet(r.sessionTabs) \subseteq ToSet(u.sessionTabs) \cup {n}
            <4>1. ASSUME NEW k \in DOMAIN r.sessionTabs
                  PROVE  r.sessionTabs[k] \in ToSet(u.sessionTabs) \cup {n}
                <5>1. k \in DOMAIN u.sessionTabs \/ k = Len(u.sessionTabs) + 1
                    BY <2>7
                <5>2. QED
                    BY <2>7, <5>1 DEF ToSet
            <4>2. QED
                BY <4>1 DEF ToSet
        <3>2. n \in ToSet(r.sessionTabs)
            <4>1. Len(u.sessionTabs) + 1 \in DOMAIN r.sessionTabs
                BY <2>7
            <4>2. QED
                BY <2>7, <4>1 DEF ToSet
        <3>3. ToSet(u.sessionTabs) \subseteq ToSet(r.sessionTabs)
            <4>1. \A i \in DOMAIN u.sessionTabs : i \in DOMAIN r.sessionTabs
                BY <2>7
            <4>2. QED
                BY <2>7, <4>1 DEF ToSet
        <3>4. QED
            BY <3>1, <3>2, <3>3
    <2>14. IsInjective(r.sessionTabs)
        <3>1. \A i, j \in DOMAIN u.sessionTabs : u.sessionTabs[i] = u.sessionTabs[j] => i = j
            BY <1>1 DEF Tabbed, IsInjective
        <3>2. \A i \in DOMAIN u.sessionTabs : u.sessionTabs[i] # n
            BY <1>1, <2>9 DEF Tabbed, ToSet
        <3>3. ASSUME NEW i \in DOMAIN r.sessionTabs, NEW j \in DOMAIN r.sessionTabs,
                     r.sessionTabs[i] = r.sessionTabs[j]
              PROVE  i = j
            <4>1. \A k \in DOMAIN r.sessionTabs :
                      k \in DOMAIN u.sessionTabs \/ k = Len(u.sessionTabs) + 1
                BY <2>7
            <4>2. CASE i \in DOMAIN u.sessionTabs /\ j \in DOMAIN u.sessionTabs
                BY <2>7, <3>1, <3>3, <4>2
            <4>3. CASE i = Len(u.sessionTabs) + 1 \/ j = Len(u.sessionTabs) + 1
                BY <2>7, <3>2, <3>3, <4>1, <4>3
            <4>4. QED
                BY <4>1, <4>2, <4>3
        <3>4. QED
            BY <3>3 DEF IsInjective
    <2>15. Tabbed(r)
        <3>1. ASSUME NEW x \in ToSet(u.sessionTabs) PROVE u.tab[x].device # d
            BY <1>3 DEF TabsOf
        <3>2. ToSet(u.sessionTabs) \subseteq DOMAIN u.tab
            BY <1>1 DEF Tabbed
        <3>3. ASSUME NEW x \in ToSet(r.sessionTabs), NEW y \in ToSet(r.sessionTabs),
                     r.tab[x].device = r.tab[y].device
              PROVE  x = y
            <4>1. CASE x = n \/ y = n
                BY <2>2, <2>6, <2>13, <3>1, <3>2, <3>3, <4>1
            <4>2. CASE x # n /\ y # n
                <5>1. x \in ToSet(u.sessionTabs) /\ y \in ToSet(u.sessionTabs)
                    BY <2>13, <4>2
                <5>2. QED
                    BY <1>1, <2>6, <3>2, <3>3, <5>1 DEF Tabbed
            <4>3. QED
                BY <4>1, <4>2
        <3>4. QED
            BY <2>9, <2>13, <2>14, <3>2, <3>3 DEF Tabbed
    <2>16. Active(r)
        <3>1. r.active = n
            BY <2>5
        <3>2. QED
            BY <2>13, <3>1 DEF Active, ToSet
    <2>17. QED
        BY <2>5, <2>8, <2>9, <2>10, <2>11, <2>12, <2>15, <2>16 DEF Good, r
<1>4. QED
    BY <1>2, <1>3

LEMMA startRemoteGood ==
    ASSUME NEW u, Good(u), u.selected \in Device, Len(u.conn) < MaxConns, MaxConns \in Nat
    PROVE  Good(startRemote(u))
<1> DEFINE v == addSessionTab(u, u.selected)
<1> DEFINE r == startRemote(u)
<1> DEFINE n == Len(v.conn) + 1
<1> DEFINE e == [tab |-> v.active, state |-> "requested"]
<1>1. Good(v) /\ v.active \in DOMAIN v.tab /\ Len(v.conn) = Len(u.conn)
    BY addSessionTabGood
<1>2. r = [v EXCEPT !.conn = Append(@, e)]
    BY DEF startRemote
<1> HIDE DEF r, v
<1>3. v \in State /\ Refs(v)
    BY <1>1 DEF Good
<1>4. v.active \in Nat
    BY <1>3 DEF State
<1>5. e \in Conn /\ e.tab = v.active /\ e.state = "requested"
    BY <1>4 DEF Conn, ConnState
<1>6. v.conn \in Seq(Conn)
    BY <1>3 DEF State
<1>7. /\ r.conn = Append(v.conn, e)
      /\ r.tab = v.tab /\ r.sessionTabs = v.sessionTabs /\ r.active = v.active
      /\ r.remoteWs = v.remoteWs /\ r.timer = v.timer
      /\ r.chat = v.chat /\ r.chatId = v.chatId /\ r.shown = v.shown /\ r.userClosed = v.userClosed
    BY <1>2, <1>3 DEF State
<1> HIDE DEF e
<1>8. /\ r.conn \in Seq(Conn) /\ Len(v.conn) \in Nat /\ Len(r.conn) = n
      /\ DOMAIN v.conn = 1 .. Len(v.conn) /\ DOMAIN r.conn = 1 .. n
      /\ r.conn[n] = e
      /\ \A w \in DOMAIN v.conn : r.conn[w] = v.conn[w]
    BY <1>5, <1>6, <1>7, Appended
<1>9. r \in State
    BY <1>2, <1>3, <1>7, <1>8 DEF State
<1>10. Len(r.conn) <= MaxConns
    <2>1. Len(u.conn) \in Nat
        BY Domains DEF Good
    <2>2. QED
        BY <1>1, <1>8, <2>1
<1>11. DOMAIN r.conn = DOMAIN v.conn \cup {n} /\ 0 .. Len(v.conn) \subseteq 0 .. Len(r.conn)
    BY <1>8
<1> HIDE DEF n
<1>12. Refs(r)
    BY <1>1, <1>3, <1>5, <1>7, <1>8, <1>11 DEF Refs
<1>13. \A w \in 0 .. Len(v.conn) : w # 0 => w \in DOMAIN v.conn
    BY <1>8
<1>14. Sockets(r)
    <2>1. r.timer => \E w \in DOMAIN r.conn : r.conn[w].state \in {"open", "closing"}
        BY <1>1, <1>7, <1>8, <1>11 DEF Good, Sockets
    <2>2. \A w \in 0 .. Len(v.conn) : w # 0 /\ Alive(v, w) => Alive(r, w)
        BY <1>8, <1>13 DEF Alive
    <2>3. v.remoteWs # 0 => Alive(v, v.remoteWs)
        BY <1>1 DEF Good, Sockets
    <2>4. r.remoteWs # 0 => Alive(r, r.remoteWs)
        BY <1>3, <1>7, <2>2, <2>3 DEF Refs
    <2>5. ASSUME NEW t \in DOMAIN r.tab, r.tab[t].ws # 0
          PROVE  Alive(r, r.tab[t].ws) /\ r.conn[r.tab[t].ws].tab = t
        <3>1. t \in DOMAIN v.tab /\ r.tab[t].ws = v.tab[t].ws /\ v.tab[t].ws # 0
            BY <1>7, <2>5
        <3>2. v.tab[t].ws \in 0 .. Len(v.conn)
            BY <1>3, <3>1 DEF Refs
        <3>3. Alive(v, v.tab[t].ws) /\ v.conn[v.tab[t].ws].tab = t
            BY <1>1, <3>1 DEF Good, Sockets
        <3>4. QED
            BY <1>8, <1>13, <2>2, <3>1, <3>2, <3>3
    <2>6. QED
        BY <2>1, <2>4, <2>5 DEF Sockets
<1>15. Kept(r)
    <2>1. Kept(v) /\ r.tab = v.tab /\ \A w \in DOMAIN v.conn : v.conn[w].tab \in DOMAIN v.tab
        BY <1>1, <1>3, <1>7 DEF Good, Refs
    <2>2. ASSUME NEW w \in DOMAIN r.conn, r.conn[w].state \in {"connecting", "open"}
          PROVE  w \in DOMAIN v.conn /\ r.conn[w] = v.conn[w]
        BY <1>5, <1>8, <1>11, <2>2
    <2>3. QED
        BY <1>8, <1>11, <2>1, <2>2 DEF Kept, Connected
<1>16. Chats(r) /\ Tabbed(r) /\ Active(r)
    BY <1>1, <1>7 DEF Good, Chats, Tabbed, Active
<1>17. QED
    BY <1>9, <1>10, <1>12, <1>14, <1>15, <1>16 DEF Good, r

\* The panel is opened, and a chat asked for if there is none.
LEMMA toggleChatGood ==
    ASSUME NEW u, Good(u), u.selected \in Device
    PROVE  Good(toggleChat(u))
<1> DEFINE v == openChatSession(u)
<1>1. u \in State
    BY DEF Good
<1>2. ASSUME NEW x, Good(x), NEW p \in BOOLEAN
      PROVE  Good([x EXCEPT !.panel = p])
    <2> DEFINE r == [x EXCEPT !.panel = p]
    <2>1. x \in State
        BY <1>2 DEF Good
    <2>2. r \in State
        BY <2>1, Zenon DEF State
    <2>3. /\ r.tab = x.tab /\ r.sessionTabs = x.sessionTabs /\ r.active = x.active
          /\ r.conn = x.conn /\ r.remoteWs = x.remoteWs /\ r.timer = x.timer
          /\ r.chat = x.chat /\ r.chatId = x.chatId /\ r.shown = x.shown /\ r.userClosed = x.userClosed
        BY <2>1 DEF State
    <2> HIDE DEF r
    <2>4. Chats(r) /\ r.chatId \in 0 .. Len(r.chat) /\ r.shown \subseteq DOMAIN r.chat
        BY <1>2, <2>3 DEF Good, Chats, Refs
    <2>5. QED
        BY <1>2, <2>2, <2>3, <2>4, OnlyChats DEF r
<1>3. Good(v)
    <2> DEFINE e == [device |-> u.selected, state |-> "requested"]
    <2>1. v = [u EXCEPT !.chat = Append(u.chat, e)]
        BY <1>1 DEF openChatSession, State
    <2>2. e \in Chat
        BY DEF Chat, ChatState
    <2>3. u.chat \in Seq(Chat)
        BY <1>1 DEF State
    <2>4. /\ v.tab = u.tab /\ v.sessionTabs = u.sessionTabs /\ v.active = u.active
          /\ v.conn = u.conn /\ v.remoteWs = u.remoteWs /\ v.timer = u.timer
          /\ v.chat = Append(u.chat, e) /\ v.chatId = u.chatId /\ v.shown = u.shown /\ v.userClosed = u.userClosed
        BY <1>1, <2>1 DEF State
    <2> HIDE DEF e
    <2>5. /\ v.chat \in Seq(Chat) /\ Len(u.chat) \in Nat /\ Len(v.chat) = Len(u.chat) + 1
          /\ DOMAIN u.chat = 1 .. Len(u.chat) /\ DOMAIN v.chat = 1 .. (Len(u.chat) + 1)
          /\ \A o \in DOMAIN u.chat : v.chat[o] = u.chat[o]
        BY <2>2, <2>3, <2>4, Appended
    <2>6. v \in State
        BY <1>1, <2>1, <2>4, <2>5 DEF State
    <2> HIDE DEF v
    <2>7. v.chatId \in 0 .. Len(v.chat) /\ v.shown \subseteq DOMAIN v.chat
        BY <2>4, <2>5 DEF Good, Refs
    <2>8. \A o \in u.shown \cup ({u.chatId} \ {0}) : o \in DOMAIN u.chat
        BY <2>5 DEF Good, Refs
    <2>9. Chats(v)
        BY <2>4, <2>5, <2>8 DEF Good, Chats
    <2>10. QED
        BY <2>4, <2>6, <2>7, <2>9, OnlyChats DEF v
<1>4. /\ Good([u EXCEPT !.panel = FALSE]) /\ Good([u EXCEPT !.panel = TRUE])
      /\ Good([v EXCEPT !.panel = TRUE])
    <2>1. TRUE \in BOOLEAN /\ FALSE \in BOOLEAN
        OBVIOUS
    <2>2. QED
        BY <1>2, <1>3, <2>1, Zenon
<1>5. CASE u.panel
    BY <1>4, <1>5, Zenon DEF toggleChat
<1>6. CASE ~u.panel /\ u.chatId = 0
    BY <1>4, <1>6, Zenon DEF toggleChat
<1>7. CASE ~u.panel /\ u.chatId # 0
    BY <1>4, <1>7, Zenon DEF toggleChat
<1>8. QED
    BY <1>5, <1>6, <1>7

\* The server answers for a chat that was asked for.
LEMMA ChatAckGood ==
    ASSUME NEW u, Good(u), NEW o \in DOMAIN u.chat, u.chat[o].state = "requested"
    PROVE  Good(Acknowledged(u, o)) /\ Good([u EXCEPT !.chat[o].state = "refused"])
<1>1. u \in State /\ o \in Nat /\ o \in 0 .. Len(u.chat)
    BY Domains DEF Good
<1>2. \A x \in u.shown \cup ({u.chatId} \ {0}) : x \in DOMAIN u.chat \ {o}
    <2>1. \A x \in u.shown \cup ({u.chatId} \ {0}) : x \in DOMAIN u.chat
        BY <1>1, Domains DEF Good, Refs
    <2>2. QED
        BY <2>1 DEF Good, Chats
<1>3. \A st \in {"open", "refused"} :
          /\ SetChat(u, o, st) \in Seq(Chat) /\ Len(SetChat(u, o, st)) = Len(u.chat)
          /\ DOMAIN SetChat(u, o, st) = DOMAIN u.chat
          /\ SetChat(u, o, st)[o].state = st
          /\ \A x \in DOMAIN u.chat \ {o} : SetChat(u, o, st)[x] = u.chat[x]
    BY <1>1, ChatSet DEF ChatState
<1>4. Good(Acknowledged(u, o))
    <2> DEFINE v == Acknowledged(u, o)
    <2>1. v = [u EXCEPT !.chat = SetChat(u, o, "open"), !.chatId = o, !.userClosed = FALSE]
        BY <1>1 DEF Acknowledged, SetChat
    <2>2. /\ v.tab = u.tab /\ v.sessionTabs = u.sessionTabs /\ v.active = u.active
          /\ v.conn = u.conn /\ v.remoteWs = u.remoteWs /\ v.timer = u.timer
          /\ v.chat = SetChat(u, o, "open") /\ v.chatId = o /\ v.shown = u.shown /\ ~v.userClosed
        BY <1>1, <2>1 DEF State
    <2>3. v \in State
        BY <1>1, <1>3, <2>1 DEF State
    <2> HIDE DEF v
    <2>4. v.chatId \in 0 .. Len(v.chat) /\ v.shown \subseteq DOMAIN v.chat
        BY <1>1, <1>3, <2>2 DEF Good, Refs
    <2>5. Chats(v)
        BY <1>2, <1>3, <2>2 DEF Good, Chats
    <2>6. QED
        BY <2>2, <2>3, <2>4, <2>5, OnlyChats DEF v
<1>5. Good([u EXCEPT !.chat[o].state = "refused"])
    <2> DEFINE v == [u EXCEPT !.chat[o].state = "refused"]
    <2>1. v = [u EXCEPT !.chat = SetChat(u, o, "refused")]
        BY <1>1 DEF SetChat
    <2>2. /\ v.tab = u.tab /\ v.sessionTabs = u.sessionTabs /\ v.active = u.active
          /\ v.conn = u.conn /\ v.remoteWs = u.remoteWs /\ v.timer = u.timer
          /\ v.chat = SetChat(u, o, "refused") /\ v.chatId = u.chatId /\ v.shown = u.shown /\ v.userClosed = u.userClosed
        BY <1>1, <2>1 DEF State
    <2>3. v \in State
        BY <1>1, <1>3, <2>1 DEF State
    <2> HIDE DEF v
    <2>4. v.chatId \in 0 .. Len(v.chat) /\ v.shown \subseteq DOMAIN v.chat
        BY <1>3, <2>2 DEF Good, Refs
    <2>5. Chats(v)
        BY <1>2, <1>3, <2>2 DEF Good, Chats
    <2>6. QED
        BY <2>2, <2>3, <2>4, <2>5, OnlyChats DEF v
<1>6. QED
    BY <1>4, <1>5

\* The chat of the window goes on: its user has left, or one of the two has written.
LEMMA OngoingGood ==
    ASSUME NEW u, Good(u), u.chatId # 0,
           NEW st \in {"open", "left"}, NEW left \in BOOLEAN, left <=> st = "left",
           NEW more \in SUBSET {u.chatId}
    PROVE  Good([u EXCEPT !.chat = SetChat(u, u.chatId, st), !.shown = u.shown \cup more,
                          !.userClosed = left])
<1> DEFINE o == u.chatId
<1> DEFINE v == [u EXCEPT !.chat = SetChat(u, o, st), !.shown = u.shown \cup more,
                          !.userClosed = left]
<1>1. u \in State /\ o \in DOMAIN u.chat /\ o \in Nat
    BY Domains DEF Good, Refs
<1>2. /\ SetChat(u, o, st) \in Seq(Chat) /\ Len(SetChat(u, o, st)) = Len(u.chat)
      /\ DOMAIN SetChat(u, o, st) = DOMAIN u.chat
      /\ SetChat(u, o, st)[o].state = st
      /\ \A x \in DOMAIN u.chat \ {o} : SetChat(u, o, st)[x] = u.chat[x]
    BY <1>1, ChatSet DEF ChatState
<1>3. /\ v.tab = u.tab /\ v.sessionTabs = u.sessionTabs /\ v.active = u.active
      /\ v.conn = u.conn /\ v.remoteWs = u.remoteWs /\ v.timer = u.timer
      /\ v.chat = SetChat(u, o, st) /\ v.chatId = u.chatId /\ v.shown = u.shown \cup more
    BY <1>1 DEF State
<1>4. v.userClosed <=> st = "left"
    BY <1>1, Zenon DEF State
<1>5. u.shown \cup more \in SUBSET Nat
    BY <1>1 DEF State
<1>6. v \in State
    BY <1>1, <1>2, <1>5, Zenon DEF State
<1> HIDE DEF v
<1>7. v.chatId \in 0 .. Len(v.chat) /\ v.shown \subseteq DOMAIN v.chat
    BY <1>1, <1>2, <1>3 DEF Good, Refs
<1>8. Chats(v)
    <2>1. \A x \in u.shown \cup {o} : x \in DOMAIN u.chat /\ u.chat[x].state \in {"open", "left"}
        BY <1>1 DEF Good, Refs, Chats
    <2>2. \A x \in u.shown \cup {o} : SetChat(u, o, st)[x].state \in {"open", "left"}
        BY <1>2, <2>1
    <2>3. \A x \in v.shown \cup ({v.chatId} \ {0}) : x \in u.shown \cup {o}
        BY <1>3
    <2>4. v.chatId # 0 /\ v.chat[v.chatId].state = st
        BY <1>2, <1>3
    <2>. QED BY <1>3, <1>4, <2>2, <2>3, <2>4 DEF Chats
<1>9. QED
    BY <1>3, <1>6, <1>7, <1>8, OnlyChats DEF v

\* A message is sent or received in the window's chat, or its user leaves it.
LEMMA EventGood ==
    ASSUME NEW u, Good(u), u.chatId # 0
    PROVE  /\ Good(Written(u, u.chatId))
           /\ Good([u EXCEPT !.chat[u.chatId].state = "left", !.userClosed = TRUE])
<1> DEFINE o == u.chatId
<1>1. u \in State /\ u.shown \cup {} = u.shown
    BY DEF Good
<1>2. Written(u, o) = [u EXCEPT !.chat = SetChat(u, o, "open"), !.shown = u.shown \cup {o},
                                !.userClosed = FALSE]
    BY <1>1 DEF Written, SetChat
<1>3. [u EXCEPT !.chat[o].state = "left", !.userClosed = TRUE] =
      [u EXCEPT !.chat = SetChat(u, o, "left"), !.shown = u.shown \cup {}, !.userClosed = TRUE]
    BY <1>1 DEF SetChat, State
<1>4. Good([u EXCEPT !.chat = SetChat(u, o, "open"), !.shown = u.shown \cup {o},
                     !.userClosed = FALSE])
    <2>1. "open" \in {"open", "left"} /\ (FALSE <=> "open" = "left") /\ {o} \in SUBSET {u.chatId}
        OBVIOUS
    <2>. QED BY <2>1, OngoingGood
<1>5. Good([u EXCEPT !.chat = SetChat(u, o, "left"), !.shown = u.shown \cup {},
                     !.userClosed = TRUE])
    <2>1. "left" \in {"open", "left"} /\ (TRUE <=> "left" = "left") /\ {} \in SUBSET {u.chatId}
        OBVIOUS
    <2>. QED BY <2>1, OngoingGood
<1>6. QED
    BY <1>2, <1>3, <1>4, <1>5

\* What neither takes a tab away nor opens one.
LEMMA SameTabsGood ==
    ASSUME NEW u, Good(u), NEW v, Releases(u, v), SameTabs(u, v)
    PROVE  Good(v)
<1>1. Tabbed(v) /\ Active(v)
    BY DEF Good, Tabbed, Active, Releases, SameTabs
<1>2. QED
    BY <1>1, ReleasesGood

-----------------------------------------------------------------------------
(* The window: its first state, and every event.                            *)
LEMMA InitGood == Init => Good(ui)
<1> SUFFICES ASSUME Init PROVE Good(ui)
    OBVIOUS
<1>1. /\ ui.tab = <<>> /\ ui.sessionTabs = <<>> /\ ui.active = 0 /\ ui.conn = <<>>
      /\ ui.remoteWs = 0 /\ ui.chat = <<>> /\ ui.chatId = 0 /\ ui.shown = {}
    BY DEF Init
<1>2. ~ui.timer
    BY Zenon DEF Init
<1>3. ui \in State
    <2>1. /\ <<>> \in Seq(Tab) /\ <<>> \in Seq(Nat) /\ <<>> \in Seq(Conn) /\ <<>> \in Seq(Chat)
          /\ 0 \in Nat /\ {} \in SUBSET Nat
        OBVIOUS
    <2>2. QED
        BY <2>1, Zenon DEF Init, State
<1>4. Refs(ui) /\ Len(ui.conn) <= MaxConns
    BY <1>1, UIConstants DEF Refs
<1>5. Sockets(ui) /\ Kept(ui) /\ Chats(ui)
    <2>1. ~ui.userClosed
        BY Zenon DEF Init
    <2>2. QED
        BY <1>1, <1>2, <2>1 DEF Sockets, Kept, Chats
<1>6. Tabbed(ui) /\ Active(ui)
    BY <1>1 DEF Tabbed, Active, IsInjective, ToSet
<1>7. QED
    BY <1>3, <1>4, <1>5, <1>6 DEF Good

LEMMA NextGood == ASSUME Good(ui), [Next]_ui PROVE Good(ui')
<1>1. ui \in State /\ Refs(ui) /\ Tabbed(ui) /\ Active(ui)
    BY DEF Good
<1>2. ui.selected # None => ui.selected \in Device
    BY <1>1 DEF State
<1>3. CASE SelectDevice
    BY <1>1, <1>3, selectDeviceReleases, SameTabsGood DEF SelectDevice
<1>4. CASE SwitchTab
    BY <1>1, <1>4, switchTabReleases, SameTabsGood DEF SwitchTab, Refs
<1>5. CASE SwitchSessionTab
    <2>1. PICK t \in ToSet(ui.sessionTabs) : ui' = switchSessionTab(ui, t)
        BY <1>5 DEF SwitchSessionTab
    <2>2. t \in DOMAIN ui.tab
        BY <1>1 DEF Tabbed
    <2>3. Releases(ui, ui') /\ ui'.sessionTabs = ui.sessionTabs /\ ui'.active = t
        BY <1>1, <2>1, <2>2, switchSessionTabReleases
    <2>4. Tabbed(ui')
        BY <1>1, <2>3 DEF Tabbed, Releases
    <2>5. Active(ui')
        BY <2>3 DEF Active, ToSet
    <2>6. QED
        BY <2>3, <2>4, <2>5, ReleasesGood
<1>6. CASE CloseSessionTab
    BY <1>1, <1>6, closeSessionTabReleases, ReleasesGood DEF CloseSessionTab
<1>7. CASE StartRemote
    BY <1>2, <1>7, startRemoteGood, UIConstants DEF StartRemote
<1>8. CASE StopRemote
    BY <1>1, <1>8, stopRemoteReleases, SameTabsGood DEF StopRemote, Refs
<1>9. CASE SessionCreated
    BY <1>9, ConnectsGood DEF SessionCreated, ConnIn
<1>10. CASE SessionRefused
    BY <1>10, refusedGood DEF SessionRefused, ConnIn
<1>11. CASE OnOpen
    BY <1>11, onopenGood DEF OnOpen, ConnIn
<1>12. CASE OnClose
    BY <1>12, oncloseGood DEF OnClose, ConnIn, Alive
<1>13. CASE ToggleChat
    BY <1>2, <1>13, toggleChatGood DEF ToggleChat
<1>14. CASE ChatAck
    <2>1. PICK o \in DOMAIN ui.chat :
              /\ ui.chat[o].state = "requested"
              /\ ui' = Acknowledged(ui, o) \/ ui' = [ui EXCEPT !.chat[o].state = "refused"]
        BY <1>14 DEF ChatAck
    <2>2. Good(Acknowledged(ui, o)) /\ Good([ui EXCEPT !.chat[o].state = "refused"])
        BY <2>1, ChatAckGood
    <2>3. CASE ui' = Acknowledged(ui, o)
        BY <2>2, <2>3
    <2>4. CASE ui' = [ui EXCEPT !.chat[o].state = "refused"]
        BY <2>2, <2>4, Zenon
    <2>5. QED
        BY <2>1, <2>3, <2>4
<1>15. CASE SendChatMessage
    BY <1>15, EventGood DEF SendChatMessage, sendChatMessage
<1>16. CASE OnChatMessage \/ OnChatClosed
    <2>1. PICK o \in DOMAIN ui.chat : ui' = onChatMessage(ui, o) \/ ui' = onChatClosed(ui, o)
        BY <1>16 DEF OnChatMessage, OnChatClosed, Joined
    <2>2. CASE o # ui.chatId
        BY <2>1, <2>2 DEF onChatMessage, onChatClosed
    <2>3. CASE o = ui.chatId
        <3>1. ui.chatId # 0
            BY <1>1, <2>3, Domains
        <3>2. /\ Good(Written(ui, ui.chatId))
              /\ Good([ui EXCEPT !.chat[ui.chatId].state = "left", !.userClosed = TRUE])
            BY <3>1, EventGood
        <3>3. \/ ui' = Written(ui, ui.chatId)
              \/ ui' = [ui EXCEPT !.chat[ui.chatId].state = "left", !.userClosed = TRUE]
            BY <2>1, <2>3 DEF onChatMessage, onChatClosed
        <3>4. QED
            BY <3>2, <3>3, Zenon
    <2>4. QED
        BY <2>2, <2>3
<1>17. CASE Logout
    BY <1>1, <1>17, logoutReleases, SameTabsGood DEF Logout
<1>18. CASE UNCHANGED ui
    BY <1>18
<1>19. QED
    BY <1>3, <1>4, <1>5, <1>6, <1>7, <1>8, <1>9, <1>10, <1>11, <1>12, <1>13, <1>14, <1>15, <1>16,
       <1>17, <1>18 DEF Next

\* Every state the window reaches is good: whatever is clicked, and whenever the
\* sessions, the connections and the chats it has asked for arrive (ui.go:589-1700).
THEOREM ClientInvariant == Spec => []Good(ui)
<1>1. Init => Good(ui)
    BY InitGood
<1>2. Good(ui) /\ [Next]_ui => Good(ui)'
    BY NextGood
<1>3. QED
    BY <1>1, <1>2, PTL DEF Spec

\* The state of the script keeps its types, and its list of tabs its shape: no two
\* of one device, and one of them active (ui.go:644).
THEOREM ClientTypeCorrect == Spec => []TypeOK
<1>1. Good(ui) => TypeOK
    BY GoodInv
<1>2. QED
    BY <1>1, ClientInvariant, PTL

\* Nothing keeps a connection whose close event has come, for any number of tabs
\* and connections, although that event clears what the window holds by then
\* (ui.go:986).
THEOREM NoDeadSocketAlways == Spec => []NoDeadSocket
<1>1. Good(ui) => NoDeadSocket
    BY GoodInv
<1>2. QED
    BY <1>1, ClientInvariant, PTL

\* A running connection is held by its tab, unless that tab was connected twice.
THEOREM LeftRunningAlways == Spec => []LeftRunning
<1>1. Good(ui) => LeftRunning
    BY GoodInv
<1>2. QED
    BY <1>1, ClientInvariant, PTL

\* Messages are sent to, and displayed of, chats the operator has not closed; the
\* window knows of the user of its chat, and of no other, whether he has left.
THEOREM ChatCurrentAlways == Spec => []ChatCurrent
<1>1. Good(ui) => ChatCurrent
    BY GoodInv
<1>2. QED
    BY <1>1, ClientInvariant, PTL
=============================================================================
