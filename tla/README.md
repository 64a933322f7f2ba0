# Oblireach: a TLA+ model

Oblireach is a remote desktop: an **agent** on the controlled machine, a
**relay** that joins an agent and a viewer, and a **desktop client** in front of
the viewer. This directory holds TLA+ modules for the concurrent parts of the
agent, of the relay and of the client's window, the TLC configurations that check
them, and proofs, by the TLA+ proof system TLAPS, about every one of these parts. All paths below are paths of the
repository (`server/relay.go`, `agent/stream.go`, ...).

    tlc -workers 2 -config MCRelay.cfg MCRelay     # any run: cfg and MC module
    tlapm RelayProofs.tla                          # the proofs; also StreamProofs,
                                                   # DirectProofs, CrossProofs, CodecProofs,
                                                   # ChatProofs, CmdProofs, ClientProofs

`PROJECT.json` lists the runs, the lines every definition models, a mutation for
every property (the `Fault:` definitions in the modules, each a plausible bug
that the property detects), the hazards of the code, and the theorems.

## 1. The system

| Component | State | Operations | Talks to |
|---|---|---|---|
| Relay: session store (`server/session.go`) | map token -> entry; per entry the two role slots and `pairCh` | `getOrCreate`, `register`, `remove` | handlers, under two kinds of mutex |
| Relay: tunnel (`server/relay.go`) | per connection: handler goroutine, outbound pump, `sendCh` (256), `stopCh`, idle timer | pair, wait with timeout, read and forward, tear down | the two clients, through WebSockets |
| Relay: `auth.go`, `signal.go`, `config.go` | none | check a token, answer a signal request | Obliance, over HTTP |
| Agent: command channel (`agent/cmd_ws.go`, `push.go`) | `cmdWSActive`, backoff, per connection a reader and `frameCh` | connect, heartbeat, receive commands, each in a goroutine; reconnect | Obliance |
| Agent: stream session (`agent/stream.go`) | `activeStreams`, `stopCh`, `sync.Once`, WebSocket | open, close, keepalive, read, `stop` | relay, command channel |
| Agent: direct stream (`stream.go`, `run`) | two inactivity timers, `inputCh`, `blockCh`, `monitorCh`, `codecCh`, input-blocked flag | the cases of its select | capture, codecs, `BlockInput` |
| Agent: cross-session stream (`remote_session_windows.go`) | listener, pipe, helper process with two goroutines | spawn, accept, relay, stop | helper process over TCP |
| Agent: pipe framing (`pipeSend`, `pipeRecv`; again in `chat.go`) | bytes in flight | two writes, two reads | service and helper |
| Agent: codecs (`encode_*.go`, parts of the two loops) | C globals per codec, use-flags, current monitor and size | init, encode, close, switch, set bitrate | capture |
| Agent: adaptive bitrate (`stream.go`) | window of 15 write times, current bitrate | `report` | codecs |
| Agent: chat (`chat.go`, `chat_windows.go`) | `activeChats`, `ChatSession.conn`, `stopCh`, helper process and window | open, message, typing/file/request, close | command channel, helper over TCP |
| Agent: watermark, audio, capture, input, clipboard, sessions, service, update | mostly one flag or C handle each | start, stop | Windows |
| Client: proxy and session store (`client-app/proxy.go`) | cookie, token, file on disk | sign in, sign out, load, save, proxy | Obliance, the UI |
| Client: UI (`client-app/ui.go`; `ObliReachViewer.tsx` is a viewer for another client) | selected device, session tabs with a WebSocket each, `remoteWs`, `chatId`, decoders | select a device, open, switch and close tabs, connect, chat | proxy, relay |

What is hard in it, and where the properties come from:

- *Relay.* Two locks for one admission (`getOrCreate`, then `register`); entries
  removed by token, not by identity, by handlers that may be long past their
  own entry; a timer that races the partner's arrival; a channel send under a
  mutex; two goroutines and two buffers per tunnel. Correct means: tunnels are
  one to one between opposite roles of one token, registering never blocks the
  entry, no entry leaks, no frame crosses sessions, frames keep their order, a
  dead client frees its role, every teardown finishes.
- *Streams.* Four goroutines can stop one session, behind writes that may stall
  as long as TCP lets them; the map is by token while sessions come and go.
  Correct means: the body of `stop` runs once, the map leads to no stopped
  session, a stopped stream winds down with everything it started, a silent
  viewer is disconnected, the user's input is given back.
- *Cross-session streams.* Two processes, two goroutines each, bounded buffers in
  both directions, and a helper that can die or never connect. Correct means,
  further: the first message is the init message and no helper is left behind.
- *Chat.* Commands in goroutines of their own, windows that connect late, close or
  die, a `stop` that closes, closes and deletes step by step beside all of them, a
  message that is sent again to a new window. Correct means: the map never leads to a
  session that nobody serves and nobody is about to delete, no message is shown twice, a
  dead window is forgotten, a closed pipe closes its window.
- *Codecs.* Process-wide handles that are initialised, switched and closed on a
  dozen paths, some of which fail half way; a handle that is open already is
  kept as it is, whatever size is asked for. Correct means: what is open fits the
  frames, nothing is left behind, the announced codec is the one sent.

- *Command channel.* A reader goroutine per connection that nobody waits for, a
  bounded channel between it and the session, a deadline only the session moves.
  Correct means: commands start in order and on their own connection only, a lost
  server is noticed and dialled again, readers end.
- *Window.* One thread, but what it asked for comes in a later event, after
  whatever was clicked in between. Correct means: nothing is kept of a closed
  connection, every connection can still be closed by its tab, messages go to a
  chat the operator has not closed, and the window says of its user, and of no
  other's, that he has left.

## 2. The modules

| Module | Models | Composed with |
|---|---|---|
| `Rendezvous` | abstract: parties of a token are coupled one to one | |
| `Relay` | `session.go` and `handleRelay` of `relay.go` | implements `Rendezvous` |
| `RelayProofs` | theorems about `Relay` | extends `Relay` |
| `StreamSession` | `activeStreams`, `StreamSession.stop`, keepalive, reader, `stopStream`, the WebSocket; abstract specification of both kinds of stream | |
| `DirectStream` | `StreamSession.run` | extends and implements `StreamSession` |
| `CrossStream` | `startCrossSessionStream`, `runCrossSession`, `runHelperMode` | extends and implements `StreamSession` |
| `Pipe` | `pipeSend`, `pipeRecv` | its theorems are in `CrossProofs` |
| `Chat` | one chat of `chat.go`, its commands from `push.go`, its helper of `chat_windows.go` | |
| `Codec` | the capture loops of `stream.go` and `remote_session_windows.go` with the encoders of `encode_*.go` and capture | fills in what `DirectStream` and `CrossStream` call capturing and switching (by argument, see below) |
| `CodecProofs` | theorems about `Codec` | extends `Codec` |
| `CmdWS` | `runCmdWS`, `cmdWSSession` and its reader goroutine | starts the commands `StreamSession` and `Chat` model (by argument) |
| `ClientUI` | tabs, connections and chat of the script in `client-app/ui.go` | |
| `StreamProofs` | theorems about `StreamSession` | extends `StreamSession` |
| `DirectProofs`, `CrossProofs` | the two refinements of `StreamSession`, and what is proved of it carried over; in `CrossProofs` also theorems about the first message, the helper and `Pipe` | extend `DirectStream`; `CrossStream` and `Pipe` |
| `ChatProofs`, `CmdProofs`, `ClientProofs` | theorems about `Chat`, `CmdWS`, `ClientUI` | extend them |
| `MCRelay`, `MCDirect`, `MCCross`, `MCPipe`, `MCChat`, `MCCodec`, `MCCmdWS`, `MCClientUI` | the instances for TLC | |

**Relay.** A connection `c` is served by a handler whose position is `pc[c]`
(idle, auth, upgraded, joining, waiting, tunnel, leaving, closed) and later by
a pump, `pump[c]`. `sessions`, `slot`, `pairCh` and `sendCh` are the fields of
the code; `priv` is the one-element channel `register` makes for a second peer;
an entry is named by the connection whose `getOrCreate` allocated it. One
action is one critical section, one select case, one read with the forwarding
that follows, or one write. The pump takes from `sendCh[partner[c]]`, the
channel the reader of the same connection fills, because that is what
`relay.go:157` and `:228` do. The client's side is three actions: it sends, it
goes away, and the idle timer closes the socket under the reader.

**StreamSession.** A session is the open command that made it. `pc` holds the
position of its run, keepalive and reader goroutines and of every close
command. `stop` has four steps: winning the `sync.Once` and closing `stopCh`, closing
the WebSocket (a write that may wait), deleting the map entry, or waiting for the
winner. `peer` says whether the far end reads, has stalled or is gone; a write
is one step that is not enabled while the peer stalls. What `run` does is left
open: it may start its loop and leave it at any time.

**DirectStream** fills in `run`: one action per case of its select, each write to
the viewer a step of its own, the deferred calls in their order. Time is
`idle`, the number of inactivity timers that have expired. `inputCh` counts
what waits in `inputCh`, `codecCh` and `monitorCh`, because all three restart the
timers and differ in nothing else the properties see. The pong and clipboard
answers of the reader and the audio goroutine are left out: they write, ignore
the outcome and end with `stopCh`.

**CrossStream** fills in `runCrossSession` and the helper process. The pipe is
a bounded queue of whole messages in each direction. The WebSocket's reader takes
a message of the viewer off the socket (`ViewerSends`) and then stands in `pipeSend`
(`ForwardInput`), where it waits for room and sees nothing of the socket; with both
pipes full the reader, the loop and the helper wait at the same time. The pongs the
reader answers are left out. `helper` and
`helperReader` are the helper's two goroutines; capture, encoding and audio are
the one action `HelperCaptures`, which may send a frame or, on a monitor
switch, a second init message, which the service's loop ignores.

**Pipe** looks inside those messages: header and payload are separate writes and
separate reads, several goroutines write, and the three-second read deadline can
pass between the two reads. `CrossStream` and `Chat` abstract from this and take messages
as whole. Nothing in the code guarantees that they are: every pipe has two writers or a
deadline, and `pipe_writers` shows a payload taken for a header. What those two
modules show therefore holds as long as the framing does.

**Chat.** A command is a goroutine (`cpc`, with its local `cs`); a session is a
helper, its pipe (`toHelper`, `toService`), its accept and relay goroutine
(`svc`) and the window (`helper`, `shown`). `stop` has the steps of the code, for
the command as for the deferred call: winning the `sync.Once` and closing `stopCh`
(`CloseStopCh`), closing the connection (`CloseConn`), deleting the map entry, whichever
session it leads to by then (`Forget`), or waiting for the winner (`JoinStop`). The relay
goroutine looks at `stopCh`, reads until the deadline (`ReadTimeout`), and on an error
reports (`ReportClosed`), closes the listener (`CloseListener`) and stops, each a step that
commands can come between. One chat is modelled, since chats share nothing but
the WebSocket they report to.

**Codec.** The two capture loops differ only in what the viewer is told, so there
is one module and a `program`: the helper, the agent's own stream on Windows, or
on Linux and macOS. The use-flags `useOpenH264`, `useVP9`, ... exclude each other
and become `codec`, with `"wmf"` for none of them. `handle[e]` is the size encoder `e`
was initialised for, 0 when it is closed: encoders are C globals, so `handle` outlives
a stream, and `Use` leaves an open one alone. `capture` is the size the screen is
captured in and `size` that of the loop's buffer; they part when the screen changes.
`fed` and `produced` are the counters behind the JPEG fallback of a Windows
encoder that has no output. `Start` and `Return` are the head of `run` and its
deferred calls, `SwitchMonitor` and `SwitchCodec` the two switches with all their failures,
`Frame` a tick. Width and height are one number, as everything about them is whether two
frames are equal, smaller or larger. The module leaves out which monitor is
captured and the input offset that follows it, bitrates, pixels, names of codecs
nobody offers, and two direct streams at the same time. `DirectStream` and `CrossStream`
need no more of it than that a switch is one step and a tick sends a frame or none.

**CmdWS.** `pc` is the position of the main loop, in `runCmdWS` (`dial`, `sleep`) or in
`cmdWSSession` (`heartbeat`, `loop`, `beat`, `pong`, and `clear` and `close` for its
deferred calls). Connections are numbered, because the reader of an earlier one may
still be running: `reader`, `holding` and `frameCh` are per connection, as in
the code, where they are local to the session. `wire` is what the server has sent
and the reader has not read; `peer` says whether the server is there, silent or
gone. A read deadline may pass whenever nothing is there to read, and also when
something is but the session, which alone moves the deadline, is busy with a write.
`started` is the list of `handleCommand` goroutines; what they do is in `StreamSession` and
`Chat`, which start each command at a time of its own. Acknowledgements are writes whose
outcome is ignored and are left out, and so are frames that are no valid JSON, which the
loop logs and drops.

**ClientUI.** The script has one thread, so a handler is one step, and it is written as
an operator from one state of the window, the record `ui`, to the next: handlers
call each other (`closeSessionTab` switches tabs, which selects a device, which
may close a chat and stop a session), and the operators do the same. A session is
`requested` by `startRemote`, then `connecting` once the answer has come, `open`, and
`closed` by its close event, which comes some time after `close()`. Between any two of
these the user may click anything that the state of the window shows: the buttons' visibility
is the guards. Tabs, sessions and chats keep their number when they are closed, so that a
late event finds what its closure refers to. A chat is `requested`, `open`, `left` while its
user has closed the window (the event `chat:closed`, after which messages can still be sent
and open it again), and `closed` by the operator; `userClosed` is `chatUserClosed`. Decoders, drawing, recording, annotation,
scripts and forms are left out.

## 3. Runs

Deadlock is not checked in any run: streams, chats, helpers and tunnels end, and
the bounds on what clients send end the rest.

| Run | Instance | Shows |
|---|---|---|
| `relay_pairing` | viewers v1, v2, agents a1, a2 (a2 of another session), store limited to one entry, one message from each agent | `Matched`, `RegisterNeverBlocks`, `EntryHeld`, `FrameIsolation`, and that `Relay` implements `Rendezvous` |
| `relay_tunnel` | one viewer, one agent, three messages each, `sendCh` of 2, fair | `TypeOK` (with the capacity), `InOrder`, `DeadPeerReleased`, `TeardownCompletes` |
| `relay_echo` | violation | `PartnersFrames` does not hold |
| `direct` | one stream, two messages, channels of 1, fair | `TypeOK` (with the capacities); `DirectStream` implements `StreamSession`; `StoppedEnds`, `IdleEnds` |
| `direct_thread` | violation | `UnblockedAtEnd` does not hold |
| `cross` | one stream with its helper, a close command, pipes of 1, fair | `TypeOK`; `CrossStream` implements `StreamSession`; `StopOnce`, `InitFirst`, `StoppedEnds`, `HelperReaped` |
| `pipe_order` | three writers, one of empty messages, two messages each, deadline | `PipeTypeOK`, `ReceivedInOrder` |
| `pipe_writers` | violation: two writers, one message each | `Framed` does not hold |
| `chat` | an opened chat and a second command of any kind, two windows, one typed message, fair | `TypeOK`; `ActiveServed`, `ShownOnce`, `DeadForgotten`, `ClosedWindowGoes` |
| `codec` | helper, direct stream on Windows, direct stream elsewhere; three sizes, three switches, two streams, threshold 3; the Windows encoder works, is silent or is absent | `TypeOK`; `EncoderFits` and `OneEncoder` of the first stream; `AnnouncedCodec` |
| `cmdws` | two connections, two commands, any number of pings, `frameCh` of 1, one frame on the wire, backoff from 4 to 6, fair | `TypeOK` (limits of the backoff, capacity), `StartedInOrder`, `LostNoticed`, `ReaderLeaves` |
| `client_ui` | two devices, two tabs, two sessions, two chats | `TypeOK` (with the relation of the tabs to each other), `NoDeadSocket`, `LeftRunning`, `ChatCurrent` |

Bounds, and why they are enough:

- *Connections of the relay.* A role conflict needs two connections of one role, a
  pair two of different roles, a mix-up of sessions one with another token; four
  connections give all three at once. That nothing depends on there being only
  four is proved.
- *Messages and capacities.* Order and overflow need a buffer of two and one message more
  than it holds. For a frame to come to the wrong session, one that is sent and queued is
  enough: in `relay_pairing` each agent sends one, and the two agents carry different
  tokens.
- *Sessions of a stream.* Goroutines of different sessions meet only in the map
  and in `stop`. The runs have one session, with a close command in `cross`: what two
  sessions of one token do to the map is in no run, and is the subject of the theorems
  `DirectEntriesServed` and `CrossEntriesServed`, for any number of sessions, close commands
  and tokens. `StopOnce`, `StoppedEnds` and `HelperReaped` are proved for any number too.
- *Pipes of one message.* Both directions full at once, the state in which service
  and helper wait for each other, is reached with one, and so is that of the reader which
  holds a message and waits.
- *Commands of a chat.* One command opens the chat, before or after the other, which may
  open it too, write, notify or close. That covers each kind against a session
  that accepts, relays, ends or is being stopped by another goroutine; a further command would
  only repeat a pair, since commands share no state but the map entry and the session, and for
  any number and kinds of them the two invariants are proved. Two windows are the old and
  the new one. One typed message is enough as nothing of the service's answers depends on it.
- *Sizes, switches and streams of a capture loop.* Against the size an encoder was
  opened for, a frame is equal, smaller or larger. A switch leaves behind what the
  next but one can meet: three reach each pair of predecessors. The second stream
  of a process is the one that finds the first one's encoders. A threshold of 3 instead of
  30 leaves room for output before, at and after the count. For encoders, sizes and
  switches the proofs remove the bounds.
- *Connections and commands of the command channel.* A second connection is what an old
  reader can be confused with; a third would meet only readers in the same states. Two commands have an
  order. With a channel and a wire of 1 the reader stands before a full channel while another
  frame is under way; pings are unlimited. 4 and 6 are a base and a limit the backoff
  reaches in one step and then meets.
- *Tabs, sessions and chats of the window.* A late event is about the shown tab or
  another one, about a tab's present session or an earlier one: two of each. One device is
  selected and the other is not. After a tab is closed its neighbour, or none, is left.
  Chats are counted over the life of the window, not at one time.
- *Writers of a pipe.* Three are what the helper has: frames, audio, and the
  messages without a payload.

**Fairness.** Every goroutine, timer and helper process that can take a step
eventually does (weak fairness of the handler, the pump, `run`, the chat
goroutines, the helper): the Go scheduler and the operating system run what is
runnable, and timers fire. Nothing is assumed of clients, viewers and users,
nor of a pipe's capacity. In
`CmdWS` the main loop, the sleep, the dial and each reader are weakly fair. `Codec` and `ClientUI`
have no fairness: nothing is said of whether an encoder gives output, nor of when a user
clicks or an answer comes.
Strong fairness is used in two places. A write to a
WebSocket whose far end stalls and resumes again and again is not continuously
enabled, but it progresses each time, so the steps that write, to the WebSocket and
to a pipe (`Writes`, `ForwardInput`), are strongly fair, and TCP settles a stall one way or the other (`Settle`). And Go's
`select` chooses uniformly among the ready cases, so a closed `stopCh` or an expired
timer is not passed over for ever in favour of frames; nor is `frameCh` for ever
in favour of the ticker (`TakeFrame` of `CmdWS`).

## 4. Proofs

`RelayProofs` proves, for any set of connections, tokens, token assignment,
capacities and bounds (the assumption is `ConstantsOK`, which says no more than
that the constants have their types and a buffer has room for one frame):

| Theorem | States |
|---|---|
| `Inductive` | `Spec => []IInv` |
| `TypeCorrect` | `Spec => []TypeOK`, with the capacity of `sendCh` |
| `MatchedAlways` | tunnels are one to one, of opposite roles and one token |
| `RegisterNeverBlocksAlways` | the send under the entry's mutex finds room |
| `EntryHeldAlways` | every entry of the store has a handler that has yet to remove it |
| `FrameIsolationAlways` | no frame reaches a connection of another session |
| `InOrderAlways` | each client is written data frames in the order in which they were read |
| `Refinement` | `Relay` implements `Rendezvous` |

The properties are not inductive: `Matched` speaks of what a handler was told,
and what it is told comes through `priv` and `pairCh`, out of slots of an entry the
store may have forgotten. The invariant `IInv` therefore says what those hold.
The argument turns on one observation: a slot is written once, in `register`, and
nothing clears it. `EntOK` ties a handler to an entry of its token, `StoreOK`
the store to entries, `SlotOK` a slot to a handler of that role that registered
in that entry, `ChannelsOK` says that `priv`, `pairCh` and `partner` are copies
of the other slot, and `LiveOK` that an entry still in the store has only live
handlers, or a creator about to register. The proof has one lemma per conjunct
(`TypeStep`, `EntStep`, `StoreStep`, `SlotStep`, `ChannelsStep`, `LiveStep`), each with one
step per group of actions. `RegisterNeverBlocks` follows as a full `pairCh` means both
slots are taken; `EntryHeld` from `LiveOK`. Frame isolation has an induction of its
own over `IInv`, and so has the order of frames: `OrderOK` says that what a pump has written
followed by what its queue holds is ordered, and bounded by what the reader has read; that
nobody else feeds the queue is `CoupledUnique`, from the slots. For the refinement, a party is in once it holds its slot and its
mate is the entry's other slot: `RegisterFirst` and `RegisterSecond` are the two
ways of entering, `Pair` opens, the ends leave, all else stutters.

`CodecProofs` proves, for any set of programs and of Windows encoders, any sizes,
threshold, and number of streams and switches (`CodecConstants`):

| Theorem | States |
|---|---|
| `CodecInductive` | `Spec => []IInv` |
| `EncoderFitsAlways` | in a process's first stream, every open encoder has the size of the loop's frames, and the one flagged is open |
| `OneEncoderAlways` | in a process's first stream, at most one encoder is open |
| `CodecTypeCorrect` | the types of the loop, for programs, sizes and counts without bound |
| `AnnouncedAlways` | what a direct stream sends is in the codec its viewer was last told of, or JPEG |

`EncoderFits` is not inductive, since a second encoder left open by a switch fits now
and not after the next monitor switch. `InUse` says more: only the encoder in use
may be open. `Fresh` says that the first stream of a process finds none open,
which is what fails for the second (section 5). The lemmas are `Using`, what
initialising an encoder or falling back leaves open when nothing was, and `NothingLeft`, that
a switch closes all there is; `IInv` then has one step per action. `AnnouncedCodec` speaks
of steps; the invariant under it, `Announced`, says that what was told and what is used agree
in the loop whenever there is a capture.

`StreamProofs` proves, for any sessions, close commands and assignment of tokens
(`SessionConstants`: sessions, goroutines and close commands have different names, every
command has a token, and `None` is no session):

| Theorem | States |
|---|---|
| `SessionInvariant` | `SessionSpec => []IInv` |
| `SessionTypeCorrect` | `SessionSpec => []SessionTypeOK` |
| `EntriesServedAlways` | an entry leads to a session whose `stop` is not over; a running session has an entry, unless another of its token was stored |
| `StopOnceAlways` | one goroutine is in the body of `stop` while the once runs, none otherwise, and a stopped session's WebSocket is closed |

The argument is about who may call `stop`. A session is known to nobody but its own
goroutine until it is stored, and its keepalive and reader start later still (`Early`).
From then on the once lets one goroutine in, and is `running` exactly while there is one
(`Exclusive`); it closes the connection before it forgets the entry (`Closed`). An
entry is written by `Store` alone and leads to a session whose stop is not over
(`Entries`), and `Found` follows the entries of running sessions through stores of
the same token. `StepKinds` reduces the steps of the module to the ten kinds the
invariant can tell apart, each a lemma.

| Theorem | States |
|---|---|
| `DirectProofs`: `DirectImplementsSession` | `DirectStream` implements `StreamSession` |
| `CrossProofs`: `CrossImplementsSession` | `CrossStream` implements `StreamSession` |
| `CrossProofs`: `InitFirstAlways` | while the service waits for the init message, no other can be the first on the pipe |

The refinement mapping changes `pc` only, place by place (`AbstractPlace`), so no
invariant is needed beyond the set of goroutines (`Placed`): a step of the loop between
two places that are both `loop` stutters, `stop` and the close command are the same
in both.

What `StreamProofs` shows of the abstract specification then holds of both. `Life`, in either
module, is `StreamProofs` with the mapped `pc`, so that its theorems are facts about the
stream; as the mapping leaves the map, the once and the places in `stop` as they are, they
are those the runs check:

| Theorem, of `DirectProofs` and `CrossProofs` | States |
|---|---|
| `DirectInvariant`, `CrossInvariant` | the inductive invariant of `StreamSession`, seen through the mapping |
| `DirectEntriesServed`, `CrossEntriesServed` | `EntriesServed` |
| `DirectStopOnce`, `CrossStopOnce` | `StopOnce` |
| `DirectTypeCorrect`, `CrossTypeCorrect` | `TypeOK`; for the direct stream, that no channel holds more than its capacity, for any capacity |

No run checks `EntriesServed`: its case is a session whose entry another of the same
token has replaced, and the runs have one session. Before it was proved, TLC found it and
`StopOnce` true of `MCDirect` with two sessions of one token and no messages of the viewers
(1 027 945 states).

`InitFirst` has an induction of its own, `FirstInv`: a helper that has not begun to stream
has written nothing, and while the service waits, one that streams has its init message
still at the head of the pipe. The service never comes back to waiting (`StillWaiting`).

`CrossProofs` also holds what is proved of `Pipe`, for any writers, whichever of them
send messages without a payload, and any number of messages:

| Theorem | States |
|---|---|
| `PipeInvariant`, `PipeTypeCorrect` | the inductive invariant; the types |
| `ReceivedInOrderAlways` | with any writers and deadlines, the messages of a writer are received in order and without a gap |

The order of received messages is not inductive: it depends on what is still in the
stream. `FromSent` says that a message begins after the one before it has ended, and that
need hold only until the framing is lost, since nothing is received after that.

`ChatProofs`, for any commands, windows and capacities (`ChatConstants`):

| Theorem | States |
|---|---|
| `ChatInvariant`, `ChatTypeCorrect` | the inductive invariant; the types |
| `ActiveServedAlways` | the map leads to a session that nobody has begun to stop and whose goroutine has yet to, or to one that a goroutine is in the middle of stopping and will delete |
| `ShownOnceAlways` | no message is shown twice, in one window or in two |

`ActiveServed` says of each step of `stop` who owes the next: while the once runs, some
goroutine stands between closing and deleting, and none but it ends the once (`StopServed`,
`StillServed`). `Fresh` keeps a session unknown to everybody until its command has started it; `SentLast`
says that a message on a pipe or in a window is that of a command that is over, so it is
never sent again; `OnePlace` that it is in one place.

`CmdProofs`, for any commands, connections, capacity and backoff (`CmdConstants`):

| Theorem | States |
|---|---|
| `CmdInvariant`, `CmdTypeCorrect` | the inductive invariant; the types, with the limits of the backoff and the capacity of `frameCh` |
| `StartedInOrderAlways` | the commands started on a connection are the first ones sent on it, in order |

A command goes from the wire through the reader's hand and `frameCh` to the session, with pings
in between. `InTransit` says that the three, read from the end, hold just the commands
that were sent and have not started; `Carries` says it of one of them, with a function that counts
the commands passed, which takes the place of a recursive filter.

`ClientProofs`, for any devices, tabs, connections and chats (`UIConstants`):

| Theorem | States |
|---|---|
| `ClientInvariant`, `ClientTypeCorrect` | the inductive invariant `Good`; the types, with the relation of the tabs to each other |
| `NoDeadSocketAlways` | nothing is kept of a connection whose close event has come |
| `LeftRunningAlways` | a running connection is that of its tab, unless the tab was given a second one |
| `ChatCurrentAlways` | messages are sent to, and shown of, chats the operator has not closed, and the window says that the user has left when he has, of the chat it shows |

Handlers are operators that call each other, and so are the lemmas: all those that only
close things or turn to another tab satisfy `Releases`, a relation between two states that can be
composed (`ReleasesOn`) and keeps the invariant (`ReleasesGood`); for `closeSessionTab`, which
ends up in `stopRemote` four calls further down, that is the whole proof apart from what taking an element out of the list of tabs does
(`Removed`, `RemovedSet`). The others each have a lemma. `Good` adds to what the run
checks only that whatever is referred to exists (`Refs`).

Every invariant and every refinement a passing run checks is thus a theorem.

### Liveness

Some of what must eventually happen is proved as well, for every value of the constants:

| Theorem | States |
|---|---|
| `RelayProofs`: `DeadPeerReleasedEventually` | the store forgets the entry of a registered handler whose client is gone |
| `StreamProofs`: `StopEnds` | whatever the loop of a stream is, if it comes to `stop` after `stopCh` has been closed, all three goroutines end and the entry is gone |
| `DirectProofs`: `DirectStoppedEnds`, `CrossProofs`: `CrossStoppedEnds` | `StoppedEnds`, for the direct stream and for the one with a helper |
| `CrossProofs`: `HelperReapedAlways` | `HelperReaped`: a helper whose service has gone exits |
| `CrossProofs`: `HelperHeard` | the invariant these two need: a helper that streams has told the service so, or its init message is on the pipe |
| `DirectProofs`: `DirectOpened`, `CrossProofs`: `CrossOpened` | `Opened`: a session that has not been dialled has no goroutine but its own and is known to nobody; `stopCh` is closed exactly when the once has begun |

*What they assume.* Fairness says that an action which is enabled is taken. That it *is*
enabled follows from reading its definition, but to this prover `ENABLED` is a formula it
cannot look into. The theorems therefore have a hypothesis of the form `[]...CanStep`, a predicate
of states which says of each place of a goroutine that where its guard holds, the action can be taken:
`HandlerCanStep`, `SharedCanStep`, `LoopCanStep`, `CrossCanStep`, `HelperCanStep`. They say
nothing of when a guard comes to hold, nor of a place where the code waits: a write that has
stalled, a full pipe, a select on what may never come are not in them, and that such a wait
ends is what is proved. TLC evaluates `ENABLED`, and finds each of them true
in every state of the instances of `relay_tunnel` (344 648 states), `direct`
(17 206) and `cross` (74 501, and 266 194 with pipes of two messages), as an INVARIANT of
those configurations in a module that extends both the `MC` module and the proofs. The
conditions of weak and strong fairness are written once per process (`HandlerRuns`, `PumpRuns`,
`CommandRuns`, `SessionRuns`, `LoopRuns`), so that a theorem cites only those it uses.

*How they go.* A chain of places, each with a step that leaves it and one that keeps it, which
the temporal prover puts together. Four arguments are not such a chain:

- `stop` of a stream. Whoever enters the once may be any of four goroutines, so that the body ends is
  proved for each of them (`RunBodyEnds`, `KeepaliveBodyEnds`, `ReaderBodyEnds`,
  `CommandBodyEnds`); it waits for a write of the loop only through the WebSocket, which a
  stall may hold up again and again. `StopCompletes` joins the four, and
  `KeepaliveStops`, `ReaderStops` and `RunStops` say what becomes of the callers that come late.
  `StopEnds` knows of the loop only `OwnMove`, what it leaves alone, so the two streams
  instantiate it with loops of their own.
- The loop of a direct stream. It goes round: frame, message, select. That it leaves rests on
  `SF_vars(SeeStop)`, Go's fair choice among the ready cases. Without that condition just this
  step fails. The loop of the other looks at `stopCh` before each receive.
- The service that waits for its helper, and the helper for the service. `awaitInit` ends because
  a helper that has connected sends or exits, and a helper that streams has been heard (`HelperHeard`); a
  full pipe has room again because the helper's reader takes from it whatever its
  capture loop is doing (`HelperMakesRoom`). No number of messages has to be counted: one is taken, and
  of the two that write to this pipe one is the service's loop and the other the WebSocket's
  reader, which may stand there with one message (`ReaderGoesOn`). Once the connection is closed
  it takes no other, so it can be before the loop once, and the strong fairness of both writes
  does the rest.
- The helper. It may be sending when the service goes, and what it writes may still find
  room; `SF_vars(HelperEnds)` is that a broken pipe is not overlooked for ever.

*What stays with TLC*: `TeardownCompletes`, `IdleEnds`, `DeadForgotten`, `ClosedWindowGoes`,
`LostNoticed` and `ReaderLeaves`. In each of them something is counted down, the frames
of a queue, messages, switches, the failures up to the threshold, so that the proof is an induction
over a number inside a temporal formula, and the installed provers cannot instantiate
the induction theorem of the library. No theorem needs induction over data or
a recursive operator.

## 5. Where code and text disagree

Three disagreements are runs that find a violation:

- `relay_echo`: the pump of a connection takes from `partner.sendCh`, the channel
  the reader of that connection fills (`relay.go:157`, `:228`), so a client is sent its own
  frames back; the comment at `relay.go:146` says "partner's frames".
- `direct_thread`: `UnlockOSThread` is deferred after `inputUnblock` and runs before
  it, so `BlockInput(FALSE)` may come from a thread that did not block the input and
  has no effect; `stream.go:210` says "always unblock input when stream ends".
- `pipe_writers`: header and payload are two writes without a lock, and the audio
  goroutine and the capture loop share a pipe, against the framing stated at
  `remote_session_windows.go:147`.

Others were met while modelling. The modules contain the behaviour, and no run is
spent on them:

- The relay's `peer_disconnected` is put into the queue only the leaving
  connection's own pump reads, and that pump has been stopped: the partner is never
  told (`relay.go:182`).
- `remove` goes by token and the limit counts the map: after an older handler's
  teardown more than `maxSessions` sessions can be served, and a peer may wait in an entry no
  lookup reaches (`session.go:80`, `config.go:24`).
- A chat message that respawned the window is dropped when the window takes more than
  two seconds (`chat.go:184`); `user_closed` is reported also when the operator
  closed the chat (`chat.go:260`); a close before the window has connected leaves it
  open with a pipe nobody serves, until Go's garbage collector happens to
  finalise the connection (`chat.go:136`). A message that arrives while the window is still
  connecting is taken for one to a dead pipe, and a second window is opened
  (`chat.go:154`).
- `inputIsBlocked` is shared by all streams: one that ends clears the flag of another,
  whose own unblock is then skipped (`input_windows.go:287`).
- Behind a write that stalls for the last thirty seconds, the select may choose the
  disconnect before the warning (`stream.go:464`, README.md:192).
- Cross-session streams have no inactivity timer at all (README.md:192).
- A read deadline that passes between header and payload makes the payload the next
  header (`remote_session_windows.go:694`).
- A direct stream closes OpenH264 or the Windows encoder at its end and no other
  (`stream.go:255`): VP9, H.265 or AV1 stay open, and the next stream's initialisation
  reports success with the old size (`encode_vp9_windows.go:207`), action `Overrun`.
- Capture that is lost and not opened again, or a failed monitor switch, leaves a
  null interface that the next tick dereferences (`capture_windows.go:484`,
  `stream.go:493`), action `CaptureMissing`. A capture that is opened again is that
  of the first monitor, while the input offset stays.
- A screen that has grown does not fit the buffer, and the stream freezes where a
  smaller one ends it for the viewer to reconnect (`capture_windows.go:475`).
- A codec switch announces the codec that was asked for also when JPEG is used instead
  (`stream.go:562`). A helper announces neither its JPEG fallback nor, after a monitor
  switch, its H.264: the service drops a second init message.
- A Windows encoder that returns an error at every frame never falls back
  (`stream.go:640`). VP9 and AV1 are offered on every platform (`stream.go:271`) and have
  no output outside Windows.
- When neither OpenH264 nor the platform's encoder can be initialised, `useJPEG` stays false
  and no frame is sent until the viewer asks for another codec. On Linux and macOS this
  is always so, as both are stubs there; `stream.go:240` says "OpenH264 > WMF >
  JPEG fallback", and so does README.md:43.
- After a codec is initialised anew it runs at its default bitrate, while the adaptive
  bitrate goes on from its own value.
- `set_bitrate` is carried out by the helper's reader, beside a capture loop that
  may be closing the encoder (`remote_session_windows.go:337`).

- The command channel waits the backoff that has just been advanced and logs the one before
  (`cmd_ws.go:86`), so the first retry waits three seconds and not two. The backoff is reset by a
  clean close only: a channel that ends by errors waits a minute each time, however long it was up.
- A reader whose channel was left full stays there for ever (`cmd_ws.go:162`): `ReaderLeaves`
  says when. A session busy with a write lets the deadline pass although frames have come.
  `cmdWSActive` is published before the first heartbeat.
- The chat stays with the user of another device in two ways: the acknowledgement comes after another device
  was selected (`ui.go:1591`), or the device is changed by a session tab, which
  selects before `selectDevice` compares (`ui.go:633`, against the comment at `ui.go:675`).
  A second `chat:open` before the first acknowledgement leaves the first chat open.
- The close event of an older connection clears `remoteWs`, the tab's `ws` and the timer of
  a newer one (`ui.go:986`); Connect twice leaves the first connection running, as `LeftRunning`
  describes. A session that comes after its tab was closed runs on in a tab that is no longer
  shown: that tab still holds it, but nothing on the screen closes it. Signing out leaves the connections of background tabs open.
- Selecting a device in the tree leaves `remoteWs`, where input goes, with the old device.
  Switching to a tab while another pane is shown closes that tab's connection.
- All tabs share one handler, one decoder and one canvas: the init message of a background tab
  replaces the decoder of the one shown, and its frames are drawn.
- `SessionStore` saves after releasing its mutex, so an older copy can be written last
  (`proxy.go:52`). Frames that arrive right behind the upstream's 101 are lost with the
  reader that buffered them (`proxy.go:388`).
- The first message on a chat's pipe is taken for its init message: one sent between the
  accept and `SendInit` is swallowed (`chat_windows.go:212`).

## 6. Not modelled

- Adaptive bitrate: a multiplication next to its clamp, in one goroutine; that it may send a
  message is `Adapt` of `CrossStream`.
- The watermark window: one handle, which its own thread publishes and `hide` reads
  (`watermark_windows.go:147`).
- The client's proxy and session store: a handler per request over one small record; section 5
  has what was found reading it.
- Decoders (what `ui.go:635`, `:991` and `:1087` do with them, too), recording, annotation and
  scripts of the window, and `ObliReachViewer.tsx`.
- Two direct streams at the same time over the shared encoder globals, the captured
  monitor with its input offset.
- Pixels, audio samples, HTML, layout, the bytes of a WebSocket frame, and calls of
  Windows, macOS and Linux without state of the program's own: pure computation
  or I/O.
- Authentication and signalling of the relay: stateless. A request is accepted or
  rejected (`Upgrade`, `Reject`).
- Relay messages' contents: a frame is its sender, its kind and its number.
- Tokens shorter than eight bytes, for which the log line of `relay.go:118` panics.

## 7. Plan

Done: all the modules of section 2, their runs, and a theorem for every invariant and
refinement a passing run checks, and for three of its liveness properties. Then, in this order:

1. The liveness properties that count something down, with a prover that has temporal
   induction; and the `...CanStep` hypotheses, with one that expands `ENABLED`.
2. `Codec`, further: the captured monitor with its input offset, and two direct streams
   at once over the shared globals.
3. The decoders of the window as they are shared by its tabs, in `ClientUI`; the
   watermark and the client's session store, as parts of the modules whose threads they share.

Abstract specifications worth stating are the two there are, `Rendezvous` and
`StreamSession`.
