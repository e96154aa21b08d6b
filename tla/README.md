# TLA+ models of mqtt-viewer

mqtt-viewer is a desktop MQTT client in C: one UI thread runs a frame loop (`src/main.c`),
libmosquitto's network thread receives messages, an `ssh` child may carry the connection, and
an SQLite file keeps the history. These modules model the parts in which state, ordering,
concurrency and failure matter. Layout, drawing and wording are left out.

## 1. Inventory

| Component (source) | State | Operations | Interacts with | What is hard |
|---|---|---|---|---|
| Message queue (`model/spsc_queue.c`) | slots, `head`, `tail` | push, pop, drain, count | network thread → UI thread, no lock | reordering, stale indices, full and empty, wraparound |
| MQTT client (`core/mqtt_client.c`) | `conn_state`, `last_disconnect_rc`, `mosq`, stored filters, `pending_subs`, tunnel | connect, disconnect, subscribe, tunnel poll, status; callbacks on_connect, on_disconnect, on_subscribe, on_message | UI thread and network thread; atomics and `sub_mutex` | filters stored while the connection comes up; joining the thread; calls that fail half way; state left from the session before |
| SSH tunnel (`core/ssh_tunnel.c`) | child pid, local port | start, poll, stop | started by the client, polled every frame | child dies at any time; port given away between probe and use |
| History ring (`model/message_buf.c`) | slots, `head`, `count`, `generation`, payload blocks | push, clear, remove_topic, get | frame loop, views, database, CSV export | ownership of blocks during eviction and in-place removal |
| History persistence (`platform/db.c`, `main.c`) | `messages` table, `history_saved` | load, flush in batches, trim, delete topic | ring ↔ SQLite | positions computed from generations; failed statements; crash between two transactions |
| Topic tree (`model/topic_tree.c`, `main.c`) | nodes with own and subtree counts, display strings | insert, count, clear, destroy | drain loop, tree view, inspector, context menu | node pointers kept across frames; saturating counters; full nodes; throttled strings |
| UI handlers (`ui/*.c`) | selection, context menu, requests | clicks | set requests the next frame handles | a request outliving what it points to |
| Profiles and dialog (`ui/profile_dialog.c`, `model/broker_profile.c`, `platform/db.c`) | list of profiles, selection, focused field, shared buffers of the numeric fields, `profiles` table | edit, new, select, save, delete, connect, restart | client, database | buffers shared by all profiles; a focus that is an index; row ids and failed statements |
| Text editor (`ui/text_edit.c`) | none: bytes, caret and "all selected" belong to the caller | type, paste, delete, move, format, hit test | every dialog and panel | multibyte characters cut at a limit or by a caret |
| Publish panel (`ui/publish_panel.c`) | open, focus, two texts, one caret for both, `s_was_open` | open, close, type, click, publish | `main.c`, status bar, context menu and inspector open it and write the topic | a caret that belongs to the text of before; a panel closed behind its back |
| Connection log and panel (`model/connection_log.c`, `ui/log_panel.c`) | ring under a mutex, cached rows, selection | add, clear, refresh, select, copy | both threads | generation and rows read in separate critical sections |
| Charts (`model/chart_series.c`, `ui/chart_panel.c`) | samples, cached extremes, open interval | add, capture, draw, remove | drain loop, inspector | extremes after eviction and replacement; decimation |
| Tree filter and search (`ui/tree_widget.c`) | text, mode, match flag per node, result rows, frozen message | type, switch mode, clear, open or expand a result | tree, database, inspector | flags cached by text and topic count; two views that exclude each other |
| Inspector (`ui/inspector_widget.c`) | formatted lines, diff baseline and merged lines, history rows | draw a tab, expand a row | tree, ring, printers | three caches keyed by addresses, stamps and generations |
| JSON printer (`model/json_pp.c`) | cursor, depth, path, lines | run | inspector, charts | recursion over arbitrary input, cut at limits |
| Update check, About (`platform/update_check.c`, `ui/about_dialog.c`) | result under a mutex, unguarded buffers, worker thread | start, poll, worker steps | network | two workers on the same buffers; a check that never ends for the user |
| Filter matching (`model/subscription.c`) | none | `mqtt_topic_matches` | tests only | wildcards at the end, `$` topics |
| Allocators (`model/pool_alloc.c`, `model/arena_alloc.c`) | slabs, blocks | get, reset, destroy | tree nodes and their payload copies, row texts of a frame | a block used after its pool is gone |
| CBOR printer, CSV, widgets, theme | none that matters later | format, draw | | out of scope |

What makes each part correct is what section 3 lists as its properties; the hazards behind
them, each with its line in the source, are in `PROJECT.json`.

## 2. Modules

| Module | What it is |
|---|---|
| `SpscQueue` | the lock-free queue, every atomic access and both copies a step |
| `BoundedFifo` | its abstract specification: a bounded FIFO queue |
| `SpscQueueProofs` | TLAPS proofs, refinement included |
| `MqttClient`, `MCMqttClient` | client, its two threads, and libmosquitto, broker and ssh as far as the client sees them |
| `MqttClientProofs`, `HistoryProofs`, `TopicTreeProofs` | TLAPS proofs about the module of that name |
| `MessageBuf` | the history ring with slots and heap blocks |
| `RecordLog` | its abstract specification: the newest records in order, and a generation |
| `MessageBufProofs` | TLAPS proofs: memory safety and the refinement |
| `Subsequence`, `SubsequenceProofs` | the records of a sequence at given positions (`Kept`), the loops that filter or compact; what it keeps, by induction |
| `History` | ring, flush protocol and database through failures, crashes and restarts |
| `TopicTree`, `MCTopicTree` | the tree, the frame loop around it and the pointers of the UI |
| `Profiles` | profiles, their dialog and their table |
| `LogView` | the connection log and the panel that reads it row by row |
| `TreeFilter` | filter and search above the tree, and what they do to the inspector |
| `TextEdit` | the editor behind every text field, as operators on a field |
| `PublishPanel` | the panel with its two fields, and whoever opens it and writes into it |
| `SshTunnel` | the ssh child from its port to its end |
| `Charts` | one chart's series |
| `Inspector` | the caches the inspector draws from |
| `JsonPp` | the JSON formatter, on any input |
| `JsonReference` | what it should print for a well-formed document, for TLC |
| `UpdateCheck` | the update check's worker and the dialog that starts it |
| `MCParts` | the parts of the user interface side by side, for one run: `TopicTree`, `Profiles`, `TreeFilter`, `Charts`, `Inspector`, `UpdateCheck` |
| `MCFairParts` | those with liveness: `SpscQueue`, `LogView`, `SshTunnel`, `JsonPp` |
| `MCBuffers` | `MessageBuf` and `PublishPanel` |
| `WidgetProofs` | TLAPS proofs about `TreeFilter`, `Charts`, `PublishPanel` with `TextEdit`, `Profiles`, and the parts other threads and processes act on: `LogView`, `SshTunnel`, `UpdateCheck` |
| `InspectorProofs` | TLAPS proofs about `Inspector`, its line diff as an algorithm included, and `JsonPp` |

Each of these three has the variables of its modules and `part`, which says whose behaviour it is:
the other modules keep their initial state, so the state space is the sum of theirs and not the
product. They share no state that their properties are about; where one needs something of another
part it has its own abstraction of it (`Inspector` of the ring and the tree, `TreeFilter` of the
tree).

`History` uses `RecordLog`, the specification that `MessageBuf` is checked to implement, for
its ring: this is how the two compose. Definitions called `Mutant_...` are wrong versions of
the definition after them, each with a plausible slip; a property that would not notice its
mutant would say nothing about the code.

### How state and actions correspond to the code

**SpscQueue.** `head`, `tail` and `buffer` are the fields of `SpscQueue`. A thread reads its
own index exactly; the other thread's index is read through `headView` or `tailView`, which
advance in `PropagateHead` and `PropagateTail`: an acquire load returns the latest or an older
store, never one older than it returned before. `spsc_queue_push` is `PushBegin` (load, test,
start of the copy), `PushCopy`, `PushPublish` (release store); a failed push is `PushReject`.
`spsc_queue_drain` with its pops is `DrainBegin`, `PopBegin`, `PopCopy`, `PopPublish`,
`DrainEnd`. A slot under copy holds `Torn`.

**MqttClient.** Two program counters, `mpc` (UI thread) and `npc` (network thread). Each access
to an atomic and each critical section is a step; `on_connect` holds `sub_mutex` over a step
per filter. `mqtt_client_connect` is `ConnectTunnel`, `ConnectSetup`, `ConnectDial`,
`ConnectLoop`, each with the failures of its call; `mqtt_client_disconnect` and the tunnel poll
split at the join. The three loads of the status in `main.c` are three steps. External:
libmosquitto answers, loses and re-establishes connections (`Connack`, `Closed`, `Reconnect`,
`ThreadExit`, `LinkBreaks`), gives out message ids from 1 per instance, and the ssh child dies
(`SshDies`). Disconnect codes are 0 or 1, for "not 0".

**MessageBuf.** One action per function; the loop of `message_buf_remove_topic` is a step per
turn (`RemoveDrop`, `RemoveKeep`), because ownership depends on its loop invariant. Blocks are
elements of a finite heap `live`; a freed block may be handed out again.

**History.** `rows` is the table, `saved` is `history_saved`. `db_flush_history` is
`FlushBegin`, a `FlushBatch` per transaction, `FlushTrim`; its three callers are `FlushTimer`,
`ClearTopic` and `Quit`. Each statement may fail, and the code then does what the model does:
nothing about it. `Crash` may come between any two steps. Ghost variables: `forgotten` (when a
topic was cleared), `trimmed`, `failed`.

**TopicTree.** `tree` is the sequence of nodes in order of creation; a pointer is a node with
the number of the tree it was made in, so that one that outlives its tree is recognised. The pointers
are the selection, the context menu's target, the Clear History request and `measured`, the
`s_tpt_node` whose rate is measured. A frame
is drain, Clear History, disconnect, render, in the order of `main.c`; clicks are seen in
`Render` and handled a frame later. Display strings are modelled by the number or payload they
show, and a throttled refresh may happen or not at each message.

**Profiles.** A frame of the dialog is `FrameStart` (a changed selection refills the buffers) and
one input. A number in a buffer or a profile is modelled by the profile it was typed for, which
is all that "whose port is this" needs. `Shown` is the set of fields the dialog draws;
`db_save_profile`, `db_delete_profile` and `db_load_profiles` with the conversion of the
subscriptions to text and back are `Store`, `RowOf`, `RowSubs`, `Loaded`. Statements fail, the
database may not open, and `ProfRestart` loads what is stored.

**LogView.** Generation, count and each row are read in critical sections of their own, so each
is a step; `connection_log_add` comes between any two. Selections are logical indices, as in the
source.

**TreeFilter.** A step is a frame with at most one input, or an event between two frames. What the
full-text index answers is any list of rows.

**TextEdit.** A byte is a character of its own, the first of a longer one or a continuation. The
offsets are the source's. A field is a record of buffer, caret and "all selected";
`text_edit_update` gives the fields that a frame with at most one key may leave, after the clamp of
the caret that begins it.

**PublishPanel.** A step is a frame, in the order of `main.c`: a shortcut or a click elsewhere
first, then the panel, if it is open. `Opened` and `Focused` are the two places where the panel
looks at `s_was_open` and `s_pp_prev_field`; besides the editor and a click on a field, only
`Focused` moves the caret. `PublishHere` (context menu, inspector and Ctrl+P) writes the topic and
knows nothing of the caret. What it writes is what `topic_node_full_path` gives, which leaves out
a level that does not fit but may have one that `node_new` cut in a character (`NodePaths`), or
what `util_str_copy` gives, which cuts at any byte. `ShortcutCloses` is the Ctrl+P the panel does
not notice. The profile dialog and the filter line use the editor with carets of their own and are
not composed with it.

**SshTunnel.** Reserving the port, spawning, `waitpid`, the probe and the sleep are separate
steps of `ssh_tunnel_start`; between any two the child may listen or exit, and another process
take or release the port.

**Charts.** The ring is its content, oldest first. `offered` is a ghost: what came in the open
interval.

**Inspector.** `pp`, `diff` and `hist` are the static caches; a payload is the sequence of lines
it formats to, a line a depth and a text; the diff compares what `diff_format_line` makes of the
lines, which is cut at `DiffLineLen`, and draws the whole ones; addresses of nodes and payload blocks are used again after they are freed, as an
allocator may.

**JsonPp.** The recursion is a stack of frames, a step for each piece of code between two calls.
Its input is any sequence of tokens. `JsonReference` adds the document that an input is the text
of, and with `Text` and `LinesOf` the text of a document and the lines it should give; it is a
module of its own because `LinesOf` is RECURSIVE, and `JsonPp` is proved about.

**UpdateCheck.** The steps of the UI thread between lock, unlock, copy and `pthread_create`, and
those of every worker.

## 3. Runs

| Run | Instance | Shows |
|---|---|---|
| `threads` | see below | the queue is race-free, a bounded FIFO, and delivers; log panel, ssh child and JSON formatter |
| `mqtt_client` | 2 filters, 1 connect, 1 reconnect, every call may fail | the two atomics agree with the connection whenever no call or callback is under way; no filter lost between the threads; a SUBACK names its filter; the join returns; the status shown settles; a dead tunnel takes the client down |
| `buffers` | see below | the ring owns each payload exactly once and refines `RecordLog`; the panel's texts and caret stay whole |
| `history` | ring 3, batch 2, 2 rows kept, 1 loaded, 4 messages, 2 starts | rows once and in order; what counts as saved is in the table unless trimmed, cleared or in a batch that failed; cleared stays cleared; disk loses rows only for a reason; every message is saved in the end |
| `user_interface` | see below | the tree, its counts and the pointers to its nodes; profiles, filter and search, charts, inspector, update check |
| `suback_of_next_session` | 2 profiles, 2 connects | violated: finding 1 |
| `connecting_after_failure` | 1 connect | violated: finding 2 |
| `disconnect_code_reset` | 1 connect | violated: finding 3 |
| `disconnect_unsaved` | as `history`, nothing fails | violated: finding 4 |
| `failed_save` | as `history` | violated: finding 5 |
| `long_level` | 1 topic with a long level | violated: finding 6 |
| `burst_payload` | 1 topic, 2 messages, fair frame loop | violated: finding 7 |

**Why the bounds are enough.** Capacity 3 gives the queue four slots: it fills, wraps and has
both views lag with more than one store outstanding, and the proofs cover every capacity. The
client needs two filters for `on_connect` to be interrupted between them and one reconnect for a
lost connection; `MaxSubs` 2 lets `pending_subs` wrap. A second connect, for state left from a
session, is in `suback_of_next_session`; `AtomicsAgree` is proved for any number of them. The ring of 3 with a batch of 2 needs two batches for a full ring, evicts
before a flush, and with 2 rows kept and 1 loaded every flush of 3 trims and every restart
loads less than there is. Two children per node let the third be rejected at the root (a third
first level) and below it (a third child of one node);
among the seven topics are ones with empty levels, one that has none but those, and ones that
share a prefix. The panel's fields hold two bytes and five: a character that does not fit, a
paste that is cut, a payload that is displayed with "..." in place of its end, and a topic cut
within a character; nothing else bounds that run.

### The runs `threads`, `buffers` and `user_interface`

| Module | Bounds | Properties |
|---|---|---|
| `SpscQueue` | capacity 3, 2 messages, drain of 2 | `NoSlotRace`: no slot is read and written at once. `ImplementsFifo`: refinement of `BoundedFifo`. `EveryMessageDelivered` |
| `MessageBuf` | 3 slots, 2 topics, 4 blocks, 6 changes | `OneOwner`: each payload owned exactly once, none dangling, none leaked. `ImplementsLog`: refinement of `RecordLog` |
| `PublishPanel` | topic of 3 bytes with the NUL, payload of 6, displayed from 6; 2 clipboard texts, 3 paths, 2 topics too long | `TextIsWhole`: no step overflows a field, splits a character or puts the caret within one, but for three that are named |
| `TopicTree` | 7 topics, 2 children per node, 3 messages, 2 trees | `NoDanglingNode`. `SubtreeAddsUp`: counts add up. `BadgesLag`: badges lag but never lie. `OneNodePerTopic`. `RejectedLeavesNoTrace`: a rejected insert leaves no nodes |
| `Profiles` | 2 profiles, 3 subscriptions, 2 ever created, 1 edit | `PortsAreTheirOwn`: no profile is saved or connected with a number typed for another. `FocusIsShown`: the focused field is one that is drawn. `OneRowPerProfile`: a profile has at most one row, and its own |
| `LogView` | 3 entries, 2 rows shown, 5 changes | `LogViewMatches`: rows that count as current are the newest. `LogCatchesUp`: an open panel gets there |
| `TreeFilter` | 2 topics (3 nodes), 2 texts | `MarksAreFresh`: the flags the tree is drawn with are those of its text. `FrozenOrLive`: the inspector shows a stored message or a live topic, never both |
| `SshTunnel` | 2 probes, 3 children | `NoOrphanNoStalePid`: every child is waited for once, and no pid is used after that. `ForeignPortIsDropped`: a client that dialled another process's port does not stay |
| `Charts` | 3 samples, interval 2, window 6, times to 8, 3 values | `AxisFitsSamples`: the axis fits. `SpikesAreKept`: decimation keeps the farthest value |
| `Inspector` | 3 messages on 2 topics, 3 arrivals or disconnects, 2 diff lines of 2 bytes, 2 rows, ring 2 | `DiffIsExact`: what is drawn is the payload the node shows, and the diff a longest common subsequence of the lines as far as they are kept. `HistoryIsFresh`: rows and expanded payload are the ring's |
| `JsonPp` | documents nested twice with up to 2 items; every sequence of up to 4 of 10 tokens; 7 lines, depth 3 | `JsonLinesExact`: against the reference. `LinesNest`: whatever the input, the lines are a tree, with partners for brackets that are missing, crossed or too deep. `JsonEnds`: it returns for every input. `JsonProgress`: because each step lowers what is left |
| `UpdateCheck` | 3 checks | `OneCheckAtATime`: no two threads on the unguarded buffers, and "Checking..." exactly while one runs |

Each bound is where the case lies: the ring of 3 with 2 rows shown evicts under a reader, two
profiles are enough for a number to go astray, 3 samples with a window of 6 are evicted by age
and by number, 7 lines cut a document within a container, 2 diff lines cut a payload of 3, and 2
bytes of each make two different lines equal. Most parts end at their bounds, so `threads` and
`user_interface` do not look for deadlock.

Exceptions the properties make, because the code is so: `FocusIsShown` leaves out the SSH key
field, which keeps the focus when its section is folded (`profile_dialog.c:922` tests up to
`FIDX_SSH_PASS`); `MarksAreFresh` leaves out a tree that was freed and made again with the same
number of nodes while the search view was open; `SavedUnlessFailed` leaves out batches that
failed and `ClearedStaysCleared` a DELETE that failed (section 4 says what the repository
claims without the exceptions). `TextIsWhole` leaves out three steps that really split characters: a
click on the "..." of a cut display, whose offset is taken as one of the text; a topic put into
the topic field while the panel is open and has its caret there, which no one moves
(`context_menu.c:241`, `inspector_widget.c:1276`), or after Ctrl+P closed the panel with the
focus there (`main.c:152`); and a topic that is cut within a character when it is copied. Only the
step itself is left out: from a state with whole texts and a sound caret every other step leads to
one.

### Fairness

- Queue: the consumer, a push that has begun and the visibility of stores are weakly fair. The
  frame loop runs until the window closes, neither side takes a lock, and C11 makes stores
  visible in finite time. Nothing makes messages arrive.
- Client: the UI thread, callbacks, `Closed` and `ThreadExit` are weakly fair: callbacks block
  on nothing but `sub_mutex`, and libmosquitto's loop polls its socket. The user, the broker,
  the network, ssh and reconnecting are not fair.
- History: the timer and the calls of the frame loop. `EventuallySaved` is stated for a program
  that keeps running.
- Tree: the frame loop.
- Parts: the log panel's steps, the calls within `ssh_tunnel_start`, the poll of the tunnel and
  the formatter's steps, all of the UI thread; and ssh, started with `ExitOnForwardFailure=yes`,
  notices a port it cannot bind. Users, workers, children and messages are not fair.

## 4. Findings

1. **A SUBACK may be logged for a filter of an earlier session.** `mqtt_client_connect` resets
   `sub_count` but not `pending_subs`; message ids start at 1 again with each instance, and
   `on_subscribe` takes the first match.
2. **"Connecting" after a connect that failed.** `conn_state` stays `CONNECTING` on the failure
   returns of `mqtt_client_connect`, where no callback can come, against what `mqtt_client.h`
   says of `mqtt_client_is_connecting`.
3. **The disconnect code does not persist.** `mqtt_client.h` says a non-zero value persists until
   the next successful reconnect, and that it is 0 after a clean disconnect.
   `mqtt_client_poll_ssh_tunnel` resets it when the ssh child has died while the connection was
   lost: no reconnect, and nothing clean. (`RcPersists` leaves the reset of
   `mqtt_client_disconnect` out, which the comment allows, but not those of the poll and of a new
   connect.) `AtomicsAgree`, which the displayed status needs, relies on the resets: here the
   comment is what should change.
4. **Disconnect drops unsaved messages.** The handler clears the ring and marks it as saved
   without a flush, which Clear History and the end of `main` do.
5. **A batch that failed counts as saved.** `db.h` says that everything up to `saved` is on disk;
   `db_flush_history` does not look at the result of `db_save_messages`, and the batch is not
   tried again. (`SavedIsOnDisk` is the header's sentence, `SavedUnlessFailed` what the code keeps.)
6. **A level of 128 bytes or more never finds its node.** `find_child` compares the cut segment
   with the whole level; each message makes another node.
7. **The last message of a burst is not shown.** The payload snapshot is refreshed only by a
   message that comes a refresh interval after the last one taken.

These contradict a statement of the repository too. They can be read off the code, and the
properties above are stated as the code has it; they have no run of their own:

- `mqtt_client.h:81`: "Initiate a clean disconnect. The I/O thread keeps running."
  `mqtt_client_disconnect` stops and joins the thread and destroys its instance
  (`mqtt_client.c:362`). `JoinReturns` is about that wait, and `AtomicsAgree` about the state after
  it.
- `mqtt_client.h:100`, the rest of finding 3: `mqtt_client_connect` resets the disconnect code when
  the attempt begins (`mqtt_client.c:232`), not when it succeeds.
- `main.c:251`: on Clear History "ring, persisted rows and node counters must all agree". The
  result of the DELETE is ignored (`main.c:259`): when it fails the rows stay and are back after a
  restart. `ClearedStaysCleared` is about a DELETE that went through.
- `publish_panel.c:49`: "reset to topic field when panel first opens". The reset hangs on
  `s_was_open`, which only the panel's own ways of closing reset: after Ctrl+P (`main.c:156`) the
  panel opens with the field and the selection it had.
- `inspector_widget.c:162` calls what `diff_format_line` makes of a line its "stable text
  identity". It is cut to `DIFF_LINE_LEN` bytes, and lines can be twice as long: a change behind
  byte 191 has no mark. `DiffIsExact` speaks of lines as they are kept.
- `src/README.md:9`: "a diff view against the previous message on a topic". The baseline is kept
  for the node's address (`inspector_widget.c:397`); after a disconnect that may be the address
  of another topic's node. `DiffIsExact` takes the baseline as it is.

Also seen, without a statement in the repository that it contradicts:

- `broker_id` of a stored message is that of the profile selected in the dialog, not of the one
  connected (`main.c:208`); nothing reads it back so far.
- A DELETE of a profile that fails leaves its row, and the profile is back after a restart.
- Numbers typed into a profile and not saved are lost when another one is selected, text is not.
- A selection in the log is by logical index: it moves over the entries once the ring is full.
  A copied selection is cut at the size of its buffer.
- A message that does not refresh the display is compared with itself in the diff and wipes the
  highlights.
- The caret of the publish panel may be left within a character, and the topic may end in half of
  one, by the three steps `TextIsWhole` names.
- Keys with a dot, empty keys and paths longer than the buffer make dot paths ambiguous
  (`json_pp.c:190`).
- Closing the frozen inspector with Escape leaves the search row expanded.

## 5. Proofs

TLAPS checks these for every value of the constants that the `ASSUME`s of the modules allow:
every capacity and limit above 0, every set of messages, topics, blocks and profiles, and any
bound on the number of events. The bounds in the guards (`MaxConnects`, `MaxMessages`, ...) are
arbitrary numbers there, so no theorem depends on how many events there are.

A table of what is proved comes first, the arguments after it.

| Module | Theorems, and the properties they state |
|---|---|
| `SpscQueueProofs` | `RaceFreedom` (`NoSlotRace`), `NoTearing`, `SafeViews`, `Refinement` (`ImplementsFifo`) |
| `MessageBufProofs` | `PayloadsHaveOneOwner` (`OneOwner`), `Refinement` (`ImplementsLog`) |
| `MqttClientProofs` | `AtomicsAlwaysAgree` (`AtomicsAgree`), `SubscriptionsReachBroker` (`NoLostSubscription`), `FirstAcksNameTheirTopic` (`AckNamesItsTopic`, up to the second connect) |
| `HistoryProofs` | `RowsStayInOrder` (`RowsInOrder`), `MissingRowsFailed` (`SavedUnlessFailed`), `ClearIsFinal` (`ClearedStaysCleared`), `RowsAreKept` (`DiskKeeps`) |
| `TopicTreeProofs` | `PointersAreSound` (`NoDanglingNode`), `CountsAddUp` (`SubtreeAddsUp`), `BadgesOnlyLag` (`BadgesLag`), `RejectionsLeaveNoTrace` (`RejectedLeavesNoTrace`), `TopicsHaveOneNode` (`OneNodePerTopic`, if every level fits) |
| `WidgetProofs` | `FrozenViewsExclude` (`FrozenOrLive`), `MarksStayFresh` (`MarksAreFresh`), `AxisAlwaysFits` (`AxisFitsSamples`), `SpikesStay` (`SpikesAreKept`), `TextStaysWhole` (`TextIsWhole`), `NumbersStayWithTheirProfile` (`PortsAreTheirOwn`), `FocusStaysOnTheForm` (`FocusIsShown`), `ProfilesHaveOneRow` (`OneRowPerProfile`), `LogPanelShowsTheLog` (`LogViewMatches`), `SshChildAnsweredFor` (`NoOrphanNoStalePid`), `UpdateChecksExclude` (`OneCheckAtATime`) |
| `InspectorProofs` | `RowsAreFresh` (`HistoryIsFresh`), `DiffsAreExact` (`DiffIsExact`), `FormatterProgresses` (`JsonProgress`), `LinesFormATree` (`LinesNest`) |

**`SpscQueueProofs`**, from `Capacity \in Nat \ {0}`, `Torn \notin Elements` and
`DrainMax \in Nat \ {0}`. `NoSlotRace` and `NoTornPop` (no pop returns a message half copied)
are not inductive: the inductive
invariant adds that the views are at or behind the indices in ring order (`ViewsAreSafe`), that
a copy in progress implies the test it followed, and that every slot between `head` and `tail`
holds a message. The remainder of the index is removed once, in `IncStep`; `CountIncTail` and
`CountIncHead` say what a store does to the number of elements. `Refinement` maps `PushPublish`
to `Enqueue`, `PopCopy` to `Dequeue` and every other step to a stutter.

**`MessageBufProofs`**, from `Capacity \in Nat \ {0}` and `Null \notin Blocks`. The three parts
of `OneOwner` (allocated, not shared, not leaked) are inductive only together: dropping a record
keeps the others' blocks only if none is shared, and clearing empties the heap only if nothing
was leaked. They speak of the *held* positions, those kept and those still to be looked at, so
they hold within the loop of `message_buf_remove_topic` too, where a moved record's old slot
still has its pointer. `SlotsApart` and `SlotsTurn` do the arithmetic of the ring.
`Refinement`: the removal of a topic takes effect, in the log, with the call. During the loop
the log is what has been kept and, of the positions not yet looked at, the records of other
topics; `changes` is ahead of `generation` for as long. So `RemoveBegin` is the log's removal
and every turn of the loop a stutter (`DropLogs`, `KeepLogs`), for which the proof follows one
record from the front of the second part to the end of the first (`StretchTail`,
`StretchMore`, `OthersCons`).

**`MqttClientProofs`**. `Inv` says, besides the types, which pairs of places the two threads can be
at and what the wire can be in each (`Phases`), what each atomic holds at each place (`Atomics`),
that the stored filters are the first ones of the profile (`StoredArePrefix`), and that each
stored filter has been sent on the connection that is up, but for the one `mqtt_client_subscribe`
has at hand and those the loop of `on_connect` still has to come to (`StoredAreSent`). The last is
`NoLostSubscription` made inductive: it says of every intermediate place who is still responsible
for a filter.
`FirstAcksNameTheirTopic` needs that message ids are given out once (`FreshIds`), which is true
until a second instance counts from 1 again; the run `suback_of_next_session` shows that the
condition `connects <= 1` cannot be dropped.

**`HistoryProofs`**. `RowsInOrder` is not inductive, for a batch is appended to the table:
`UnsavedAreNewer` says that what is unsaved is newer than all that is or was stored. That a flush
works on the right records is `Window`, that what was trimmed is older than every row is `Dated`,
and `RingCleared` covers the ring between the DELETE and the removal. Every
statement may fail in every step of these proofs, and the process may be killed before each.

**`TopicTreeProofs`**. `TreeInv` is of a tree and not of a state, so that it can be followed
through `Walk`, which makes a node a level: parents before children (`Shape`), own counts and those
below add up (`AddsUp`), displayed numbers (`Lag`). `CountedInv` and `ClearedInv` show that adding
1, and subtracting a node's own count, along the path to the root leaves `AddsUp` true; they need
that the path contains exactly one child of each of its nodes but the last (`PathIsChain`), and
sums over all nodes (`SumShift`). `PointersAreSound` adds that each of the pointers is null or to a
node of the tree of now (`Sound`), and that when the tree is destroyed only the selection and
`measured`, which are reset with it, point into it: Clear History is handled before it in the
frame, and the click on Disconnect has closed the menu. `TopicsHaveOneNode` is under
`LevelsFit`, that no level is cut; the run `long_level` shows the failure without it.

**`WidgetProofs`**. `MarksAreFresh`: a tree that was not replaced only grows, so that equal
numbers of nodes mean equal sets (`Cached`). `AxisFitsSamples` and `SpikesAreKept` need the
spacing of samples and the open bucket's reference and peak (`ChartInv`). `TextIsWhole`: cutting
and joining at boundaries gives whole characters (`CutWhole`, `JoinWhole`), and every operation of
the editor finds boundaries, the loops over continuation bytes by the least-number argument. For
the panel the caret is that of the field the next frame works on, after its change of focus and
its clamp: a step that changes field or text without moving the caret is sound only if that frame
moves it. The dialog's
three share `ProfInv`: entries, rows and keys are tied (`Tied`), and the buffers and the focus
are those of the selected profile unless the selection has changed and `FrameStart` has not run.
`LogViewMatches` needs that the rows read so far are the newest as long as the generation read
before them is still the log's (`ReadingNewest`); `NoOrphanNoStalePid` that `ssh_tunnel_start`
runs only when no tunnel is up, and waits for one child (`StartingAlone`); `OneCheckAtATime` is
proved without counting: a worker or a starter at work excludes every other (`ChecksExclude`).

**`InspectorProofs`**, the caches. Addresses are used again but time stamps and generations are
not, so that a cache with the stamp of a node or a record has its lines (`ViewInv`).

**`InspectorProofs`**, the diff. `diff_compute` is two recursive functions over the pairs of a
table, for two texts of any length. `OverTable` is induction over it, for a set of pairs. With it
both functions are shown to have the values their loops compute (`DpRecursion`, `BackRecursion`);
an entry is at least the length of every common subsequence of the first i and first j lines
(`DpBounds`) and is the length of one (`DpReached`), so it is that of a longest (`LcsIsDp`). The
loop back through the table gives, for every entry, a merge that has the lines of both texts each
once and in order, and as many unmarked lines as the entry says (`Merges`, `BackMerges`). `DiffInv`
then says of the state that the cached merge is that of the payload shown and the one before it, of
the same node, which with `ViewInv` is `DiffIsExact`. The algorithm's lemmas are about any two
sequences; `DiffsAreExact` uses them for the lines as `diff_format_line` keeps them. It says nothing
of lines that differ behind that, and "the same node" is the same address (section 4).

**`InspectorProofs`**, the formatter. `CursorInv` says that the cursor is within the input or one
behind it and that every container but the innermost began before the cursor, the innermost one
perhaps at it. The measure `Remaining` counts a token at which a value made no progress as read,
because the container steps over it (`PastValue`, json_pp.c:94); each action has a lemma
(`ValueStep`, `OpenStep`, `ReturnStep`, `NextStep`, `EndStep`, `RunEndStep`). For `LinesNest` the
invariant `LineInv` says that every container on the stack has the line that opened it, with its
kind, depth and path and only deeper lines since (`Entered`); that as long as there is room every
opening line is closed or belongs to a container on the stack (`Paired`), and the next line goes
where the stack says (`AtDepth`); and that at the head of a container's loop the path is the one it
was opened with. These speak of a sequence of lines and a stack, not of a state, so that one lemma
says what one more line does (`TreeGrown`, `EnteredGrown`, `PairedGrown`) and one what a comma
does (`AllAlike`).

**How induction is done.** The library's induction rules take a predicate, which the provers cannot
instantiate. `SubsequenceProofs` derives from the well-foundedness of `<` that a set of numbers
that is not empty has a least one (`Least`), and induction for sets of numbers (`UpTo`); with it a
recursive function is shown to have a value (`KeptRecursion`, `SumRecursion`, `WalkRecursion`,
`PathRecursion`, `DpRecursion`, `BackRecursion`) and what it computes is shown one step at a time. For this the models filter
with `Kept` and sum with `SumUpTo`, recursive functions, where `SelectSeq` and folds would take an
operator.

**Only model-checked.**
- Liveness, as fairness and `ENABLED` are outside of this prover's reach: `EveryMessageDelivered`,
  `JoinReturns`, `ShownSettles`, `TunnelDeathTearsDown`, `EventuallySaved`, `LogCatchesUp`,
  `ForeignPortIsDropped`, `JsonEnds`. Of the last, the reason is proved: `JsonProgress`.
- `JsonLinesExact`: its reference, `LinesOf`, is a RECURSIVE operator, without which documents
  could not be nested. What holds of every input, well-formed or not, is proved: `LinesNest`.
- `AckNamesItsTopic` after the second connect is false (finding 1).

`TypeOK` of the queue, the ring, the client, the history and the tree is proved.
`NoTornPop` and `ViewsAreSafe` are proved only: `ImplementsFifo` and `NoSlotRace` would not hold
in the runs without them.

## 6. Assumptions of the models

- The clock does not go back; loading and trimming order rows by time.
- SQLite transactions are atomic and durable. `db_save_messages` ignores the results of BEGIN and
  COMMIT (`db.c:422`, `db.c:450`); a batch whose COMMIT fails is taken as rolled back, which is
  the same step as one whose INSERT fails. A COMMIT that fails and leaves the transaction open is
  not modelled.
- `mosquitto_loop_stop` with force cancels the network thread only while it waits for the
  network or for the reconnect delay, not within a callback.
- Memory is not exhausted: `malloc` returns a block.
- Counters of 32 and 64 bits do not overflow.
- A layout belongs to the state it is clicked on: a person's two inputs have a frame in between.
- Two messages drained for the same topic have different time stamps (`Inspector`).

## 7. Plan

1. Done: queue, client, ring, history, tree; proofs for queue and ring.
2. Done: profiles, connection log, tree filter and search, publish panel, ssh child, charts,
   inspector caches, JSON printer, update check.
3. Done: proofs for the client, the history, the tree and the smaller parts; the refinement of the
   ring; the line diff as an algorithm, and the formatter on every input.
4. Open: type invariants of the parts as theorems where a proof has them as lemmas only; the
   CBOR decoder, whose lines should satisfy `LinesNest` too.

### Not modelled

- Drawing, layout and theme: they change no state that a later frame reads, other than the clicks
  the modules have as inputs.
- The CBOR decoder: a parser of bytes with the same line and depth limits as the JSON printer;
  a faithful model would be as long as the code.
- `mqtt_topic_matches`: pure, called only from its tests.
- The allocators: bookkeeping of slabs that are freed only as a whole; that no node outlives its
  tree is `NoDanglingNode`.
- CSV export: reads the ring and writes a file.
- Of the publish panel, QoS, retain and the publishing itself: `mqtt_client_publish` changes no
  state of the client, and the panel closes whether it succeeds or not.
- Window settings, the building of the search index, file paths.
