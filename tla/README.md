# Pure Data in TLA+

A verification development for the Pure Data (Pd) engine under `src/src/`.
It models the parts of Pd in which several threads, the scheduler and user
patches meet, model-checks them on small instances with TLC and proves the
safety properties that matter most with TLAPS for every value of the constants.

Paths such as `d_soundfile.c:1758` are relative to `src/src/`; `src/tcl` and
`src/ceammc` are beside it.

## 1. Inventory: the system and its components

Pd is a real-time dataflow engine. One *main thread* runs everything that
patches see: messages, clocks and DSP ticks (`m_sched.c`). Around it are the
audio callback thread of the sound API (`s_audio_pa.c`), one *child thread* per
sound file object (`d_soundfile.c`), the host's threads when Pd is embedded
(libpd: `z_*.c`), the Tcl/Tk GUI process behind a socket (`s_inter.c`), a
watchdog process (`s_watchdog.c`) and network peers (`x_net.c`).

| Component | Source | State it keeps | Operations | What is hard |
|---|---|---|---|---|
| readsf~ | `d_soundfile.c` 1580-2260 | mailbox `x_requestcode`, fifo indices, EOF flag, descriptor | open, start, stop, dsp, perform, free; the child thread | two threads, two condition variables, requests overtaken by newer ones, I/O with the mutex released |
| writesf~ | `d_soundfile.c` 2260-2740 | the same structure, the other way round | open, start, stop, perform, free; the child thread | the same, plus write errors and closing with data left |
| soundfiler | `d_soundfile.c` 1060-1570 | none between messages | read, write, resize | parsing, I/O; sequential |
| Clocks and scheduler | `m_sched.c` | list of set clocks in time order, logical time, quit flag | set, delay, unset, free, setunit, tick, polling and callback loops | callbacks that set, unset and free clocks while the list is being served |
| PortAudio FIFO | `s_audio_paring.c`, `s_audio_pa.c` | read and write index modulo twice the size | read, write, flush; callback and poll side | lock-free, one producer and one consumer |
| libpd queue | `z_ringbuffer.c`, `z_queued.c` | ring buffer of variable-size messages | hooks that enqueue, a poller that dispatches | lock-free, partial writes, full buffer |
| Symbol bindings | `m_pd.c` | bind lists, stack of "current" objects | bind, unbind, typed dispatch, find by class | unbinding inside a dispatch |
| Undo queue | `g_undo.c` | doubly linked list of actions, current and last | add, undo, redo, rebranch, free, dirty tracking | long legal sequences, actions that fail |
| DSP graph | `d_ugen.c`, `g_io.c` | signals with reference counts and free lists, the sorted chain | build, sort, reuse, borrow, block~, suspend/resume | early return on errors, reuse order |
| Main loop and audio settings | `m_sched.c`, `s_audio.c` | `sys_quit`, which scheduler is to run, the open device and its settings | both schedulers, the callback's tick; open, close, reopen | two threads and one lock; a device that is closed waits for its callback |
| MIDI | `s_midi.c` | timed input and output queues | enqueue, flush, poll | ordering by time, wrap-around |
| GUI connection | `s_inter.c` | the redraw queue, the outgoing buffer, the bytes since the last ping | queue, unqueue, send, poll, ping; stop and start the GUI | pointers to widgets that may be deleted, a GUI that is slow or gone |
| Networking | `x_net.c`, `s_net.c` | sockets, receive buffers | connect, listen, poll, send | partial messages, objects freed in callbacks |
| Timing objects | `x_time.c` | a clock and its target | delay, metro, line, pipe, timer | clocks freed from their own callback |
| Message objects | `x_list.c`, `x_connective.c`, `x_arithmetic.c`, `x_midi.c`, ... | small local state | one method per inlet | sequential |
| Parser and files | `m_binbuf.c`, `x_text.c`, `g_readwrite.c`, `g_template.c` | binbufs, templates | parse, eval, save | conversions, sequential |
| Editor and GUI objects | `g_*.c`, `src/tcl/` | the patch as displayed | editing, drawing | user interface |
| Loader | `s_loader.c`, `s_path.c` | list of loaded libraries | load | file system |
| Watchdog | `s_watchdog.c`, `s_inter.c` | a pipe | ping | other process |
| CEAMMC externals | `src/ceammc/` | one C++ object each | many | a library of independent objects |
| Vendored libraries | `src/portaudio`, `src/portmidi`, `src/asio` | | | third party |

**Interactions.** Every method of an object runs in the main thread (or the audio
thread in callback mode) under `sys_lock`: messages are calls, so a component that calls an
outlet or a clock's function may be re-entered by what that call does. The scheduler
calls clocks, then the DSP chain (`dsp_tick`), whose perform routines are where
readsf~ and writesf~ meet their child threads; the audio driver's `send_dacs`, called
by the main loop, is where the main thread meets the audio thread and where it
sleeps, polling the GUI meanwhile.

**What makes each modelled component correct.**

* readsf~: the samples played are those of the file opened last, all of them and
  in order; descriptors are closed; neither thread sleeps for ever; destruction ends.
* writesf~: the file holds what was put in between start and stop, and its
  header says so; open, perform and destruction end.
* Clocks: a clock rings once at its time, earliest first and in the order of
  setting among equals, whatever callbacks do; time is monotone and on the grid of ticks.
* PortAudio rings: blocks arrive whole and in order, next to none is lost, and the main
  thread always comes back from `send_dacs`.
* DSP graph: when the chain runs every object reads the sum of what its inlets are
  connected to, although vectors are lent through subpatches and used again as soon as
  their readers are on the chain; exactly the boxes in or behind a loop are left out;
  every vector comes back.
* Undo queue: the patch is what the queue says; undo and redo go by whole sequences; a
  window that is not marked as changed holds what was saved.
* libpd queue: what the host is handed are whole messages in the order they were sent,
  and only those that did not fit are missing.
* Symbol bindings: a message goes to everyone who is bound, once, and bindings that
  change on the way do not take the delivery astray.
* Main loop and audio settings: a device is closed only where its callback can end, and
  buffers are replaced while none is under way; the settings chosen last come into
  effect, served by the right scheduler; logical time goes on with any device or none.
* GUI connection: nobody who was deleted is called; what the windows show is in the end
  what is, and in the meantime a slow GUI is not swamped.

## 2. Modules

| Module | Models | Extends / instantiates |
|---|---|---|
| `ReadSf` | readsf~: DSP thread and child thread | |
| `MCReadSf`, `ReadSf_*.cfg` | its instances | `ReadSf` |
| `ReadSfProofs` | its theorems | `ReadSf`, `TLAPS` |
| `WriteSf`, `MCWriteSf`, `WriteSf_*.cfg`, `WriteSfProofs` | writesf~, in the same way | |
| `Alarms` | what the scheduler promises: a first-in-first-out queue of alarms per instant | |
| `Sched` | the clock list and `sched_tick`, and the mapping under which it implements `Alarms` | INSTANCE `Alarms` |
| `MCSched`, `Sched_*.cfg` | its instances | `Sched` |
| `SchedProofs` | the theorems of the scheduler, the refinement of `Alarms` included, and of the main loop that runs it | `Sched`, `MainLoop`, `TLAPS` |
| `PaRing` | the lock-free ring buffer, as operators | |
| `PaFifo` | the two threads of PortAudio's pretended blocking mode over two such rings | `PaRing` |
| `MCPaFifo`, `PaFifo_*.cfg` | its instances | `PaFifo` |
| `AudioProofs` | theorems of the rings (how many blocks, and which) and of the sort of the chain that makes the blocks | `PaFifo`, `UgenGraph`, `TLAPS` |
| `MainLoop`, `MCMainLoop`, `MainLoop_*.cfg` | the main loop, the device's callback and the audio settings | |
| `SignalPool` | the pool of signals of the DSP graph, as operators on a record | |
| `UgenGraph` | the sort of the graph, subpatches included | `SignalPool` |
| `UgenMeaning` | what the objects of a sorted graph should hear, by the connections alone | `UgenGraph` |
| `MCUgenGraph`, `UgenGraph_*.cfg` | the instances: a patch with a subpatch in all its wirings | `UgenMeaning` |
| `Undo`, `MCUndo`, `Undo_*.cfg` | the undo queue of a window and the editor as its client | |
| `UndoProofs` | its theorems | `Undo`, `TLAPS` |
| `LossyQueue` | what a libpd queue promises: a bounded queue that loses what does not fit | |
| `LibpdQueue` | the lock-free ring, the hooks and the receiver | INSTANCE `LossyQueue` |
| `MCLibpdQueue`, `LibpdQueue_*.cfg` | its instances | `LibpdQueue` |
| `LibpdQueueProofs` | its theorems | `LibpdQueue`, `TLAPS` |
| `BindList`, `MCBindList`, `BindList_*.cfg` | what is bound to a symbol, under deliveries | |
| `BindListProofs` | its theorems | `BindList`, `TLAPS` |
| `GuiQueue`, `MCGuiQueue`, `GuiQueue_*.cfg` | the redraw queue and the flow control of the GUI | |
| `GuiQueueProofs` | its theorems | `GuiQueue`, `TLAPS` |

Definitions marked `\* mutant` are not part of a model: each is the form a
definition would have with a plausible bug, and is there to show that a
property notices it.

### 2.1 ReadSf: a sound file read ahead by a child thread

*Code.* `readsf_open/start/stop/dsp/perform/tick/free` and `readsf_child_main`,
`d_soundfile.c:1580-2260`. The parent (the thread that runs messages and DSP)
and the child share the fields of `t_readsf` under one mutex; the parent posts
requests in the one-place mailbox `x_requestcode`, each thread sleeps on a
condition the other signals.

*State.* One variable per field (`x_requestcode` is `request`, `x_fifohead` is
`head`, ...), a program counter per thread (`ppc`, `cpc`), the child's local
copies (`csf`, `cfile`), the `read()` under way (`rhead`, `rwant`, `rgot`), and
the outside world: the open descriptors, the file position. History variables
number the calls of `open` (`gen`, `cgen`), count what was `played` and say whether an older open has
written its format or its failure over what the newest one stored (`overruled`).

*Steps.* One action is one critical section of the parent, or one stretch of the
child from one point where it gives up the mutex to the next. Between two
actions the child holds the mutex exactly when `cpc \in Holding`, and the
parent's actions that lock need `MutexFree`. Opening, `read()` and `close()` are
where the child lets go: `ChildTakesOpen` / `ChildOpens`, `LoopReads` /
`ReadReturns` / `ReadArrives`, `LostWithFile` / `LostCloses`. A condition wait is
two actions, going to sleep and waking; a signal nobody waits for is lost;
spurious wake-ups may happen and are never relied on.

*Data.* The fifo is modelled byte by byte, each byte a pair of the file
generation it was read from and its position, so that "the right bytes" is a
statement about positions. Formats are reduced to the frame size, whether the
header is detected, and the bytes left.

### 2.2 WriteSf: the same, the other way round

*Code.* `d_soundfile.c:2260-2740`. The parent moves the head, the child the tail;
the child creates the file, writes blocks of at most `WRITESIZE`, finishes the
header and closes. `open` waits for the child to be idle (`opencheck`,
`openwait`), which blocks the scheduler.

The contents of each file (`disk`) and the frame count of its header (`header`)
are state, so that what a stopped recording holds can be compared with what was
put in. The recordings that go wrong are not left out: the step that spoils one puts it in
a history, and the properties promise nothing of it from there on. `spoilt` are those in which a tick
filled the fifo while the tail was 0 (`FillsUp`: full is taken for empty) or ran over the end of a
fifo that does not divide into ticks (`RunsOver`); `overtaken` those that were stopped, replaced or
freed before the child had their file in `x_sf`. Section 5 says what becomes of them.

### 2.3 Alarms and Sched: logical time

*Code.* `m_sched.c:33-263` and the places where a tick may start
(`m_sched.c:333-338`), is asked to stop (`215-218`) and the audio restarts
(`426-444`).

`Alarms` knows no list, tick or unit: an alarm is armed for an instant and joins
the queue of that instant, is disarmed, rings when it is first in the queue of
the present, and time advances to an instant only if nobody is left before it.
`Sched` is the code: the linked list in order of time, insertion before the
first later clock, `clock_setunit` with its sign convention, the tick with its
loop, the countdown after which the GUI is polled, the early return on
`sys_quit`. `Sched!Promise` maps the queue of instant *t* to the part of the
list that is due at *t*; `KeepsPromise` is that `Sched` implements `Alarms`.

Client code may do anything with any clock, in a callback, in a message the tick
polls from the GUI, in `dsp_tick` and between ticks; that is what `phase` says.

### 2.4 PaRing and PaFifo: two threads without a lock

*Code.* `s_audio_paring.c`, and `s_audio_pa.c:181-243, 427-489, 491-677` as built
by default (FAKEBLOCKING, no THREADSIGNAL).

PortAudio's thread runs `pa_fifo_callback` for each `FramesPerBuf` blocks: if the
output ring has that many it takes them and puts its input in the other ring,
and otherwise plays silence and touches neither. Pd's main thread, in
`pa_send_dacs`, puts one block of output, waits for a block of input and takes
it. A transfer is three steps: look at the other thread's index and decide how
much, copy, store one's own index. The steps of the two threads interleave
freely. `StoresInOrder` says whether a copy is visible before the index that
covers it: the code has no barrier and `PA_VOLATILE` is empty, so this is an
assumption about the build.

A block's contents are the value of the write index when it was accepted, so
that `BlocksInOrder` can say that a reader finds the block that belongs there.
Sizes are in blocks of `DEFDACBLKSIZE` frames; both threads transfer multiples of
it as long as `framesperbuf` is one.

### 2.5 SignalPool, UgenGraph and UgenMeaning: the DSP graph is sorted

*Code.* `d_ugen.c:380-1184` and the signal inlets and outlets of subpatches,
`g_io.c:135-260, 450-571`.

`ugen_doit` puts a box on the chain, gives its input vectors back to the pool, takes
output vectors from it, and goes on to every box whose last inlet it has filled;
a subpatch is done by sorting its own window in its place (`ugen_done_graph`), with
"borrowed" signals for its inlets and outlets where nothing needs to be copied.
The recursion of the two is the variable `stack`: `DoitBox` and `EnterCanvas` are
`ugen_doit` up to the end of the `dsp` method, `PassOn` is one turn of its loop over
connections, `StartAtRoot` and `EndSort` are the loops of `ugen_done_graph`. The order
of boxes and of connections is that of editing, hence any: the loops take any next one.

The pool is a record: signals with count, vector, size and lender, a free list per
size, a free list of borrowed ones, and `bug` for the messages of `signal_makereusable`, whose
recursion along the lenders is a fold over the signals it frees (`FreedWith`), the last lender first.
Because the chain is appended to in the order in which it will run, the contents of
a vector (the bag of the object outputs summed in it) can be kept with the sort:
`heard` is what each object will find in its inlets when the chain runs to it.
`MeantIn` (`UgenMeaning`) is the definition of what it should find, by the connections alone.
Which boxes should be sorted at all is defined without an algorithm: `SettledIn(w)` is the smallest
set of boxes of a window with every box all of whose sources are in it, `ReachedWindows` the smallest
set of windows with `Top` and every window whose holder is settled in a window of the set.

### 2.6 Undo: the undo queue of a window

*Code.* `g_undo.c:114-388` and the editor's use of it: edits (`g_canvas.c:626-644` is one
that looks at `u_doing`), typing (`g_editor.c:150-200, 3078-3089`), sequences
(`g_editor.c:4020-4056` is one), saving.

The queue is a sequence, `u_last` and `u_cleanstate` are places in it. The patch is the edits that
are applied and the order they were applied in, as one relation: the pairs of an edit and another applied no
earlier (each edit is paired with itself). An edit calls `canvas_dirty` or not (`marks`): the font dialog and
connecting or disconnecting what is selected record an action and leave the flag alone. `InTurn` reads it off a stretch of the queue, `AndThen`
applies more edits on top of a patch and `Without` takes some back. Two actions belong together when
as many sequences begin as end between them (`Nested`, `Balanced`). A text that was typed is recorded
when its box is deselected, as one sequence (`TypedActions`).

`canvas_undo_add` frees what was undone *after* it has allocated the new action, and never looks at
`u_cleanstate`: `take` says which of the new actions, if any, is given the address `u_cleanstate`
still has, which the first can be only if that action was freed earlier. Three things the code lets happen behind the queue's back are
kept in `strayed` (an edit that is not recorded because `u_doing` was left set; a
refused part of a sequence; a redo in the middle of typing). `aliased` is that an action was given the
address `u_cleanstate` still had, `unmarked` that the editor changed a window which is not marked as
changed and left it so, until saving, undo or redo set the flag again. The
invariants hold until then, and section 5 says what happens afterwards. The `CONSTRAINT Followed` of `MCUndo`
stops following a window once it has strayed: the invariants promise nothing of such windows.

### 2.7 LossyQueue and LibpdQueue: messages for the host

*Code.* `z_ringbuffer.c`, `z_queued.c`.

The hooks run in Pd's thread and drop a message that does not fit; otherwise the words are
copied (`CopyIn`) and shown with one swap of `write_idx` (`Publish`). The host's thread takes
everything there is (`Count`, `Check`, `CopyOut`, `Free`) into `temp_buffer` and calls a hook for each
message, finding the next one by the count in the header (`Dispatch`). The unit is a word
that knows its message and its place in it; a header's `argc` is the `args` of the word
that is found where a header should be, whichever word that is. `LossyQueue` knows
messages only, each with its number, so that the queue is a set of which the oldest has the
smallest number, and the room it takes is the number of its words; `LibpdQueue!Promised` maps the
headers in the ring to `waiting` and those left in `temp_buffer` to `batch`. A message counts as
offered when it is published or dropped. `KeepsPromise` includes that every message which was
accepted is handed over.

### 2.8 BindList: who gets a message

*Code.* `m_pd.c:57-189`.

A symbol's `s_thing` is nothing, a thing or a list of at least two. The loops of
`bindlist_bang` and the five others are one: `stack` holds the element each delivery stands at,
and `Return` reads its `e_next` when the call made there comes back. Between two steps
the thing that was called, or whoever it called, may `Bind`, `Unbind` and `Send`. An
element that was freed may be another one by then (`Addrs` are taken again), or
hold anything: the zero `pd_unbind` left or what the allocator wrote. `Chain` says that the
links from an element lead through a given sequence of things; it is stated element by element
(whichever holds the i-th thing leads to the next), not by following the links.

### 2.9 MainLoop: who runs the ticks, and who may close the device

*Code.* `m_sched.c:214-263, 295-444`, `s_audio.c:265-443, 696-803` and the messages that reach
it: the settings dialog, another API or none, preferences, DSP on and off
(`g_canvas.c:1425-1441`).

A device is *polled* (`PaFifo`'s mode) or *calls back* and runs the ticks itself, in its own
thread, under `sys_lock`. Settings are opaque but for that. There is one variable per
field; `mpc` and `cpc` are the places of the two threads, `lock` says who holds
`sys_lock`, and `job` lists what each thread has still to do to the device: closing, opening
and noting it (`audio_callback_is_open`, `sched_set_using_audio`) are steps of their own because the
other thread may come in between. `Pa_AbortStream` is external and returns when no
callback is under way. A message reaches the device in whichever thread polls the
GUI; the dialog leaves the change to `m_mainloop` if callbacks are involved
(`DialogMayReopen`), by way of `sys_quit`. `pdsystime` is `pd_systime` modulo 2: all that is asked
of it is whether it has moved. `LoopInit`, `LoopNext` and their like are named so that one module
can hold the theorems of `Sched` and of `MainLoop`.

Opening a device gives a stream, fails, or succeeds without a stream: `pa_open_audio` answers 0 when
there are no channels left to open (`s_audio_pa.c:401-404, 427-428`), and the device counts as
open. A device may call back before `sys_reopen_audio` has noted that it is open. Nothing is asked
of users: every message may come in either thread whatever the device does. Only the dialog asks
whether callbacks are involved. `hasty` are the threads whose job on the device was taken up by another
message while callbacks were noted, or within a callback, or by the dialog in a callback
before they were noted; `astray` is that such a message has come, or one that
opens a device with callbacks by itself. The properties promise nothing of a hasty job, or nothing of
what becomes of the main loop once it is astray; 5.1 and 5.2 say what happens.

### 2.10 GuiQueue: what the windows show

*Code.* `s_inter.c:716-1030, 1618-1655` and the users of the queue: `g_canvas.c:781-819`,
`g_graph.c:29-147`, `g_array.c:771-775`, `g_all_guis.c:618-631, 951-967`.

A widget whose value changes asks to be drawn once, with the value it has when the
scheduler polls; scalars and arrays only if their window is up, number boxes, sliders
and so on always. `Polls`, `Serves`, `Pings`, `HasServed` and `SendsIt` are `sys_poll_togui` and
`sys_flushqueue`, one draw at a time; `DrawsNext` is one turn of the loop of `canvas_map`. All of
it runs under `sys_lock`, so only the GUI (external) comes in between: it reads the socket
in order and answers pings.

A message is what it shows for which widget, and why it was sent: straight away, from the
queue, or as a ping. `DrawSize` says how many bytes a draw takes; anything else takes one of
`Sizes`. The buffer is flushed by whole messages: a message that is cut is one that the
GUI has not read yet. `WillShow` is what a widget looks like when everything sent has been
read: its last drawing in the stream, or else what it shows now. `Unread` counts, byte by byte,
what was drawn from the queue and not read. Any widget may be deleted in any state of the
window. Of number boxes, sliders and their like the code leaves the entry on the queue if the window is hidden:
`left` has those, until an object is made at the same address, and a poll that comes to such an entry has
`crashed`.

### 2.11 How they meet

`Sched`'s tick calls the perform routines of `ReadSf` and `WriteSf` through the chain `UgenGraph`
has sorted, and ends in the `send_dacs` of `PaFifo`; the messages its clocks send go through
`BindList` and, in an embedded Pd, out through `LibpdQueue`. `MainLoop` says which thread runs the
tick and polls the GUI, whose queue is `GuiQueue`; the wait in `PaFifo` is one of its places
(`dacs`). Each module has the others as its environment: `Sched` lets client code do anything with clocks, `ReadSf` takes ticks and
messages at any time, `BindList` lets a called thing do anything to the symbol. What one component
must not rely on in another is therefore not lost by checking them apart; that they
share `sys_lock` is why the steps of the main thread are atomic in each.

## 3. What the runs show

Every run finishes in less than two minutes. `CHECK_DEADLOCK FALSE` is given where the
object may be freed, the bounds on what users do are reached, or the program really stops
(`main_loop`: a callback that closes its own device waits for itself); `pa_blocking`, the two
sides of the audio device, checks for deadlock.

| Run | Question | Properties | Distinct states |
|---|---|---|---|
| `readsf_stream` | Is what is played the file opened last, to its last whole frame? Is no descriptor lost, do the threads never wait for each other, do streams and the destructor end? | `FifoHoldsStream`, `PlaysWholeFile`, `OneFileOpen`, `NoMutualWait`, `StreamEnds`, `FreeCompletes` | 283,575 |
| `readsf_stale_eof` | (violation) Is EOF never set while an open is pending? | `NoEofOnPendingOpen` | |
| `writesf_stream` | Does a file hold what was put in, whatever fails, and all of it if it was stopped; is no descriptor lost, does an open, which waits in the scheduler, return? | `FifoHoldsInput`, `FileIsPrefix`, `NoLeak`, `StopKeepsEverything`, `OpenReturnsUnlessError` | 1,443,445 |
| `sched_alarms` | Is the clock list complete and in order, does it do what alarms do, is the GUI served? | `ListedOnce`, `InOrder`, `KeepsPromise`, `GuiServed` | 242,046 |
| `main_loop` | Whatever messages come where: can a close end, are buffers replaced only while nobody uses them, do the settings take effect, does time go on? | `CloseCanEnd`, `BuffersAreFree`, `SettingsTakeEffect`, `TimeGoesOn` | 123,058 |
| `main_loop_callback` | (violation) Is the device never closed from within its callback? | `CallbackClosesNothing` | |
| `pa_blocking` | Are blocks never torn, repeated or reordered, is at most one lost, does the main thread always get on? | `BlocksInOrder`, `NoRace`, `AtMostOneLost`, `NeverStuck`, `SendDacsReturns` | 16,930 |
| `gui_queue` | Is nobody called who is gone, no change forgotten, the GUI not swamped, and everything shown in the end? | `QueuedAreAlive`, `ShownOrQueued`, `UnreadIsBounded`, `AllIsShown` | 637,679 |
| `ugen_sort` | Does every object hear what it is connected to, are just the loops left out, does every vector come back? | `InputsAreMeant`, `OnlyLoopsLeft`, `AllComesBack`, `OutputsFilled` | 723,245 |
| `undo_history` | Is the patch what the queue says, are sequences whole, is a clean window saved? | `PatchIsHistory`, `WholeSequences`, `CleanIsSaved` | 878,727 |
| `libpd_queue` | Are messages whole and in order, and only those lost that did not fit? | `DeliveredWhole`, `DeliveredInOrder`, `KeepsPromise` | 164,502 |
| `bind_list` | Is everyone bound on the list, and still to be called if the loop has not come to them? | `ListIsBound`, `StillToCome` | 10,062 |

### Bounds, and why they are enough

*ReadSf.* The fifo has 16 bytes (`BufSize` 17, rounded down), a read at most 4,
a tick 4 or 8 bytes: the head goes round the end more than once in the longest
file, reads are cut by the end of the buffer, by the tail and by the limit in the header,
and there are several reads per tick and several ticks per read. `BufSize` is not a
multiple of a tick, so rounding matters. Two opens are enough for everything an open
can overtake: the child keeps one copy and the mailbox has one place, so a third
only replaces the second one there. `SigFraction` 2 keeps the period of signals
shorter than the buffer. Files have frames of 2 and 4 bytes, and every open may or may not ask for
the header to be detected, so that the format one open publishes differs from the next one's.

*WriteSf.* As above with a fifo of 4 bytes, writes of 2, frames of one and two bytes, vectors of one
and two frames that change while a file is open, and up to 6 bytes put in: the fifo fills up,
goes round its end, and two files follow each other. Frames that do not divide a write are in 5.2.

*Sched.* Three clocks make every insertion place (front, between, end) and ties of
three; a tick of 2 time units has an instant inside and one on each border; two
ticks are followed by the possibility of a cut one. `PollEvery` 1 polls the GUI after
every second callback, so both sides of the countdown are seen. `Horizon` bounds
how far ahead clocks are set, `MaxTime` how far time goes.

*MainLoop.* Two settings with callbacks and one without give every kind of change, a
change between two of the same kind included; four messages are enough for two restarts
to be asked for while a third is under way. Everything else is finite.

*PaFifo.* Callbacks of 2 blocks and rings of 2 and 4: callback and ring of the same
size and of different sizes, indices that go round both the buffer and the
double range. Nothing but `lost` (capped at `LostCap` with input only, where it is
not looked at) needs a bound.

*GuiQueue.* A widget of each kind, the array three times as large as the others; a ping
after 4 bytes and slices of 2, so that a poll may end because of the slice, of the ping
or of the queue, and `wherestop` is met in both its forms; other messages of 1 and 4
bytes. Five events (`MaxEvents`) are enough to stop and start the GUI between changes,
and to delete and make a widget anew while it is queued.

*UgenGraph.* A root window with a source, two objects (one with two inlets) and a
subpatch with one object, in every wiring of the root window of at most four connections
(`MaxWires`), loops through the subpatch included, with five wirings of the subpatch, one of
them with a loop. The subpatch is plain, reblocked to size 2, switched on or off; the root may
have the odd size 3. This gives lending, summing, lending again and loops in either window.

*Undo.* Four edits, a queue of at most six, and a sequence in a sequence (`MaxDepth` 2):
enough to undo into the middle, do something else, save, and come back.

*LibpdQueue.* A ring of 4 words for messages of 1 to 4: one that fills it, ones that go round
its end, and ones that do not fit; six messages let the indices go round more than
once.

*BindList.* Four things and five addresses, one more than elements are in use, so an element that is
allocated may be, or not be, one that was just freed; deliveries inside a delivery up to
two deep. The things and addresses are symmetric: the code compares them for equality only.

### What is promised of whom

No step the code can take is taken out of a model for a property to hold. Where the
code breaks a promise, the step that does it is in the model and recorded in a history variable, and the
property says what holds of everybody else:

| History | What happened | Not promised then | Shown by |
|---|---|---|---|
| `overruled` (`ReadSf`) | an older open wrote its format or failure over the newest one's | `PlaysWholeFile` | `readsf_stale_eof`, 5.2 |
| `spoilt` (`WriteSf`) | a tick filled the fifo at tail 0, or ran over its end | `FifoHoldsInput`, the order of `FileIsPrefix`, `StopKeepsEverything` | 5.2 |
| `overtaken` (`WriteSf`) | a stop, an open or a free came while the file was created | that descriptor in `NoLeak`, `StopKeepsEverything` | 5.2 |
| `hasty` (`MainLoop`) | a message other than the dialog's works on a device with callbacks, or one comes before it is noted | `CloseCanEnd`, `BuffersAreFree`, for that job | `main_loop_callback` |
| `astray` (`MainLoop`) | such a message has come, or one opened a device with callbacks | `SettingsTakeEffect`, `TimeGoesOn` | 5.2 |
| `left` (`GuiQueue`) | a number box or the like was deleted, while queued, in a hidden window | `QueuedAreAlive`, for that entry | 5.2 |
| `unmarked`, `aliased` (`Undo`) | an edit left a clean window unmarked; a freed address came back | `CleanIsSaved` | 5.2 |
| `strayed` (`Undo`) | an edit was made or skipped behind the queue's back | all three | 5.2 |

Besides, `TimeGoesOn` leaves out a device that is noted as open without a stream, and `OpenReturnsUnlessError` what follows a failed write (5.2).

### Environment restrictions

* `ReadSf`: the file lengths are whole samples; 5.2 says what one byte less does. `VecSizes`
  has one value, at most `MaxVecSize`, the size before `dsp` is first sent.
* `Sched`: times are integers; a delay recomputed by `clock_setunit` is rounded
  down to a whole unit.
* `MainLoop`: `SettingsTakeEffect` is about what happens once there are no more messages.
* `PaFifo`: a device reopened during a wait has the same channels; `StoresInOrder`.
* `GuiQueue`: `QuietStops` TRUE (the GUI is not stopped while a ping is not answered; 5.2 says what
  `AllIsShown` is without it); `AllIsShown` is about what happens once patches and users are quiet.
* `UgenGraph`: no odd block sizes inside subpatches; a switched subpatch with a loop is excluded
  from `InputsAreMeant`, and only plain subpatches are in `AllComesBack`.

### Fairness

* `ReadSf`: `WF_vars(Child)`: the child is a thread of its own and the
  operating system runs it. `SF` for perform and the destructor's
  first step: they compete with the child for the mutex, which is free again and
  again but not continuously, and the mutex is assumed to be given to a thread
  that keeps asking; `WF` for the destructor's join. DSP ticks keep coming
  (`SF_vars(ReadsfPerform)`), as they do while DSP is on. No message, error or spurious
  wake-up is assumed to happen.
* `WriteSf`: `WF_vars(Child)` and `SF_vars(Opening)`, for the same reasons.
* `Sched`: `WF_vars(TickStep)`: a tick that has begun goes on, callbacks return.
* `MainLoop`: weak for steps that need nobody else (`DeviceStep`, `MainRuns`, `CallbackRuns`); strong
  for taking `sys_lock`, which the other thread releases again and again, and for what
  may be interrupted by it: a callback's end, the device's answer, the end of a transfer
  and the passing of real time. No message is assumed to come, nor any
  callback from a device that has started: `m_callbackscheduler` must do without.
* `PaFifo`: `WF_vars(MainStep)` and `WF_vars(CallbackStep)`: the device goes on calling
  back and the main thread goes on polling. Nothing is assumed of opening,
  closing or the time-out. When the device stops calling back for good, only the
  time-out ends the wait, and `SendDacsReturns` says nothing of that case.
* `LibpdQueue`: `WF_vars(Writing)`, `WF_vars(Receiving)`, so that it implements the fair `LossyQueue`: a
  hook that has begun ends, and the host, once it receives, hands over all it took.
* `GuiQueue`: `WF` of polling (`m_pollingscheduler` polls in every turn), of what a poll or a draw
  has begun, of the arrival of answers and of the GUI's reading. No event is assumed.

## 4. What is proved

The theorems hold for every value of the constants that satisfies the named
assumptions of the modules, all of which are assumptions on types (sizes
are positive, sets are sets of numbers, names are distinct, connections lead from box to box). Where a theorem needs
more - sizes that fit each other, or stores in order - its `ASSUME` says so, and the
paragraph below why the code needs it. Each rests on an inductive invariant that TLC
checked on the instances first. None uses fairness.

**ReadSfProofs.** `IInv == TypeOK /\ FdInv /\ MailInv /\ FifoInv`. `FdInv` says which
descriptors exist at which point of the child: without it `OneFileOpen` is not
inductive, because whether the child "still has a file" at the top of its loop
depends on how it got there. `MailInv` says who may have posted what: a QUIT can
only be taken out by the child that acknowledges it because nobody else posts
while the destructor waits. `FifoInv` ties the `read()` under way to the indices,
which the parent moves meanwhile. From it: `TypeCorrect`, `ReadsStayInBounds`,
`DescriptorsAreClosed`, `QuitReachesChild`, `NeverBothAsleep`. The last one is proved as an
invariant of its own relative to `IInv`.

What is played: `IInv /\ StreamInv(g) /\ EofInv`. `OpenInv` says that until the child has taken an open
up the fifo is empty, so that a read of the previous file that arrives late is not mistaken for
this one; `AlignInv` that the tail is at the start of a tick and the head at the start of a
sample; `PlaceInv` that what was played, what is unread and what has just arrived add up to the
place in the file, and that the read under way lands in free cells; `CellInv` that the unread cells
hold the bytes that come next, going around the end; `EofInv` that end-of-file is only
reported when the rest of the file is in the fifo. `FifoIsTheFile` is `FifoHoldsStream`,
`PlaysAllFrames` is `PlaysWholeFile`. Their hypotheses are what the code needs. *`WholeSamples(g)`, g > 1*:
reads, files and ticks are multiples of one number of bytes, say of a sample. The test of `readsf_perform`
(2036, 2051) lets a tick be played when all but one byte of it has arrived (5.2); an index that is
a multiple of two bytes or more never stands there. *`SteadyVectors`*:
one vector size, which divides `MAXVECSIZE`; a tail that is not aligned to the tick would be
set back to 0 by `readsf_perform` in the middle of a tick. *`WholeFrames(g)`*, for the end of the stream only:
frames are whole samples. Opens may ask for the header to be detected, fail, and overtake each other: until the
outcome of an older one is written over the newest one's (`overruled`, 5.1 and 5.2), `x_sf` and the child's copy ask
for what the user asked, and what the child may still read is `LimitAsked` less what it has read.

**WriteSfProofs.** `IInv == TypeOK /\ ParentInv /\ FdInv /\ FifoInv`. `ParentInv` carries the
argument why the open method cannot get in while the child bails out with an empty mailbox: the state is
not IDLE before EOF has been seen. From it: `TypeCorrect`, `NeverDitches` (an open never finds a file
still open).

What is recorded: `RecordInv`. `InputInv` (`OpenInv`, `FileInv`, `PlaceInv`) follows each byte from the signal into the
fifo, the write under way and the file, in the manner of `StreamInv`, until the recording is spoilt; `LapInv`, that a
fifo on its first lap holds nothing else before its head and later nothing else at all, is
what remains true of a spoilt one, so that even then no byte of another file is written. `LeakInv`
says that a descriptor is the child's, and in `x_sf`, or was overtaken; `EndInv` that the child leaves its loop
for a CLOSE only with an empty fifo; `DoneInv` that a child without a file has written all of the last
one; `FloorInv` that `x_frameswritten` is no more than what was written, and `WholeInv` that it is all of it when
`WRITESIZE` is a number of frames. `NeverLeaks`, `FifoIsTheInput`, `FilesArePrefixes` and `StopLosesNothing` are theorems of `Spec` with no
hypothesis at all: for every buffer, vector and frame size, users who stop or free at any moment, vector sizes that change
and failing disks. What they do not promise of recordings that were `spoilt` or `overtaken` is in the properties
themselves.

**SchedProofs.** `IInv == TypeOK /\ ListOK /\ NextAhead /\ GridInv`. The list lemmas
(`RemoveAtFacts`, `InsertAtFacts`, `ListWithoutFacts`, `PlaceExists`, `InsertFacts`) say what
`clock_unset` and `clock_set` do to a list with no repetition that is in order;
`PlaceExists` rests on the well-foundedness of < on the naturals (`Least`).
`NextAhead` is needed because a clock that rings must not take time beyond the
end of its tick. From it, for any number of clocks and any sequence of calls:
`TypeCorrect`, `ListIsComplete` (the unguarded walk of `clock_unset` ends),
`ListIsInOrder`, `StaysOnTheGrid`, `TimeNeverGoesBack`.

`RefinesAlarms` is that every behaviour of `Sched` is one of `Alarms`. The queue of an instant t is
the stretch of the list between the first and the last clock due at t (`DueAt`); because the list is in order
nothing else is in that stretch (`Stretch`), and the lemmas about it say what happens
to each queue when a clock is taken out (it leaves its own queue and no other), put in (it joins
the end of one: insertion is *before the first later*) and when the first clock rings. A tick
that only counts down, polls the GUI or is cut short is a stutter or an `Advance`. The instants of
`Alarms` must hold every time a clock can be set for (`InReach`), hence `LastInstant`.

*The main loop.* `LoopInv == LoopTypeOK /\ LockInv /\ DeviceInv`.
`LockInv` says at which places a thread holds `sys_lock`. `DeviceInv` says that the callback's
thread has nothing to do to the device that is not hasty, and never gets to note one; that what is
noted of the stream (whether it is open, whether it calls back) is true except between opening and
noting; that the main thread closes a device that calls back hastily or without the lock; and that a
callback is under way only in a stream that calls back. From it, for any settings, any number
of messages in either thread and any time of the first callback: `ClosesWhereItCan`, `ReplacesFreeBuffers`, both without hypotheses.

**AudioProofs.** *The rings.* `IInv == TypeOK /\ PcInv /\ RoomInv /\ BalanceInv`. The idea is
`Shortfall`: what the two rings hold together, counting the blocks each thread
has decided to move or owes to the other ring, short of one ring's worth. No step
changes it except one that loses a block, and when a ring has no room the other
terms show that it was 0. Hence it is 0 or 1 for ever, at most one block is
lost (`LosesAtMostOne`), and a main thread that waits in vain has left enough
output for the next callback (`NeverBothWait`). `RoomInv` bounds each transfer by what was
there when it was decided; it gives `NeverInconsistent`. All of this is independent
of `StoresInOrder`.

The blocks in the rings: `CInv == IInv /\ WhereInv /\ OutInv /\ InInv`, given `StoresInOrder`. `WhereInv` says
where the copies under way are, by the indices they started from; `OutInv` and `InInv` say
that a place of a ring between the read and the write index holds the block that was
put there when the write index had that value. The arithmetic is that two places
less than one size apart are different places modulo the size although indices count
modulo twice the size. From it: `WholeAndInOrder`, `CopiesApart`.

*The sort.* `LoopsLeft` is `OnlyLoopsLeft`: when the sort is over, the boxes that were done are those no loop
leads to, in their window and around it. `GraphInv` says of the stack which call may have been made by
which (`Fits`), that no box and no window has two calls in it, and that a set B of boxes whose
turn has come and a set P of connections passed on exist which agree with all that is kept (`Marked`):
`ngot` counts P; a box with inputs is in B exactly when all its connections are in P; each call on
the stack has left to do exactly what B and P lack (`CallMarks`); nothing of a subpatch's window is in B before
its turn (`LaterMarks`); B holds reached boxes only; and, unless inputs were incompatible, every box of B is done
or on the stack (`NoneLost`). Nothing less is inductive: that a box is done once,
when its last inlet is filled, needs the counts, and that a window's roots are all started needs that
nobody else starts them. A step replaces the innermost calls by others (`Onto`); `Proceeds`
says once what must be shown of the new calls for the invariant to survive. At the end the stack is
empty, so B is what was done and closed under "all sources are in it", hence holds the smallest such
set. `GraphAssumption` says that a window other than the root has one holder, that a connection stays in one
window and that there are finitely many. That the nesting of windows has no cycle is not needed.

**LibpdQueueProofs.** `IInv` joins the ring (`RingInv`), the writer between its copies and the swap
(`WriterInv`), the receiver between its count and its swap (`ReaderInv`), what is in
`temp_buffer` (`RestInv`) and what has been handed over (`DeliveredInv`). `Used` and `Cells` read the
words in the ring from the read index on, around the end; `WholeWords` and `Ordered` say that such a
stretch is whole messages in order, and the lemmas say that this survives appending a
message and taking a prefix of whole ones. From it, for every size of ring and of
messages: `TypeCorrect`, `MessagesWhole`, `MessagesInOrder`, `CopiesNotRefused` (the second test of
room inside `rb_write_to_buffer` never fails after the first).

`ImplementsLossyQueue` is the safety part of `KeepsPromise`: `Spec => Promised!QSafe`. `Heads` collects the
messages of a stretch of words by their headers, and lemmas say what it is of a stretch with one more
message behind it, of its two parts, and which of its messages is first and last. `WordsCounted` is the
bijection between the words of a stretch and the pairs of a message and a part of it: the room
the ring sees is the room the promise counts, so a message is dropped exactly when it does not
fit. `Publish` is then `Accept`, a refusing `Hook` is `Lose`, `Free` is `Take` up to the newest
message that was copied out, `Dispatch` is `HandOver`, and the other steps are none.

**BindListProofs.** `IInv == TypeOK /\ LinkInv /\ DueInv`. `Linked` says of the elements and the sequence of what
is bound that each element holds the thing of one place and leads to the element of the next,
that each place has one and that no two hold the same thing; `pd_bind` and `pd_unbind` are then insertion and removal of
one place, and nothing needs to follow the links. `DueInv` says that the element a delivery stands at, unless
it was freed, is in the list, and that the delivery has still to call what stands behind it; taking out any
other place, before or behind it, keeps that. From it, for any number of things and
elements and any depth of deliveries: `TypeCorrect`, `SymbolHasTheBound`, `CallsWhoIsLeft`.

**GuiQueueProofs.** `IInv == TypeOK /\ QueueInv /\ FlowInv /\ ShowInv /\ BytesInv`. `QueueInv` adds to `QueuedAreAlive` that nobody is on the
queue twice: `sys_unqueuegui` stops after the first entry it finds past the head, so without
`sys_queuegui`'s walk it would leave one behind. `FlowInv` adds to `UpdatesWait` that at most one ping is under
way, there or back, that Pd waits for it, and that nobody serves the queue while Pd waits.
What is sent and not read is one sequence over the buffer and the socket (`stream`);
`FlowKept` says that forgetting its beginning and adding other messages disturbs nothing, which
covers all steps but three. `ShowInv` is `ShownOrQueued` extended to the loop of `canvas_map`: a widget counts
from the moment it is drawn there, before the window counts as up (`IsDrawn`); that reading a
message or sending one that does not show the widget leaves alone what it will look like in the end is
`EndsRead` and `EndsBefore`. `BytesInv` says that while Pd waits for no answer, what is unread is no more
than what it has counted since the last ping; the bytes of a stream are a set of pairs of a place and
a number, so that "no more bytes" is an injection and a message that is added adds its size
(`FewerBytes`, `MoreBytes`). From it, for any widgets, sizes and histories: `TypeCorrect`,
`NobodyGoneIsQueued` (deletions in a hidden window included: the entries they leave are in `left`), `UpdatesStayBehind`, `NoChangeIsForgotten`,
`RedrawsAreBounded`.

**UndoProofs.** `IInv == TypeInv /\ KeptInv /\ CleanIsSaved`. `TypeInv` holds of strayed windows too: one init
action, at the head, and edits numbered in the order they stand in (`Shaped`). The numbers are why an
undo takes back exactly the edits behind a place: no edit in front of it has the same number (`WithoutTail`).
`KeptInv` holds until the window has strayed: sequences nest, as many are open at `u_last` and at the end of the queue as the
editor has begun (`Nests`); the patch is `InTurn` of the queue up to `u_last`; and what was saved is
`InTurn` of the queue up to `u_cleanstate`, while that is the place of an action and its address was not given to
another one. The last part is what makes `CleanIsSaved` inductive: undo and redo declare a window unchanged by comparing two
addresses, so the patch that was saved must be tied to the address all along, through
edits that free what was undone.

The lemmas: the patch of a stretch is that of its first part with the second applied on top (`InTurnSplit`); how deep
sequences nest adds up (`NestedSplit`) and never depends on where a stretch stands (`NestedAlike`); recording a
stretch that nests keeps all of it, whatever was undone before (`AddKept`), and so does ending a sequence, the
empty one included (`EndKept`). `UndoFinds` and `RedoFinds` say that the search for the partner of an end or a
start succeeds, without a bug message, and stops where no sequence is cut: in a queue that nests,
the nearest place from which as many begin as end is the partner. From it, for any kinds of
edits, typed texts, depth and history: `TypeCorrect`, `PatchFollowsQueue`,
`NoSequenceCutApart`, `UnmarkedIsSaved` (edits that do not call `canvas_dirty` included: after one the
promise is that of `unmarked`, until saving, undo or redo set the flag), and `UnpairedOnlyAstray`, that the bug messages about unpaired
sequences need a window that has strayed (5.2 has one).

Proved and not checked by a run, because the theorem covers the instances: the theorems of
type correctness, `ReadsStayInBounds`, `QuitReachesChild`, `NeverDitches`, `StaysOnTheGrid`,
`TimeNeverGoesBack`, `NeverInconsistent`, `CopiesNotRefused`, `UpdatesStayBehind`, `UnpairedOnlyAstray`.

**Only model-checked.** Liveness (`StreamEnds`, `FreeCompletes`, `OpenReturnsUnlessError`, `GuiServed`,
`SettingsTakeEffect`, `TimeGoesOn`, `SendDacsReturns`, `AllIsShown`), which is beyond the prover. That
what `LossyQueue` accepted is handed over. `OutputsFilled` and `AllComesBack` of `UgenGraph`, whose proofs would have
to follow folds over the inlets, outlets and lenders of a signal, that is by induction over data; and
`InputsAreMeant`, whose `MeantIn` is defined by recursion over the wiring.

## 5. Where the code and its words disagree

### 5.1 Shown by a run

* `readsf_stale_eof`: an `open` that fails sets `x_eof` (`d_soundfile.c:1758`) without
  looking whether a newer `open` is pending; the comment at 1909 says that this
  must not happen, because "the stream would fail silently".
* `main_loop_callback`: a message handled in the callback, "pd dsp 0" for one, closes the device from within it
  (`g_canvas.c:1440`), which `portaudio.h:827` forbids and which waits for itself; only the dialog asks
  (`s_audio.c:704`).

### 5.2 Met while modelling, without a run of their own

Where a configuration is named, TLC shows the behaviour in the modules as they are
once the constant is changed in it, as a violation of the property in parentheses,
which is added to the configuration if it is not there.

readsf~:
* `ReadSf_stream.cfg` (`OpensAsAsked`): `soundfile_copy(&x->x_sf, &sf)` (1766) comes before the check for a newer
  request (1768), and overwrites the format the newer open has just stored: an open without a header
  size is then served without looking for a header, contrary to the comment at 2127 (`overruled`).
* `ReadSf_stream.cfg` with `Files = {"cut"}` and `Missing = {}`, data cut one byte before a whole tick
  (`FifoHoldsStream`): the test `x_fifohead < x_fifotail + wantbytes-1` (2036) lets the last
  tick play one byte of old data.
* `ReadSf_stream.cfg` with `Files = {"wide"}`, `Missing = {}` and `BufSize = 7` (`StreamEnds`): for frames
  wider than `x_bufsize / MAXVECSIZE` `x_fifosize` (1780) is 0 and perform waits for ever.

writesf~:
* `WriteSf_stream.cfg` (`NeverFillsUp`): `roominfifo` is a `size_t` (2543), so while the head is at a higher index than
  the tail the difference is huge where the test `<= 0` (2552) expects it to be negative, and perform does not wait. If the
  tail is 0 - before the child's first write, or when it has gone round the end - the head goes on to the end of the fifo,
  becomes 0 as well, and the full fifo looks empty (`spoilt`). The comment at 1802-1806, on the same fifo in readsf~,
  says that this "isn't allowed because you can't tell a completely full buffer from an empty one".
* `WriteSf_stream.cfg` with `Bpfs = {3}`, `BufSize = 13` and `WriteSize = 4` (`HeaderCountsFrames`): `x_frameswritten +=
  byteswritten / bytesperframe` (2426) rounds each write down, so the header of a 24-bit (or 3-, 5-, 6-channel...) file
  announces too few frames; line 1647 calls the field "frames written".
* `WriteSf_stream.cfg` (`OpenReturns`): a write that fails while CLOSE is posted leaves the loop
  in `d_soundfile.c:2362` with a request that keeps it going and a fifo it can no longer empty:
  the child writes to descriptor -1 for ever, and the next `open`, which waits in the
  scheduler's thread (2639, comment at 2638), never returns.
* `WriteSf_stream.cfg` with `SPECIFICATION FairFreeSpec` (`FreeCompletes`): the child stores NOTHING over whatever was posted while it
  was finishing a CLOSE with the mutex free (2469). If that was QUIT, `writesf_free` takes
  the NOTHING for an acknowledgement (comment at 2699) and joins a thread that never exits.
* A vector size that grows while a file is open lets a tick run over the end of the fifo
  (2581-2583; the comment at 2662 warns of it): `RunsOver`, one way into `spoilt`.
* A stop while the file is being created makes the child `continue` (2351) before it has stored its
  descriptor (2357), which is leaked, and what was put in so far is never written: `overtaken`.

PortAudio:
* `PaFifo_blocking.cfg` (`RingsEqual`): the input ring starts full; if the first callback comes
  between the two halves of `pa_send_dacs`, its input is dropped and the rings stay unequal,
  which `CHECKFIFOS` (`s_audio_pa.c:202`) would report on every callback from then on. The
  proof of `LosesAtMostOne` shows that it happens at most once.
* `PaFifo_blocking.cfg` with `StoresInOrder = FALSE` (`BlocksInOrder`): the index may become visible before
  the data it covers. The rings have neither barriers nor volatile fields.
* The conversion buffer is sized (523) before a wait in which the device may be reopened with
  more channels. `PaFifo` and `MainLoop` reopen with the same ones.
* `Pa_IsStreamActive(&pa_stream)` (543, 585) is given the address of the handle.
* With input only nothing holds the callback back and its blocks are dropped without
  the "audio I/O error" the other direction reports.

Scheduler:
* `Sched_alarms.cfg` (`UnitChangeReschedules`): for a clock counted in samples the time left
  (`m_sched.c:122`) is divided by the negative `c_unit` and comes out negative, so the clock
  is not rescheduled, against the comment at 108. `TimeLeft`, in the module, has the code's sign.
* The "no change" test of `clock_setunit` (117) multiplies where it should divide.
* `readsf_dsp` recomputes readsf~'s signalling period without the factor 16 (2197, comment
  at 1587).

Main loop:
* `MainLoop_restart.cfg` (`ClockWithoutAudio`): with no channels left `pa_open_audio` returns 0 without a stream
  (`s_audio_pa.c:427-428`), the device counts as open and polled, and `pa_send_dacs` answers `SENDDACS_NO` (521-522) for
  ever: the branch "no audio; use system clock" (`m_sched.c:361`) is never reached and logical time stops.
* "pd dsp 0", the choice of another API and the preferences (`hasty`): handled in the callback they close the
  device from within it (5.1); handled in the main thread they close it with `sys_lock` held,
  while the callback waits for that lock.
* `sched_set_using_audio` (`m_sched.c:220-237`) assigns `sched_useaudio` before comparing it with the new
  value, so its branches (228-230) are dead; when DSP opens a device with callbacks (`astray`), the main
  thread stays in `m_pollingscheduler`, where `pa_send_dacs` waits for rings that do not
  exist.
* `m_mainloop` reopens the audio without the lock, and a dialog message in the first callback, before
  `audio_callback_is_open` is set, reopens it in the callback's thread as well (`hasty`).
* `m_callbackscheduler` (404-414) and `m_mainloop` (433-435) use `pd_systime` and `sys_quit` without the
  lock: the tick that watches for dead callbacks may double one, and a quit that is lost is
  one whose message calls `exit` itself (`s_inter.c:1598`).
* `sys_initmidiqueue` (`m_sched.c:405`, without the lock) starts `sys_midiinittime` anew while queued MIDI
  messages keep the times they were given before (`s_midi.c:111-115`, 195); not modelled.

GUI:
* Number boxes, sliders and their like queue a change whether they are visible or not (`g_numbox.c:277`, 438,
  `g_all_guis.c:965`); `glist_delete` (`g_graph.c:125-128`) takes them off the queue only if they are
  visible, and their free methods (such as `g_numbox.c:740-746`) do not. The next poll calls the draw function
  of a freed widget: `left`, and `crashed`.
* `GuiQueue_redraw.cfg` with `QuietStops = FALSE`, `Sizes = {4}` and `MaxEvents = 6` (`AllIsShown`):
  `i_waitingforping` is reset neither by `sys_stopgui` nor by `sys_startgui` (`s_inter.c:1618-1655`), so
  after `libpd_stop_gui` during an unanswered ping nothing that is queued is ever drawn. The
  comment at 1639-1641 suspects the buffer, which is in fact initialized again at 1625.
* Objects that send more than `GUI_BYTESPERPING` directly in each round trip of a ping
  keep the queue from being served (925-931). `AllIsShown` is about patches that
  become quiet.
* The last attempt to send before the buffer grows (759-762) passes `bytestowrite` although
  `written` of these bytes may have gone; not modelled.

DSP graph:
* `UgenGraph_sort.cfg` (`NeverFreedTwice`, as an INVARIANT): a plain subpatch that passes a signal
  through, whose output is summed in one inlet with the very signal that it was given:
  `signal_makereusable(s1)` (`d_ugen.c:877`) frees the borrowed signal and, through it, `s2`,
  which the next line frees again. `bug("signal_free 4")` (430) is met, and nothing worse
  follows because the second call returns there.
* `UgenGraph_sort.cfg` with `OddInnerSizes = {2}` and `Switches = {}` (`VecSizeIsAllocated`): vectors are put on
  a free list by their allocated size and looked for by the logarithm of the size asked
  for (468-481), so a block of 3 gets the vector of a block of 2, which is too short;
  `s_vecsize` then says otherwise (`m_pd.h:607`).
* In a subpatch that is reblocked or switched, the extra count of line 1029 is never taken
  back, so its borrowed outputs are not used again until the next sort, and the "free it
  here" of `vinlet_dspprolog` (`g_io.c:245-248`) never finds a count of 0. `AllComesBack`
  is about plain subpatches for that reason.
* In a switched subpatch with a loop, the outlets behind the loop are written by nobody when it
  is on: line 1107 finds them lent already. `InputsAreMeant` excludes it.
* After incompatible inputs (867-871) the counts of the two signals have been taken
  down and nothing reads them: they go negative.

Undo:
* `Undo_history.cfg` (`ChangedIsMarked`): `canvas_font` (`g_editor.c:4849-4869`), `canvas_disconnect_with_undo` (436-442) and
  `canvas_connect_with_undo` (495-501) change the patch and record it without `canvas_dirty`: `gl_dirty`, "patch has
  changed" (`g_canvas.h:200`), stays 0 and the window is closed without a question (`unmarked`).
* `Undo_history.cfg` (`PointsToCleanState`): `u_cleanstate`, the "pointer to non-dirty state" (`g_undo.h:88`), may be the address
  of an action that was freed by a new edit and handed out again; a window that has changed then counts as
  saved (`aliased`).
* `Undo_history.cfg` with `MaxDepth = 1` and `MaxQueue = 2`, without `CONSTRAINT`
  (`SequencesArePaired`): a redo while a box is being typed in has moved `u_last` on before
  `glist_noselect` adds the typed text behind it (`g_undo.c:324-326`): the actions left to redo are
  freed, the one that was to be redone counts as done and is not, and a sequence may be cut
  in two, which the `bug()` of line 293 or 352 then reports.
* `u_doing` stays set after an undo that was refused (296): until the next undo or redo that
  succeeds, edits that look at it (66, `g_canvas.c:641`, `g_text.c:98` and 258) are not recorded.
* A refusal inside a sequence is not looked at (285): the sequence counts as undone.
* A text that is typed when a window is saved and taken later does not mark the
  window as changed: only keys do (`g_editor.c:3088`), and a click elsewhere takes the text
  (another way into `unmarked`).

libpd queue:
* `rb_clear_buffer` sets both indices from one thread, although each belongs to another;
  `z_ringbuffer.h:58-59` calls it safe from any thread. Nothing here calls it.
* Pd's messages and MIDI have a ring each, so their order among each other is lost.
* `temp_buffer` is static: a hook that calls `libpd_queued_receive_pd_messages` again has the rest of
  its own batch overwritten.

Symbol bindings:
* `BindList_deliver.cfg` with `PROPERTIES EndsAfterAll`: a thing that unbinds itself while it is
  called frees the element the loop stands at; the loop then reads the zero `pd_unbind` left
  there and ends, so things behind it do not get the message, or follows what the allocator
  wrote there (`crashed`). If the element was allocated again by a `pd_bind`, the loop goes
  on from the head of the new list and calls things twice.

## 6. What is not modelled, and why

* *Other components of the inventory*: see `PROJECT.json`, which lists each with its
  reason. In short: arithmetic on samples (floating point), parsing and formats
  (sequential conversions), drawing and mouse handling, wrappers of operating systems,
  the externals and third-party libraries.
* *Most of the repository, by lines.* `src/ceammc` and the vendored libraries make up most of it:
  some hundred independent objects and tables. The modules are about the engine in `src/src`, and there
  about the parts that keep state between calls and are shared by threads, callbacks or a
  long sequence of messages.
* *Sound files*: sample conversion (`soundfile_xferin_sample` and its like), error texts.
* *Scheduler and main loop*: the DSP computation, quitting, fast-forward, meters, the watchdog;
  JACK; device lists, channel counts and sample rates; reopening with other channel counts;
  the other builds (threads that signal, no PortAudio).
* *DSP graph*: overlap, resampling, `clone`; running the sorted chain (what it does is
  followed while it is built, in its order).
* *Undo*: what each kind of action does to objects; the patch is the edits in it and their order.
* *libpd queue*: `rb_clear_buffer` and `rb_write_value_to_buffer`, which nothing calls.
* *Symbol bindings*: the stack of `#X` bindings, classes and their method tables.
* *GUI*: how its process is started, sockets and their poll functions, the parser of
  `socketreceiver`, the growth of the buffer and a failure to allocate it.
* *Memory order*: the sound file objects lock a mutex for every shared access that
  is modelled, so interleaving critical sections is enough; the main loop has `sys_lock`. The
  rings of PortAudio and of libpd have none, so `PaFifo` and `LibpdQueue` interleave
  the single copies and stores. `StoresInOrder` of `PaFifo` stands for the rest; libpd's indices are
  exchanged with compare-and-swap, a full barrier.

## 7. Plan

What would come next, in the order of importance:

1. `MidiQueue`: the output queue by time and the input queue of `s_midi.c`, which flush when full,
   the bytes of a message put together from several, and `sys_midiinittime` started anew while they
   are filled. Property: no message before one that was sent earlier, none kept for ever.
2. Channel counts that change in `PaFifo` and `MainLoop`; overlap and resampling in `UgenGraph`.
3. `x_net.c`: connections that are closed in the callback of their own socket.

