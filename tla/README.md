# A TLA+ verification project for ewokos.extra

`ewokos.extra` holds the extra applications, tools and libraries of EwokOS: a
port of git on top of a home-made libcurl, a vi clone, a web browser built on an
HTML view widget, and small graphical programs. This directory models the parts
of it that carry logic of their own, checks the models with TLC, and proves most
of the safety results for every value of the constants with TLAPS.

## 1. The system

Most of the tree is vendored (upstream git, NetBSD curses) or data: of about
425 000 lines of C, upstream git alone has more than 300 000. What the repository
itself decides is in about 8 000 lines, more than half of them evim; of upstream
git, two subsystems are modelled as well, the HTTP client, because it is the
caller the port's libcurl was written for, and the reference store, because
several processes share it. The map therefore covers a small share of all lines
and most of those that decide something under concurrency or failure:

| part | source | state | operations |
|---|---|---|---|
| curl multi interface | `bin/git/port/ewokos/curl_compat.c` 1020-1122 | list of added handles, linked list of completion messages | init, add, remove, perform, info_read, cleanup |
| curl easy transfers | same file, 181-936 | options of a handle, results of its last transfer | setopt, perform: requests, redirects, a retry, headers, body |
| git HTTP client | `bin/git/upstream/http.c`, `http-walker.c`, `walker.c` | request slots and their counters, the queue of object requests, the list of alternates, the local objects, the call stack | prefetch, fetch, fill, start, run and step slots, process messages, callbacks |
| git reference store | `bin/git/upstream/refs/files-backend.c`, `refs/packed-backend.c`, `lockfile.c`, `tempfile.c` | loose files, `packed-refs`, `packed-refs.new`, lock files; in each process the transaction, the cache, the list of temporary files | transactions, pack-refs and pruning, reading, iterating, cleaning up |
| git port glue | `bin/git/port/ewokos/compat.c` | none | wrappers and stubs |
| evim buffer and undo | `bin/evim/vim_text.c` | text, dot, register, undo stack, undo queue, `modified_count` | holes, insertion, deletion, undo, dot movement, writing |
| evim commands | `bin/evim/vim_dcmd.c`, `vim_cmd.c`, `vim_main.c` | mode, file, whether editing goes on | one branch of `do_cmd()` or `colon()` per key |
| evim terminal, input, colouring | `vim_term.c`, `vim_input.c`, `vim_syntax.c`, `vim_util.c` | screen image | drawing, key decoding |
| sdl_tetris | `apps/sdl_tetris/game.c`, `input.c` | grid, falling shape, fall counter, level, redraw flag | a frame: one key, gravity, locking, rows, redraw |
| xBrowser | `apps/xBrowser/src/main.cpp` | back stack, navigation flag, retry countdown | toolbar, engine events, window timer |
| WidgetWebview | `libs/widget++/src/WidgetWebview` | front buffer, live scroll offset, document height, scrollbar | engine events, gestures, resize, destruction |
| calendar | `apps/calendar/calendar.cc` | month shown, today | paging, timer, sheet |
| calculator | `apps/calculator/calculator.cc` | two operands, operator, two flags, display | one handler per button |
| window-manager themes, curses, curse_test, sdltest, the rest of upstream git | `x/xwm`, `libs/curses`, `bin/…` | - | drawing, demonstrations, vendored code |

How they interact. git's `http.c` is the client of the multi interface, in one
thread: it adds handles, calls `curl_multi_perform()`, which runs every transfer
to its end inside the call, and reads the messages; the callbacks of a completed
request start and await further requests, so that all of this is re-entrant. The
reference store's processes meet only in the file system: `open(O_EXCL)`,
`rename()` and `unlink()`. xBrowser's window is a
`WidgetWebview`; both run on the UI thread, talk to the ewebview engine's threads
by queued commands, and see the engine's events only when the window timer drains
them in `ewebview_tick()`. evim, the calendar, the calculator and the game are
event loops of their own.

What is hard, and where (the full list is under `hazards` in `PROJECT.json`):

* pointers into a linked list whose nodes are freed and handed out again, with
  allocation failures between running a transfer and announcing it;
* transfers that are redirected away and back, fail half-way and are retried:
  how often a request leaves, with which method and body, and how often the client
  sees a body;
* callbacks that run inside the loop that reads completions and enter that loop
  again, over slots that are reused and requests that are freed;
* references kept in two places by processes that lock one at a time, read
  without locks, and may die between any two system calls;
* two undo mechanisms (a stack, and a queue of typed characters in front of it)
  that must be brought together before anything else touches the text, and one
  counter that alone protects the text against `:q`;
* rows of a grid that move while the loop over them runs, and a shape that may be
  partly above the array;
* one flag and one countdown in the browser for any number of pages under way;
* frames owned by turns by two threads, with a front buffer between them;
* flags that outlive the number they describe.

## 2. Modules

| module | models | composed of |
|---|---|---|
| `CompletionQueue` | abstract specification: a FIFO of completions | |
| `CurlMulti` | the multi interface at pointer level | implements `CompletionQueue` by `CQ == INSTANCE … WITH` |
| `CurlMultiProofs` | its theorems | extends `CurlMulti`, `TLAPS` |
| `CurlTransfer` | one easy handle: options and `curl_easy_perform()` | |
| `CurlTransferProofs` | its theorems | extends `CurlTransfer`, `TLAPS` |
| `HttpWalker` | git's request slots and object walker; the module of its own runs | on `CompletionQueue` (`M == INSTANCE`), the promise `CurlMulti` is proved to keep |
| `HttpWalkerProofs` | its theorems | extends `HttpWalker`, `FiniteSetTheorems`, `SequenceTheorems`, `Iteration` |
| `RefMap` | abstract specification: what a reference store promises | |
| `RefStore` | the files and packed stores, lock files and faults | implements `RefMap` by `Map == INSTANCE … WITH` |
| `RefStoreProofs` | its theorems about types, clean-up and order | extends `RefStore`, `WellFoundedInduction`, `TLAPS` |
| `RefStoreRefines` | its theorems about the refinement and the reads | extends `RefStoreProofs` |
| `EvimText` | the operators of `vim_text.c` on a buffer record | |
| `Evim` | the keys, colon commands and the file | extends `EvimText` |
| `Iteration` | lemmas: the least number of a set, induction up to a bound, a function defined by recursion up to a bound exists | extends `WellFoundedInduction`, `TLAPS` |
| `Tetris` | `game.c` and `input.c`, one step per frame | |
| `Browser` | xBrowser's navigation against the engine | |
| `Webview` | the widget's frames and scrolling against the engine | |
| `BrowserProofs` | the theorems of `Browser` and `Webview` | extends both, `Iteration` |
| `Calendar` | the month sheet, paging, the clock | |
| `Calculator` | the keypad | |
| `DesktopProofs` | the theorems of `Tetris`, `Calendar` and `Calculator` | extends the three, `FiniteSetTheorems`, `SequenceTheorems`, `Iteration` |
| `MCCurlMulti`, `MCCurlTransfer`, `MCRefStore`, `MCEvim` | the constants of the TLC runs | extend the module they name |
| `MCDesktop` | one of the three desktop programs, chosen at the start | extends `Tetris`, `Calendar`, `Calculator` |
| `MCBrowser` | the window's navigation or the widget's frames, chosen at the start | extends `Browser`, `Webview` |

Definitions keep the names of the C functions. A definition marked `[mutant]` is
not part of a model: it is the definition below it with a plausible bug, used to
show that a property notices that bug (`mutants` in `PROJECT.json`).

### CurlMulti

`handles`, `head` and `tail` are the members of `CURLM`; `alloc`, `easy`, `res`
and `next` are the heap of `CurlMessageNode`s, where freed nodes keep their stale
contents and may be returned by the next `calloc()`. `order` is history: the
allocated nodes as they were queued. `curl_multi_perform()` is a walk with a
cursor, one step per handle, so that a node is queued between two handles; an
allocation may fail at any of them (`AllocMayFail`), which leaves the handle
completed and unannounced, as in the code. `curl_multi_cleanup()` frees node by
node, and is called as git calls it, with no handle left in the list. The client
is otherwise free: it may add, remove and read in any order.

`CompletionQueue` says what a client may rely on: a transfer that runs leaves one
message with its own result or, without memory, none; messages come out in the
order of completion; removing a handle does not take back a message. That last
sentence is the code's behaviour and git has to live with it.

### CurlTransfer

`opt` are the options in `struct CURL`, `locals` the variables of
`curl_perform()`; `sent`, `requests` and `written` record what the servers and
the write callback have seen. A URL is a scheme and an authority, which is what
`curl_same_origin()` compares. Every failure the code has a branch for is a
choice: no request object, no response object, an error code, headers the
callback refuses, a body that breaks off, no memory; also none for a string that
`curl_easy_setopt()` copies, which leaves the option as it was and the result at
`OUT_OF_MEMORY`. tinyhttpsc and the servers are external. Which requests carry the
user's credentials is decided for each request anew from its URL (`CarriesSecret`);
the model keeps that test, and no property is stated of it, since it would be the
test again.

### HttpWalker

`slots` is `http.c`'s list of slots, with the handle, the callback and the address
a waiting `run_active_slot()` has left in it (`finished`, a position on the
stack). `obj_req` is the queue of requests of `http-walker.c`, with the values of
`enum object_request_state` and `gone` for a freed one. `stack` holds the calls
under way: a completion is taken by `process_curl_messages`, `finish_active_slot`
puts the callback on top of it, and the callback may put `fetch_alternates`, a
request for it and its `run_active_slot` on top of that, which reads further
completions. One step is the work of the innermost call up to its next call or
loop test; nothing else moves, since git is one thread, and yet the order in which
completions and callbacks meet is not fixed by it.

The multi interface is `CompletionQueue` itself: the actions of `HttpWalker`
conjoin `M!Register`, `M!Complete`, `M!CompleteSilently`, `M!Take` and
`M!Unregister`. What is checked here holds for `CurlMulti` too, because
`CurlMultiProofs` proves that it implements that queue. Three things follow from
the port's synchronous `curl_multi_perform()`, and would be different over
libcurl: a slot that has been started has already finished; the loops that wait
for a free slot or for a request find its completion in the queue at once, unless
it was lost; and removing a handle does not take back its completion. None of the
three disturbs the walker as long as fewer completions are lost than there are
slots (`SlotsRemain`, the condition of the four invariants). A lost completion
leaves its slot in use until something releases it. When as many have been lost as
there are slots, and one of those slots was released and serves a request again, an
object can arrive in a pack while its own request's completion is still queued:
`fetch_object()` then releases the slot (`http-walker.c:497`, `http.c:1734`), the
completion stays in the multi handle (`curl_compat.c:1051`), and the next request on
that handle is answered with it. The proof of `CompletionsBelong` met this case; TLC
exhibits it with six objects, two slots and two lost completions. While a slot
remains the proof shows that the queue is empty whenever a slot is released.

The walk is abstract in what it finds: a fixed number of objects, in order, any of
which may be missing, corrupt (an error), in an alternate, or in a pack. The
requests for the list of packs, an index and a pack are one request.

### RefStore and RefMap

Every step of `RefStore` is one system call on a shared file with the computation
that follows it in the process: creating `<ref>.lock`, `lstat()`, `open()` and
read, reading `packed-refs` (one step, because the file is only ever replaced by
`rename()` and is mapped whole), writing `packed-refs.new`, each `rename()` and each
`unlink()`. `proc` is a process's memory and is gone when it ends. An object name
is a number; a transaction's new value is a fresh one (`fresh`) unless
`OidsRecur`. `Killed` leaves lock files behind (`Stale`), the signal handler removes
them, `CallFails` takes the error path of a write, rename or unlink, and
`UserRemovesStale` does what git's error message asks for.

`RefMap` knows no files: a reference has one value, a process claims it with the
value it saw, and a value changes only by a claim being applied to that very value.
The mapping is `Value` (the loose file, or else the packed line) and `ClaimsOf`
(the entries of p's transaction that it has locked, read and checked, and not yet
changed). `doubt` is a history variable for the one exception: a deletion that is
interrupted after the packed line is gone and before the loose file is leaves a
reference that a pruning already under way may still remove, and that a packing
already under way may then bring back. Until somebody changes such a reference it
may be there or not (`Waver`), also at the moment at which it is claimed or a claim
on another reference is applied (`OnlyChange`).

`window` is history too: the values a reference has had since a read began, and
any value while it is in doubt. A
deletion takes the line out of `packed-refs` first and unlinks the loose file
afterwards, so that a reader who found no loose file before somebody created one
may report the reference as missing a moment before it is: `Unpacked` puts that
moment of the deletion into the window. And a reader whose file was there for
`lstat()` and gone for `open()` three times in a row gives up (`GaveUp`) and reports
no reference, whatever `packed-refs` says. In an iteration, or a packing, the
reference gets an entry `REF_ISBROKEN` in the cache all the same (`broken`), as does
one that was there for `readdir()` and is neither loose nor packed when it is read;
the entry hides the packed line, and is left out of the iteration. `ReadsAreCurrent` is
stated with the exception of the references given up on (`gaveup`, history), reference
by reference; `GivesUpLate` says how rare the exception is: somebody must have packed,
pruned and rewritten the reference during the read.

### EvimText and Evim

The buffer is a record; `dot` and the other pointers are 0-based offsets. Every
operator of `EvimText` is one function of `vim_text.c`, and the `undo` argument
keeps the code's five values. Characters are a letter in two cases, a blank and a
newline, which is all that the branches tell apart; the 32 bytes of the undo
queue, the tab stop and the growth chunk are the constants `QueueMax`, `TabStop`
and `Chunk`. Each action of `Evim` is one key with its count and includes the
epilogue of `do_cmd()` (`Finish`: an emptied text gets its line back, dot is
bounded and kept off the newline). `original` and `prev` are history variables.
Writing is one step that either writes all of the text or, on a full disk, a
prefix of it.

### Tetris

The grid is the set of occupied cells. A step is one iteration of `game_loop()`:
the key, then gravity, then the redraw. `lines_cleared` and `current_level` wrap
like the `uint8_t`s they are (`ByteRange`). Colours and the score are left out.

### Browser and Webview

Commands to the engine and events from it are queues. The window timer drains all
waiting events, then starts the first load and counts the retry down, in the
code's order. In `Webview` a frame is in the pool, in an event or on display. The
engine is a library outside this repository; it is modelled from how these two
files use it and what their comments say of it, and its definitions are marked
external in the map.

### Calendar and Calculator

`Calendar` keeps the arithmetic (Zeller's formula with its month and year shift,
the cells of the sheet) and checks it against an independent count of days.
`Calculator` keeps the texts as sequences of characters (all digits but 0 are
alike), and abstracts a computation to the shapes its text may have.

## 3. Runs

Every run finishes in three minutes or less on two workers.

| run | cfg | distinct states | checks |
|---|---|---|---|
| `multi` | `MCCurlMulti.cfg` | 86 598 | `MemorySafe`; implements the queue (`ImplementsQueue`) |
| `transfer` | `MCTransfer.cfg` | 302 124 | `CTTypeOK`, `BodyOnce`, `RequestBound`, `SuccessIsFinal`, `RequestTurnsOnce`, `Terminates` |
| `walker` | `MCWalker.cfg` | 394 413 | `SlotsCounted`, `CompletionsBelong`, `WaitersStand`, `CallbacksLive`, `FetchEnds` |
| `refs` | `MCRefStore.cfg` | 471 969 | `RSTypeOK`, `ReadsAreCurrent`, `NothingLeftBehind`, `UpdatesBeforeDeletes`, `OperationsEnd`; implements the map (`ImplementsRefMap`) |
| `refs_reads` | `MCRefStoreReads.cfg` | 124 731 | `GivesUpLate` |
| `evim_undo` | `MCEvimUndo.cfg` | 411 455 | `UndoRestoresOriginal`, `UndoTakesBackCommand`, `QuitDropsOnlyUndone` |
| `evim_typing` | `MCEvimTyping.cfg` | 458 816 | `EvTypeOK`, `EndsInNewline` |
| `browser` | `MCBrowser.cfg` | 308 568 | window: `BrTypeOK`, `RetryFires`; widget: `FrameOwnership`, `ScrollerFresh`, `PoolRecovers` |
| `desktop` | `MCDesktop.cfg` | 57 702 | game: `TTypeOK`, `ShapeFits`, `NoFullRows`, `BlocksConserved`, `KeepsFalling`; calendar: `SheetIsCalendar`, `DateTaken`; calculator: `CalcTypeOK`, `OperatorPending`, `DisplayLagsOnlyAtZero` |
| `walker_lost` | `MCWalkerLost.cfg` | violated | `RunsToCompletion` |
| `evim_quit_typed` | `MCEvimQuitTyped.cfg` | violated | `QuitKeepsText` |
| `browser_history` | `MCBrowserHistory.cfg` | violated | `TopIsCurrentPage` |

Bounds, and why they suffice:

* `multi`: two handles and three nodes. Three nodes give an oldest, a middle and
  a newest one, so that every position a node can be unlinked from or appended
  behind occurs; two handles give a handle that is re-added while its earlier
  message waits. Handles and nodes are interchangeable (symmetry). The proofs
  remove these bounds.
* `transfer`: the client of a behaviour uses one of two groups of options
  (`MCCurlTransfer`). One group is about where requests go: two hosts and three schemes,
  so that a chain can leave an origin by host or by scheme and come back. The other is
  about what is sent and what comes back: one host, all method options, and statuses 200,
  301, 303 and 404, where `CURLOPT_POSTREDIR` decides whether 301 turns a request into a
  GET. At most two redirects (the code's default is 20): the smallest chain in which a
  redirect that turns a request is followed by one that does not, with a retry before,
  between or after them. `RequestCap` only stops the counter, above the bound the property
  states. The proofs remove these bounds for everything but `Terminates`.
* `walker`: three objects over two slots (git's default is five), so that slots
  are reused while other requests are under way; one repository and one alternate;
  up to two lost completions: after one a slot is stuck beside one that goes on, and
  after two `get_active_slot()` waits for a slot (`WaitForSlot` happens only then).
  The proofs remove these bounds for the four invariants.
* `refs`: two processes, one with one and one with two operations; two
  references, one loose over packed and one only packed; a deletion with a checked
  old value, a deletion and an update in one transaction, and one that locks in the
  opposite order with a verification; one fault. The smallest instance in which a
  packing, its pruning and a transaction overlap while a third operation reads.
  The proofs remove these bounds for everything but `OperationsEnd`.
* `refs_reads`: one reader of one reference, against five operations of another process
  (packing and setting in turn) and no fault: the fewest with which a read, or an
  iteration, uses up its three tries although the reference is there all the time.
  `refs` has too few operations for that. `ReadsAreCurrent` is proved for any number.
* `desktop`, the game: a 4×4 board, the O, T and I shapes, two levels after two lines each
  and a byte that wraps at 3. The board is wide enough for a row of two shapes and
  low enough for games to end.
* `evim_undo` and `evim_typing`: texts of up to six and four characters and two
  undo objects before editing stops (`TextCap`, `UndoCap`; undo, writing and
  leaving go on), a queue of three bytes so that it fills, a tab stop of two.
  A write that falls short writes any prefix in `evim_typing`, and nothing or one byte in
  `evim_undo` (`ShortWrites`): whether a file is cut off matters there, not where. The
  keys are chosen: see section 5.
* `browser`, the window: two pages, two commands and two events in flight, a history of two, two
  retries of two ticks each.
* `browser`, the widget: two frames, the smallest pool with a front and a back buffer; a
  document shorter and one longer than the view, two view sizes, two events.
* `desktop`, the calendar: every month from 1890 to 2110, which holds the exceptional century
  years 1900 and 2100 and the unexceptional 2000; the proof takes every year from 1 on.
* `desktop`, the calculator: a keypad of four characters instead of twelve; the proofs take
  any width from three on.

`MCDesktop` and `MCBrowser` put independent models side by side: a variable set at
the start chooses one and the others stand still in their initial states, so the
run's states are the sum of the parts', not their product.

Deadlock is not checked where the program may end: evim is left, the widget is
destroyed, the walk is over, the processes have made their operations.

Fairness:

* `CTFairSpec`: weak fairness of a step of `curl_perform()`. It is a plain loop,
  and every exchange in it has a timeout (`HttpsRequestSetTimeout`).
* `HwSpec`: weak fairness of the one thread's next step. Every step of the model
  ends; what may go on for ever is a loop of the code.
* `RSFairness`: weak fairness of each process. No process waits for another
  without end: `lock_file_timeout()` gives up after a time (the default for
  references is 100 ms, for `packed-refs` one second), so that finding the lock
  taken is itself a step. A time-out configured as -1 is not modelled.
* `TFairSpec`: frames go on while the game does; `game_loop()` runs one every
  `FRAME_DELAY` whatever the player does. `FramesGoOn` is weak fairness with its
  ENABLED spelled out.
* `BrFairSpec`, `WvFairSpec`, `CalFairSpec`: weak fairness of the window timer,
  which runs for as long as the window is open; in `Browser` also of the engine
  taking a command. No fairness is assumed of users, servers, pages or the clock.

## 4. Proofs

`CurlMultiProofs` proves, for any sets of handles, nodes and results:

* `CMInvariant`: `CMSpec => []CMInv`, where
  `CMInv == CMTypeOK /\ ListMatchesFlags /\ ChainIsQueue /\ Retired`;
* `MultiMemorySafe`: `CMSpec => []MemorySafe`;
* `MultiImplementsQueue`: `CMSpec => ImplementsQueue`, the refinement.

`MemorySafe` is not inductive: that the next pointer of an allocated node names an
allocated node survives `info_read` only if nothing else points to the node that
is freed. `ChainIsQueue` says so by tying the chain to `order`, a duplicate-free
sequence of exactly the allocated nodes; `Retired` adds that a `CURLM` which is
being or has been destroyed has no handles and, once destroyed, no nodes, without
which `curl_multi_init` could leak them. `RemoveFirstLemma` says what unlinking
leaves of a duplicate-free list, `EnqueueLemma` and `DequeueLemma` that the two
pointer manipulations keep the chain; `CMInitInv` and `CMNextInv` are the two
halves of the induction, with one case per action. `StepSimulation` maps every
step to a step of `CompletionQueue` or a stutter: `PerformHandle` to `Complete`,
`PerformNoMemory` to `CompleteSilently`, reading and freeing a node to `Take`.

The assumptions are `CMAssumption`: NULL is no node and no handle, and CURLE_OK is
a result.

`CurlTransferProofs` proves, for any schemes, hosts, statuses and options:
`TransferInvariant`, and from it `TransferTypes` (`CTTypeOK`), `TransferRequestBound`
(`RequestBound`), `TransferBodyOnce` (`BodyOnce`) and, as action properties,
`TransferSuccessIsFinal` and `TransferTurnsOnce` (`RequestTurnsOnce`). `CTInv` adds the
types of every variable, that `requests` is at most redirects plus retries, plus one
once a response is being handled, that the redirects made are within `maxredirs` and
are none without `CURLOPT_FOLLOWLOCATION`, and that the URL, status and response
recorded belong to the last request. `Turned` is what `RequestTurnsOnce` needs: the
loop's `method` and `has_body` are those the client asked for, and so were all requests
sent, or they are those of a plain GET, and either such a request has been sent or the
response that turned it is the last one recorded. The assumption added for the proof,
`OptionAssumption`, says that a client sets an option to a value of its type.

`HttpWalkerProofs` proves, for any number of objects, slots, handles and
repositories, any number of lost completions and any depth of nested callbacks:
`WalkerInvariant`, and from it `WalkerSlotsCounted`, `WalkerCompletionsBelong`,
`WalkerWaitersStand` and `WalkerCallbacksLive`, the four invariants of the `walker`
run. The inductive invariant is `SlotsRemain => HwInv`, with these parts:

* `SlotPart`: no two slots share a handle; exactly the handles of slots in use are
  registered; the counters count; every queued completion is of the request of a slot
  in use, and no handle has two; a transfer is pending only inside
  `curl_multi_perform()`; and the slots that are in use but neither pending nor queued
  nor being finished (`Silent`) are no more than the completions lost. That last
  count is what ties `active_requests` to the queue;
* `ObjPart`: a request is `ACTIVE` exactly while the slot it points to serves it or
  its callback is the innermost call;
* `CallPart`: where on the stack each function can stand. A callback stands on
  `process_curl_messages()` and is innermost, `fetch_object()` is the second call;
* `Covered`: while completions wait, some call under way will not return before the
  queue is empty. At the second level of the stack, where requests are released and
  objects asked for, there is no such call, hence the queue is empty there, all slots
  in use are silent, and with `SlotsRemain` there is a free one (lemma `Alone`). This
  is where the proof needs `SlotsRemain`, in `prefetch` and in `AbortRequest`, and the
  case described in section 2 is what happens without it;
* `AskPart`, `WaitPart`: at most one call is about to start a request for an object,
  and that object is not being served; an object is `WAITING` only between
  `prefetch()` and the `fill_active_slots()` it calls;
* `TopPart`, `WaiterOK`: what a callback for the list of alternates finds, and that
  the address a slot keeps is of a `run_active_slot()` on the stack that waits for it.

The lemmas fall into three groups: how calls come and go (`Pushed`, `Popped`,
`Replaced`, `TellAndCall` and what stays true of the calls below), how a slot is
taken, written to, put to work again or released (`SlotTaken`, `SlotRestarted`,
`SlotReleased`), and one step lemma per action, combined in `NextKeeps`.

`BrowserProofs` proves `BrowserTypes` (`BrTypeOK`, in which the retries of a session
are bounded), `ViewInvariant`, `ViewOwnsFrames` (`FrameOwnership`) and
`ViewScrollerFresh` (`ScrollerFresh`), for any pages, frames, view sizes and any number
of events drained by one timer tick. A tick is a recursive function over the waiting
events; that it keeps the types, and hands every frame over to exactly one place, is
shown by induction on the events handled so far, with `Iteration`. The invariant of the
widget adds that the frames in events are distinct and in neither the pool nor on
display, and the types of all events.

`DesktopProofs` proves of the game `GameInvariant`, and from it `GameTypes`,
`GameShapeFits`, `GameNoFullRows`, `GameScreenFresh` and the action property
`GameBlocksConserved` (`BlocksConserved`), for every size of the board, every set of
shapes that `TAssumption` admits and every table of levels. The heart is
`clean_destroyed_blocks()`: the loop from the top down is a recursive function, and the
induction over its rows says that after row k no row above it is full and those below
are untouched. Without the order (the mutant `CleanBottomUp`) that is false.

`BlocksConserved` counts cells. A full row that `destroy_row()` takes away costs exactly
its width (`RowRemoved`: what is left corresponds one to one to the cells outside the
row), but only if row 0, which the loop copies and does not clear, is free. That it is
free when a game goes on is the point of the proof: a block in row 0 ends the game
unless it completes the row, which the first such block cannot do on a board of two or
more columns, and on a board of one column there is never a block at all
(`OneColumn`). A shape whose rows have no gap is then either above the grid as a whole,
and the grid stays, or below row 0 as a whole, and every block counts (`LockCounts`).
For this `TAssumption` asks that shapes are `Compact`: distinct blocks, without an empty
row or column between them, like the seven of `game.c`; `RotatedShape` shows that
turning keeps it.

Of the calendar it proves `CalendarSheet`: `CalSpec => []SheetIsCalendar`, the sheet of
the month shown has every day under its weekday and between the right neighbours, and
marks today and nothing else, for every year from 1 on. The formula of `getFirstDayOfMonth()` is compared with a count of
days in three parts: `Centuries` and `LeapCounted` turn the divisions by 4, 100 and 400
into the century and the year in it, on which the formula works; `MonthTerm` says that
its term 13(m + 1)/5 is, up to whole weeks, the number of days before the month, with
January and February counted to the year before; `Zeller` puts them together.
`DaysFollow` and `MonthsFollow` add that consecutive months follow each other without a
gap, which makes the first and last row of the sheet right. `CalendarAssumption` says
that the clock gives existing dates of years from 1 on, where the truncating division
of C and the division of TLA+ agree.

Of the calculator it proves `CalcTypes`, `CalcOperatorPending` and `CalcDisplayLags`: the
invariants `CalcTypeOK`, `OperatorPending` and `DisplayLagsOnlyAtZero` for every width
of the keypad, from `MaxTypedAssumption`, a width of at least three (the code's is 12).
The last two are inductive as they stand. Below three characters the point of a fresh
operand would be refused for its length and the display would lag without
`hasDecimal`; that is what the assumption is for. `OutcomesAreTexts` is the lemma
that no result of a computation is empty.

`RefStoreProofs` proves, for any sets of processes, references and requests, any
number of operations and faults, and with every exception of section 5 switched on
or off:

* `StoreInvariant`: `RSSpec => []RSInv`;
* `StoreTypes`: `RSSpec => []RSTypeOK`, in which `packed-refs.new` belongs to the
  holder of `packed-refs.lock`;
* `StoreCleansUp`: `RSSpec => []NothingLeftBehind`;
* `StoreUpdatesFirst`: `RSSpec => []UpdatesBeforeDeletes`.

None of the three properties is inductive. `RSInv` adds, for every process, where
an operation of its kind may be and what it can have done by then (`Sound`), and
what its lock files belong to (`Tied`): a `<ref>.lock` of p is of a reference of the
transaction p is in, which is why a clean-up that walks the transaction's updates
finds every one of them; `packed-refs.lock` is held in certain phases only, and in
the one that writes `packed-refs.new` for certain. `OneProcess` reduces a step to
the memory and files of the process that takes it, provided that it gives nobody
else a file and takes nobody's `packed-refs.lock` (with `SignalWindow` a handler may
take another's `<ref>.lock`, which the invariant survives); one lemma per group of
actions does the rest, and `FirstIn` (every set of positions has a smallest one)
comes from the well-foundedness of the naturals. The assumption is
`RefStoreAssumption`: a request is not empty and names a reference once, as
`files_transaction_prepare()` sees to, and no process is called like a marker.

`RefStoreRefines` proves, for any sets and numbers as well, under `Careful` (the three
switches of section 5 off; any of them on refutes the refinement):

* `StoreDeepInvariant`: `RSSpec => []DeepInv`;
* `StoreImplementsMap`: `RSSpec => ImplementsRefMap`, the refinement: loose files, one
  packed file, lock files and a cache, with every interleaving, failure, signal and
  kill of the model, are a map in which a value changes only by a claim on that very
  value;
* `StoreReadsCurrent`: `RSSpec => []ReadsAreCurrent`: a reader without any lock
  reports a value the reference had while it was reading, for every reference it has
  not given up on.

`DeepInv` adds to `RSInv`, for every process, `Holds` (which locks it has by now, and
that the lock on `packed-refs` comes before its first look at what it packs) and
`Sees` (what it has seen under a lock is still so, what it has deleted from
`packed-refs` is still deleted, `packed-refs.new` is `packed-refs` with its changes);
`Unwritten` (a name still to be written is in no file and no cache, so that equal
values mean that nobody has changed the reference: the place where `OidsRecur` hurts);
and `Known`, the reason why pruning is safe. A loose file that somebody is still to
prune is in `packed-refs` with the same value (`PruneKnows`), unless a deletion under
way has just taken it out (`Going`) or it is in doubt; what a packing has cached is
still loose, or packed, or replaced (`PackKnows`); and a packing under way holds no
other value for a file that somebody else is still to prune (`Agree`), because it has
read it under the same `packed-refs.lock` under which the other has written. The step
lemmas come in pairs, one that says which of these parts an action can touch and one
per action; then every action is shown to be `Claim`, `Apply`, `Release`, `Waver` or a
stutter of `RefMap`.

`ReadersInv` relates a reader to the files: as long as it has found no loose file and
has still to look into `packed-refs` (`Missed`), every value that `packed-refs` has or
may get from a packing under way (`Coming`) is in its window. In an iteration that
holds for every reference without an entry in the cache; a broken entry stands for a
moment at which the reference was missing, or for a read that gave up. The packed file may lag
behind, but only behind a loose file that the reader would have found, or has missed
because it was created after the read began.

The proof changed the model. The mapping used before was wrong with three processes:
TLC has a counterexample in which a reference in doubt is pruned and brought back by a
packing while a third process claims it, which changes value and claim in one step;
`ReadsAreCurrent` was false in the same corner. Two processes do not reach it. `RefMap`
now says what is promised of a reference in doubt.

`Iteration` states induction over 0 .. n for a set of numbers instead of a
predicate: the library's induction theorems take an operator, which the installed
provers cannot instantiate, but a set comprehension carries the predicate as well,
and the well-foundedness of the naturals gives the least counterexample.

Only model-checked: all liveness (`Terminates`, `FetchEnds`, `OperationsEnd`,
`RetryFires`, `PoolRecovers`, `KeepsFalling`, `DateTaken`; the prover has no fairness or
ENABLED), and everything about `Evim`. There a command with a count is a fold over an
operator, about which no lemma can be stated that the provers can instantiate; what
the undo records say of a text is a recursion over them; and the invariants hold for
chosen sets of keys only (section 5), not for every value of the constants.

## 5. Where code and comments disagree

Three disagreements have a run that exhibits them:

* `walker_lost`: `curl_queue_done()` gives up when there is no memory for the
  message, but `curl_multi_perform()` has already marked the handle as completed;
  `http.c` ignores the return value, and `run_active_slot()` loops for a message
  that never comes, although `http.h:53` says of `run_one_slot()`, which is that
  loop, "This will run one slot to completion in a blocking manner".
* `evim_quit_typed`: a typed character goes into the text without
  `undo_push_insert()`, so `modified_count` stays 0 and `:q` leaves, although
  `vim_cmd.c:410` says "don't exit if the file been modified".
* `browser_history`: `reload()` and `goBack()` raise `m_historyNav` for the load
  they queue, and the next accepted page lowers it, whichever page that is. A
  link followed in between is not pushed, although `main.cpp:90` says "top =
  current page".

The reference store has four known exceptions. The constants of `RefStore` switch
three of them on, and TLC then refutes `ImplementsRefMap` on two processes:

* `AutoModes = {TRUE}`: `pack-refs --auto` counts the loose references, and so
  fills the cache it packs from, before it locks `packed-refs`
  (`files-backend.c:1396`, compare the comment in `files_transaction_prepare()`
  that the lock is kept "so that somebody else doesn't pack a reference that we are
  trying to delete"): a reference deleted in between comes back;
* `OidsRecur = TRUE`: pruning checks that the loose reference has the value that
  was packed (`files-backend.c:1245`, "make sure nobody touched the ref, and
  unlink"), not that nobody touched it: a reference changed, packed by somebody
  else and changed back loses its last change;
* `SignalWindow = TRUE`: `rename_tempfile()` takes a file off the process's list
  only after the rename (`tempfile.c:352`); a signal in between makes the handler
  unlink the path of a lock file that may be another process's by then.
  `delete_tempfile()` unlinks before it takes the file off the list as well
  (`tempfile.c:367`); this second, equally short window has no switch: in the model the
  unlink and the removal from the list are one step;
* a transaction that fails while it finishes keeps the references it has renamed
  already, although `refs.h:785` speaks of rolling back; `UpdatesBeforeDeletes`
  says what is left of atomicity.

The passing evim runs are about the commands that do record what they do, and
their key sets leave out combinations that were found to break the properties
while the model was written. These are known deviations of the code:

* undoing past a `:w` makes `modified_count` negative, and the next edit brings it
  back to 0 (`vim_text.c:459`); `evim_undo` therefore leaves by `ZZ` and `:q` and
  has no `:w`;
* `file_write()` opens with `O_TRUNC` (`vim_text.c:887`), against the comment at 883,
  so that a `ZZ` on a full disk cuts the file off and editing goes on
  (`vim_dcmd.c:714-721`). After `x`, such a `ZZ` and `u`, `modified_count` is 0 and `:q`
  leaves the file cut off, against the comment at `vim_cmd.c:410`: with the keys of
  `evim_undo`, TLC refutes `QuitKeepsText` by these four keys. What does hold there is
  `QuitDropsOnlyUndone`: undoing everything is the only way to leave with a text that is
  not on disk;
* as many backspaces as there is text left lose a byte on undo: the test at
  `vim_text.c:347` is meant for a deletion that empties the text, as the comment at
  349 says;
* Delete in insert mode is recorded ahead of the queued insertion before it
  (`vim_dcmd.c:685`), and End, Up and Down move dot with the queue uncommitted
  (`vim_dcmd.c:389`): undo then applies edits in the wrong order or place.
  `evim_typing` has these keys, and no `u`;
* a put after the last line, undone, leaves dot equal to end, and `x` there
  records a byte that is not in the text (`vim_dcmd.c:891`); `evim_undo` puts
  before the line (`P`) only. Typing there would add to the text behind its last
  newline; `evim_typing` has `p`, but no `u` and no `J`;
* `J` with a count starts a new undo operation for every line
  (`vim_dcmd.c:639`, compare `vim_text.c:286`); `evim_undo` has `J` without one;
* `text_hole_make()` moves the text without adjusting `undo_queue_spos`
  (`vim_text.c:195`, compare the warning at 184). The model keeps it
  (`spos_stale`, `wild`); the runs give the text room enough not to move;
* the calendar asks for the date only while it shows 1970 (`calendar.cc:267`): a
  user who pages out of that year first keeps the boot date as today. `DateTaken`
  is stated with that exception;
* a refused decimal point leaves the old number on the calculator's display
  (`calculator.cc:148`). `DisplayLagsOnlyAtZero` says that this is the only case;
* the browser's retry countdown goes on while the user opens another page, and
  then replaces that page; retries are counted for the session
  (`main.cpp:128`, 160).

## 6. Not modelled

The rest of upstream git, curses and the demonstrations (vendored, or calls into
libraries); of the HTTP client, requests that cannot be started (no handle, no
temporary file), `http_cleanup()`, authentication, the smart protocol and the ref
listing; of the reference store, symbolic references and HEAD, reflogs,
directory/file conflicts and the removal of empty directories, worktrees, hooks,
the reftable backend and `initial_transaction_commit()`;
`compat.c` (no state); drawing, the terminal and syntax colouring; evim's visual
mode, word and search motions, shifts, `U`, `X`, `.`, marks, named registers,
addresses, `:s`, `:r` and options; curl's duplicated handles, `getinfo` formats,
header lists and error texts; the widget's mouse and key forwarding, and its early
returns for an event without a frame or a widget without a view, which change nothing
(`WidgetWebview.cc:291`). What a
component leaves out is noted with it in `PROJECT.json`.

## 7. Plan

Done: the multi interface with its refinement, the transfer, git's HTTP slots and
walker on top of the interface's promise, git's reference store with its refinement and
faults, evim's recorded commands and typing, the game, the browser, the widget, the
calendar, the calculator; the safety invariants, the action properties and both
refinements of all of them but evim are proved.

Next, in this order:

1. Requests that cannot be started, in `HttpWalker`.
2. evim: shifts, `:s`, visual mode, `U` and `.`, word motions, named registers.
