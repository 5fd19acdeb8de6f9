# A formal model of go-rod

go-rod drives a Chromium browser over the DevTools protocol. Its own logic is
concurrent through and through: every page, listener, call and hijacked request
is a goroutine that shares a socket, a hub of events, a map of states and some
locks with the others, and every one of them may be cancelled at any time. This
directory models that logic in TLA+, checks it with TLC and proves most of its
safety with TLAPS. Paths below are relative to the repository, lines as `file:line`.

## 1. The system

| component | state it keeps | operations | hard because of | what makes it correct |
|---|---|---|---|---|
| websocket frames (`lib/cdp/websocket.go`) | connection, reader | Send, Read, Close | lengths that change the header, close after an error | a message read is the message sent |
| devtools client (`lib/cdp/client.go`) | `pending`: a callback per call; the id counter; the channel of events | Call, consumeMessages | cancellation against a late response, failing Send, crash of the browser, one reader for everything | own answer, no lost answer, everyone returns |
| event hub (`pkg/goob`) | subscriptions, a buffer and a signal per pipe | Publish, Subscribe, the pipe's reader, the watcher | lost wake-ups, slow readers, a hub that ends | no event lost, doubled or reordered; Publish never waits for a reader |
| browser events (`browser.go:409-535`, `utils.go:31-63`) | the listeners, one parsed event per message | initEvents, Event, eachEvent, WaitEvent, Load | callbacks call the browser while its events wait; listeners end with a loop, a context or the connection | a listener sees every event after it was set up, in order; nobody waits for a listener |
| domain states (`states.go`) | the record of every request, per session | EnableDomain, DisableDomain, set, LoadState | overlapping users, requests done but not recorded | a user finds the domain as it wants it; the state before comes back |
| page lifecycle (`browser.go:239-394`, `page.go:319-385, 1059-1081`) | page cache, `targetsLock`, a context per session | PageWithContext, PageFromTarget, Close, ForceClose, initEvents | lock held over requests and dialogs, pages that vanish, late records | one session per target, closed means gone, nothing kept, operations end |
| javascript contexts (`page_eval.go`) | the window's id, the helpers' ids | Evaluate, getJSCtxID, ensureJSHelper | navigation at any time, goroutines and clones that share the ids | every Evaluate ends; a cached id belongs to its window; no window comes back after a navigation |
| request hijacking (`hijack.go`) | handlers, patterns | Add, Remove, Run, Stop; a goroutine per request | handlers share one Hijack; enable before subscribe | every paused request is released, once, as the first handler in charge decides |
| waits (`page.go:735-860`, `lib/utils/utils.go:174-240`) | running requests, a timer | WaitRequestIdle, WaitStable, IdleCounter | a timer that fires against a new request | idle means idle for the duration; stable means that every wait succeeded |
| sleepers and retries (`lib/utils/sleeper.go`, `query.go`) | counts and intervals | Retry, RaceSleepers, ... | losers of a race that go on, locks that heed no context | Retry ends, and so does every goroutine it started |
| pools, streams (`utils.go:93-180`) | a channel of slots; a buffer | Get, Put, Cleanup; Read | failing creates; data with the end | the limit holds, no slot is lost |
| input (`input.go`, `element.go:80-122`) | pressed keys, held buttons, position | Press, Release, Do, MoveTo, Down, Up, Hover, Click | failing requests between two steps, clones with mice of their own | record and browser agree, nothing stays down |
| launcher (`lib/launcher/launcher.go`, `output_parser.go`) | process, its output, exit channel | Launch, Kill, Cleanup, Write | a select of five, a lock held over a send | Launch returns, no process left |
| browser installation (`lib/launcher/browser.go:640-860`) | files, file locks, the recorded revision | DownloadAndInstall, Get | several processes, crashes between steps | what is recorded is complete |
| longest common subsequence (`pkg/got/lib/lcs`) | chains of nodes with counters | add, find, replace, free | nodes shared, changed in place and recycled | the result is a longest common subsequence |
| webshot (`cmd/webshot/chrome`) | one browser, its directory | Init, Screenshot, Cleanup | several goroutines, ended contexts | no tab or browser left |

How they interact: `CDPClient` hands every event to `Browser.initEvents`, which
publishes it in the hub; a listener (`eachEvent`, `HijackRouter`, the goroutine
of a session, `Close`) is a subscription of that hub. Every call of a page goes
through `Browser.Call`, which asks the client and then records the request in
the states, which `EnableDomain` reads. A page's session context ends when the
goroutine of the session sees it detached, and that ends the page's own hub.
`WaitStable` is made of `WaitRequestIdle` and of `WaitDOMStable`, which compares
two snapshots by `LCS`; a Webshot starts its browser with a launcher, and a
launcher without a binary has it installed.

Left out: generated code and data (`lib/proto`, `lib/js`, `lib/assets`,
`lib/devices`), packages kept in the tree (`pkg/gson`, `pkg/gop`, `pkg/got` but
for its `lcs`, `pkg/winacl`, `pkg/winaclx`), wrappers (`must.go`), tracing
(`dev_helpers.go`), operating system calls (`lib/launcher/os_*.go`) and scripts
that run in the page (`element.go` mostly).

## 2. The modules

| module | models | state and actions |
|---|---|---|
| `Broadcast` | what the hub promises | an order of events, what each listener heard; abstract |
| `Goob`, `GoobProofs` | `pkg/goob/goob.go`, `pipe.go` | the hub's lock and map, each pipe's buffer, signal and reader |
| `RemoteCalls` | what the client promises | calls asked, carried out, given up, ended; abstract |
| `CDPClient`, `CDPProofs` | `lib/cdp/client.go` | `pending`, one `pc` per call, the reader with its `hand`; the browser's `Answer`, `Emit` and `Crash` are external |
| `EventLoop`, `CDPProofs` | `browser.go:434-534`, `context.go:44` | composes `CDPClient` (EXTENDS) and the hub (`INSTANCE Broadcast`) with the goroutine that `carries` events and the loops of `eachEvent` |
| `WebSocket`, `ToolsProofs` | `lib/cdp/websocket.go` | frames on their way in both directions; the server is external |
| `DomainStates`, `DomainProofs` | `states.go:23-112`, `browser.go:310-323` | what the browser has enabled, what the record says, where each user is (`at`) |
| `Hijack`, `HijackProofs` | `hijack.go:44-192`, `browser.go:434-491` | the owner's `router`, the `loop`, a goroutine per request with its handlers `todo` and the fields `ctx` of its Hijack |
| `JSContext`, `JSContextProofs` | `page_eval.go:123-182, 248-368` | the browser's documents and windows, `jsCtxID`, its lock, `helpers`, evaluators |
| `PageLifecycle`, `PageLifecycleProofs` | `browser.go:239-394`, `page.go:319-385, 1059-1081`, `states.go:66-146` | targets, sessions, `targetsLock`, the cache, the states by session, users |
| `Launch` | `lib/launcher/launcher.go`, `output_parser.go` | a record per launcher: Launch, Cleanup, the copier of the output, the waiter, the process, the context |
| `Webshot`, `LaunchProofs` | `cmd/webshot/chrome/chrome.go` | goroutines over the launchers of `Launch` (EXTENDS): the lock, the browser, the directories, the tabs |
| `Install`, `LaunchProofs` | `lib/launcher/browser.go:640-860` | installers with their `stage`, the locks, the files and downloads of each revision, LATEST.txt |
| `RequestIdle`, `ToolsProofs` | `page.go:735-800`, `lib/utils/utils.go:174-240` | the requests of the page, the events on the `wire`, the `waitList`, the counter and its timer |
| `WaitStable` | `page.go:840-858` | three waits and the error |
| `Retry` | `lib/utils/sleeper.go` | Retry's rounds, the goroutines of a race, the locks of the sleepers |
| `Keyboard`, `Mouse`, `ToolsProofs` | `input.go`, `element.go:80-122` | the record and what the browser holds down; typists with what is left `todo`; clicks with clones |
| `Pool`, `StreamReader`, `ToolsProofs` | `utils.go:93-180` | the channel and its borrowers; the buffer and the browser's position |
| `LCS`, `ToolsProofs` | `pkg/got/lib/lcs/lcs.go` | the list of chains, the heap of nodes, the recycled nodes; where the loops of add, find, replace and lcs are |

The `MC...` modules give constants their values for TLC. `MCDomains`, `MCLaunch` and
`MCTools` play several modules that do not meet, one in each behaviour: what a
behaviour is about is chosen in the initial state and the others stand still, so
that the states add up and do not multiply.

An operator whose comment begins with "Mistake:" is a plausible error in the
definition that follows it. No specification uses it; each shows that a property
notices the error when it takes the place of the definition.

### Cutting the code into steps

A step ends where another goroutine could see a difference: at a lock, a channel
operation, a request to the browser, the return of its response. Reads and writes
under one lock are one step. A request has its effect in the browser in one step
and its response reaches the caller in a later one wherever the time between
matters: in `CDPClient`, `EventLoop`, `DomainStates`, `JSContext` and for the long
operation, `Close` and `Navigate` of `PageLifecycle`. In the rest of
`PageLifecycle`, in `Hijack`, `Keyboard` and `Mouse` a request, its response and
its record are one step, which is right there because the caller holds the lock
that the others need, or owns what it touches.

### Event hub

`Publish` holds the hub's lock while it writes into the buffer of every pipe
(`WriteAppend`) and signals its reader without waiting (`WriteSignal`). A reader
swaps the buffer for an empty one (`ReaderTake`), delivers it event by event
(`ReaderDeliver`) and sleeps until the next signal (`ReaderWake`). A subscription
ends by its own context (`Cancel`) or the hub's (`CancelHub`), its watcher
removes it under the lock (`Unsubscribe`), its reader closes the channel
(`ReaderQuit`). `Keen` are the subscriptions whose owner always reads on.

### DevTools client and the loops over its events

A call stores its callback, sends, waits for the response or its own context and
deletes the callback. The reader hands a response to the callback it finds under
its id, which offers it to the call until the call's context is done. When the
socket fails the reader gives the error to every callback `Range` visits; the
order of the visit and whether `Range` sees calls stored meanwhile is free, as
`sync.Map` leaves it.

`RemoteCalls` is what this comes to for who calls: a call is carried out at most once
and ends once, for a reason. A call has ended when its `ret` is set, and was carried
out when the browser has sent its response, read or not. The error matters to a caller
who would ask again: after an error of Send the browser has not carried the call out
and never will; after an error of the context or of the reader nobody knows.

In `EventLoop` the reader's event is taken by the goroutine of `initEvents`
(`Carry`), which publishes it (`Publish`) and ends the hub when the reader has
closed its channel (`EndHub`). A loop of `eachEvent` subscribes (`Listen`), takes
events (`Take`; the goroutine in `Browser.Event` between hub and loop is part of
the hub's pipe here, whose order `GoobProofs` keeps), runs a callback that may
call the browser (`CallBrowser`) and go on or end the loop (`CallbackReturns`).
The question is the cycle: a callback waits for a response that comes behind an
event that waits for the callback. The pipe in the hub has no bound and breaks it.

### Domain states

Enablers stand for `eachEvent` and every other caller of `EnableDomain`,
disablers for `DisableDomain`: look at the record, ask the browser if need be,
record the request when it was answered, and undo the same later. They overlap
in any way, and a context may end, after which a request is served but not
recorded. `met` and `before` are history; the properties use them to say under
which of these circumstances they hold.

### Request hijacking

The browser pauses a request when interception is on and it matches a pattern,
or when there is no pattern. The event goes to the router's loop if it is
subscribed, and to nobody (`missed`) otherwise. A handler is the user's code:
its `Verdicts` are what it may ask for. An owner is `careful` if it adds the
`Needed` handlers before `Run`, removes none and lets the page make requests only
afterwards; the model has behaviours of both kinds. `answers` and `chosen`, what
each handler that ran for a request decided, are history.

### JavaScript contexts

Windows are numbered in the order they are fetched; a window dies with its
document. `helpers` is the map of each Page object, empty where the code
sets it to nil. Clones are made before there are helpers: a clone made later
shares the map, under the same keys, until one of the two resets its own.
`pageOf` says which Page object a goroutine uses, any of `Sharings`. A request for
the window is sent (`WindowAsk`), answered by the browser (`WindowAnswer`) and its
answer stored (`WindowStore`), all with `jsCtxLock` held. A refused call ends in
`lost`, when the window is gone, or in `refused`, when the helper is of an earlier
document than the window; its caller may call Evaluate again.

The loop of Evaluate (`page_eval.go:128-146`) is meant to forget a lost window and
to begin again. The model has no such step, because for the real client there is
none: `errors.Is(err, cdp.ErrCtxNotFound)` asks `cdp.Error.Is`, which compares
pointers (`lib/cdp/error.go:21-25`), and the client decodes each error into a new
`cdp.Error` (`client.go:159-172`), which `Browser.Call` returns as it is. Only the
stubs of the tests return the pointer itself. The window is forgotten by `Navigate`
and `Reload` alone (`NavigateUnset`); `since` is history, the document at the time
of the browser's answer to the last `Navigate`.

### Page lifecycle

A page is named by the user that attached it. `Vanishes` is the end of a target
with the events it causes; `notice` are those under way to a session's
goroutine, which subscribes some time after the attach. `override` holds the
pages whose context `PageWithContext` replaced. A page that is asked to close
does so (`PageCloses`) or has its dialog dismissed (`PageStays`), as its user
likes. A user's operation or close is `bound` if it began with the context that
ends with the session, and a close may have its own context `expired`. A scene
says which users take part, whose target is whose, who makes one and what each
does with its page; every member of `Scenes` is played.

### Launcher, webshot, installation

Launch is cut at each branch of its select (`SelectURL`, `SelectContext`,
`SelectExitErr`, `SelectExit`, `SelectTimeout`), several of which may be ready.
The goroutine that copies the output holds the parser's lock while it offers the
URL (`PrintsURL`), and Launch asks for the parser's error under it (`AskParser`).
`Waited` closes `exit`. The process may die at any time. `follows` says whether
`Launcher.Context` was called, which makes the parser heed the context.
A Webshot's `Init` and `Cleanup` hold its lock, and Init keeps it while the
launcher works; `Screenshot` uses the browser after Init has returned. Installers
are processes or goroutines; `UnzipBegins` and `UnzipEnds`, `RecordBegins` and
`RecordEnds` are apart so that a `Crash` may come between, and a crashed one may
`Restart`. A record that cannot even open LATEST.txt (`RecordFails`) leaves it
as it was. `spoiled` is history.

### Helpers

`RequestIdle` counts time in ticks, which any step may fall between; `quiet` is
history. `Retry` has a race of a count and a backoff in each round; a loser goes
on after Retry has left the round. `Keyboard` plays scripts of key actions by
several goroutines, a stroke as its press and its release; `Mouse` the page's mouse
with how often each button is recorded, and clicks on elements, which use mice of
clones. A request of theirs that fails may have had its effect. `Pool`
gives numbered elements; `StreamReader` reads a stream of numbered bytes in
pieces of any length. `LCS` takes each round of each of the code's loops as a step:
the items of ys, the positions of an item, the bisection of find, the nodes that
replace frees, the chain that lcs follows; a node is a number of the `heap`, and
`chased` the pointer of a loop. `WebSocket` has a message as a number of equal
bytes, headers byte by byte, and breaks the connection within a frame; a size is at
most 2^31-1 (`MaxSize`), beyond which TLC does not count. What a server that follows
RFC 6455 makes of a frame is a relation of its own (`Carries`), which Send never uses.

## 3. The runs

A run checks everything said of its components, safety and liveness, in one fair
specification; a property that needs a condition states it, in terms of the
behaviour and not of the run.

| run | instance | states | shows |
|---|---|---|---|
| `goob` | two publishers, two subscriptions that come, stop reading and end | 174 000 | `IInv` (the invariant of the proofs, with `Faithful` in it), `PublishReturns`, `Reclaimed`, and `HubSpec`, the refinement of `Broadcast` with its promise of delivery |
| `cdp` | two calls, one in a callback, two events, contexts that end, a crash | 333 000 | `OwnAnswer`, `AbandonedOnlyBySendError`, `EventsInOrder`, `ServiceSpec` (the refinement of `RemoteCalls`), `NobodyWaits`, `ListenersServed` |
| `domains` | two enablers, a disabler, contexts that end; or three requests, three handlers, two of which match one request | 392 000 | `UserServed`, `Settled`, `UsersFinish`; `AnsweredOnce`, `FirstDecides`; for a careful owner `OnlyWanted`, `NoneStuck` |
| `js` | two evaluators on one Page object or on clones, three documents, a navigation, contexts that end | 556 000 | `CacheSound`, `ClonesSafe`, `WindowFresh`, `EvaluateReturns` |
| `page` | three users in four scenes, requests that fail, contexts that end, targets that vanish | 146 000 | `OneSession`, `ClosedIsGone`, `NothingKept`, `OperationsAbort`, `UsersReturn` |
| `launch` | a launcher by hand; or two screenshots, a cleanup and three launches; or two installers, two revisions, a crash | 557 000 | `NothingLeft`, `CacheSafe`, `LaunchersEnd`, `CallersReturn`, `InstallersEnd` |
| `tools` | one helper at a time | 558 000 | `IdleForDuration`, `IdleReturns`, `RetryEnds`, `KeysReleased`, `ButtonsAgree`, `PoolSound`, `StreamComplete`, `LCSCorrect`, `FrameRoundTrip` |

The runs that end in a violation show where the program does not do what its
documentation or a test says. Each checks one property:

| run | property | what happens |
|---|---|---|
| `cdp_crash` | `CrashEndsCalls` | a call whose Send failed leaves a callback that holds the reader, and with it the calls not visited yet |
| `page_abort` | `EveryOperationAborts` | a page made by `Browser.Page` keeps a context that does not end with it |
| `js_lost` | `LostRetried` | an evaluation whose window is gone returns the browser's error, for `errors.Is` never finds it equal to `ErrCtxNotFound` |
| `input_click` | `ClickLands` | `Element.Click` hovers with one clone's mouse and presses with another's, which is at the origin |
| `wait_stable` | `StableMeansStable` | the first wait to end sets the error of `WaitStable`, even to none |

Other limits of the program are the conditions that passing properties carry:

- `ListenersServed`: a loop whose callback waits for a call does not return while
  the reader is held by another call, whose Send failed (`client.go:112`). A
  wait function of `eachEvent` that is never called leaves its subscription.
- `Settled` and `UserServed` (`~Cancelled`): the restore of a done context takes
  effect unrecorded (`browser.go:315-321`), and the next listener of the session
  enables nothing.
- `UserServed`: a user finds its domain enabled until one it overlaps with leaves;
  the first of two listeners to finish disables the domain of the other
  (`states.go:84-92`).
- `Settled` (`~Mixed`): an EnableDomain and a DisableDomain that overlap restore
  what each of them found, not what was before both.
- `AnsweredOnce` (`RespondersAlone`): a response does not end the loop over the
  handlers (`hijack.go:100`), so two handlers that match one request and may both
  fulfil it answer it twice.
- `FirstDecides` (`SkippersYield`): `Skip` is never reset, so what a later handler
  responds is not sent (`hijack.go:88`). Both conditions are on the handlers' `Url`
  and `Verdicts`, and the run's satisfy them.
- `OnlyWanted` (`careful`): `Remove` forgets resource types and, with the last
  handler, asks for every request (`hijack.go:137-144`).
- `NoneStuck` (`careful`): interception is on before the router listens
  (`hijack.go:67`, `browser.go:455`).
- `ClonesSafe`: two goroutines on one Page object may store a helper into a map
  that the other has dropped, which panics (`page_eval.go:320`).
- `EvaluateReturns` (the browser answers): whoever waits for the window's lock
  takes no notice of its own context (`page_eval.go:325`). A return may be an error:
  a window that dies with a link or a script stays cached, and every Evaluate fails
  until the next `Navigate` or `Reload` that succeeds. `Reload` begins with an
  Evaluate, so it fails as well.
- `WindowFresh`: the browser may answer `Navigate` before it has the new document
  (`page.go:169`); a window fetched in between is of the old one.
- `ClosedIsGone` (`expired`): `Close` reports success when its own context ends
  while it waits (`page.go:340-358`).
- `NothingKept` (`OnlyClosed`): a response that is recorded after the purge stays
  (`browser.go:321`).
- `OneSession` (`page[p] = p`): a page whose `Emulate` fails stays attached, with
  no Page object (`browser.go:381-385`).
- `LaunchersEnd` (`follows`): without `Launcher.Context`, a URL parsed just as
  Launch gives up keeps the lock that Launch then waits for
  (`output_parser.go:74`).
- `NothingLeft` (`gaveUp`): a browser that was started but cannot be asked or
  connected to is left running, and so is a directory that could not be given
  away; (`expired`) a tab whose screenshot timed out stays open; a screenshot
  that meets a Cleanup panics (`chrome.go:469`).
- `CacheSafe`: LATEST.txt names something complete, or being installed again, or
  given up (`spoiled`). It may go back to an older revision: its lock is released
  and never taken (`browser.go:648`). A revision may be unpacked over one in use,
  as an installer that waited does not look again.
- `InstallersEnd`: a download need not end, as `http.DefaultClient` has no timeout
  and `Browser.Context` none by default (`browser.go:740`; the `HTTPClient` with 15
  minutes is not used). Its installer then waits for ever, and so do those that wait
  for the lock of the same revision, without a context (`browser.go:704`).
- `IdleForDuration` (`early`): requests made before the loop was subscribed are
  not waited for.
- `KeysReleased` (`stuck`): when a request of `Do` fails, what it had yet to
  release stays down. `ButtonsAgree` (`unsure`) is the same for a failed request.
- `PoolSound` (`spent`): a create that fails loses its slot unless the caller puts
  back nil, and so does every receive of `Cleanup`.
- `StreamComplete` (`odd`): data that comes with the end is dropped, an empty piece
  is taken for the end, and a reader with an `Offset` reads the same piece for ever.
- `FrameRoundTrip`: the server sends whole text frames; `Read` looks at neither FIN
  nor the opcode.

### Bounds

Names of bounds: `MaxPublish` (events per publisher), `MaxEvents` (events of the
browser), `MaxDocument` (documents), `MaxNavigations`, `MaxLaunch` (browsers of a Webshot),
`MaxRevision`, `MaxCrashes`, `Duration` (ticks), `MaxRounds`, `MaxSleeps`,
`MaxHeld`, `MaxElems`, `Size`, `MaxMessages`, and the sizes of the sets of actors.
Two actors of a kind are enough for a race between two; a third is added where a
lock or a loop passes from one to the next while another waits (`domains`, `page`,
the pool, the Webshot) or where two meet and a third comes when one of them has
left (`domains`). Three documents and one `Navigate` let a window be lost before,
during and after a navigation, and a helper outlive it; an evaluator calls Evaluate
as often as it likes until its context is done. The caller of a stream reads into
slices of length zero, one, two and more than there is. Two publishers with one
event each give two orders. Two events let one wait behind the callback of
another, with a response behind both. Three launches are one that needs its second
attempt and one after a Cleanup. Two revisions let the cache hold one while
another comes, one crash falls between any two steps of an installer. Two ticks
tell a timer that runs from one that has just begun. Three rounds let a loser meet
two later rounds. The sizes of frames are those at which the header changes, and
their neighbours. Words of up to four letters of two, of four different ones in every
order, and two of five letters make `LCS` share, replace, recycle, reuse and cut off,
break the loop of replace, and free two nodes at once. No run uses symmetry. Deadlock is not checked where users do their work once and then stop.

### Fairness

Weak fairness is assumed of every goroutine's own steps: the Go scheduler
preempts and runs whoever can run, and timers fire. Strong fairness is assumed
for taking a `sync.Mutex` where several wait, as its starvation mode hands it
over in order. In `cdp` the browser may crash, and only the formulas that say so
need it up; the reader's events are taken by the carrier goroutine, which the
model has, and by nobody who is trusted to. In `domains` and `js` the browser
answers; in `page` it decides about a page it is asked to close, but a long
operation is never owed an answer; in `launch` a process whose context is done is
killed by `os/exec`; in `tools` the page's requests end. The lock of a revision
is asked for once an hour; that the look finds it free, if it does become free, is
assumed weakly, which suffices as there are finitely many others. Nothing is assumed
about downloads ending (`DownloadEnds` is not fair), contexts ending, crashes, targets that vanish, or owners of subscriptions outside
`Keen`.

## 4. The proofs

`GoobProofs` proves for any sets of publishers and subscriptions and any number
of events, from `GoobAssumption` (the types of the constants) alone:

- `Invariant`: `IInv` is inductive. It joins the types; `LockInv` (who is inside
  a critical section holds that lock, so there is one); `LogInv` (the log of
  published events holds each event once, and each writer's position in it);
  `PipeInv` (what a reader has received, then its section, then its buffer is a
  segment of the log that ends where the log does, but for a pipe whose turn is
  still to come); `WakeInv` (a reader about to sleep on a full buffer has a
  signal waiting, or a writer that will still give one); and `Faithful`.
- `TypeCorrect`, `PipesAreFaithful`, `WakeupsAreKept`, `OrderIsCommon`: the
  properties that follow from it. `Faithful` alone is not inductive: that a
  reader's section and the buffer together miss nothing needs `PipeInv`, which
  needs that only the holder of the lock appends.
- `ImplementsBroadcast`: every step of the hub is a step of `Broadcast` or leaves
  its variables alone, under the mapping that hides locks and buffers.

The log has no bound in the proofs; TLC's `goob` checks the same `IInv` with two
events.

`CDPProofs` proves for any number of calls and events, from `CDPAssumption` (the
types, and that no id is the name of an error), that `ClientInv` is inductive
(`ClientInvariant`). `OwnAnswer` needs more than itself: `CallInv` (the callback
is there from before the request until the call leaves; what a call returned shows
where it is and that its callback was used), `ReaderInv` (before a read has failed
only callbacks of responses were used; what the reader holds is the response of
the call it holds it for) and `RequestInv` (a request that was sent is with the
browser, in the inbox once, or answered). From it follow `EveryCallItsAnswer`
(`OwnAnswer`) and `HeldOnlyBySendError` (`AbandonedOnlyBySendError`). Every step of
the composition with the carrier, the hub and any number of event loops is a step
of the client or leaves its variables alone (`LoopIsClient`), so that both hold
there, too (`LoopCallsItsAnswer`). Events are numbered as the browser emits them:
`EventInv` says that those handed over and those in the inbox, with responses in
between, are numbered on without a gap (`EventsAreRead`); `HubInv`, that the hub's
log is what was handed over less the one that is carried to it, and what a listener
has received a part of the log without a gap; from both follows `EventsInOrder`
(`LoopsTakeInOrder`).
`ImplementsRemoteCalls` and `LoopServesCalls` prove `ServiceSpec`, step by step, from
`ClientInv` and `LostByPeer` (this side closes the socket and gives calls up only when
the browser is gone), alone and in the composition: `HandOver`, `ReturnCancelled` and
`SendFail` end a call, `Answer` carries one out, reading a response changes nothing.

`JSContextProofs` proves three things for any number of goroutines, clones and
documents. `CacheSound` (`CacheIsSound`) is inductive with `MadeInWindow`: a
goroutine that is about to file a helper has made it in the window it will file it
under. `ClonesSafe` (`ClonesAreSafe`) needs `HasEntry`: the only goroutine of a
Page object that has looked for a helper finds the map it has looked into.
`WindowFresh` (`WindowIsFresh`) needs `AnswersFresh`: an answer that is about to be
stored is as fresh as what it replaces. When `Navigate` forgets the window it has the
lock, so that nobody has an older answer in hand.

`DomainProofs` proves `Settled` (`DomainSettles`) and `UserServed`
(`UsersAreServed`) for any number of users. As long as no context ended and only
users of one kind overlapped, `FoundFirst` (whoever changes the domain found what
was there at first), `WireAwaited` (each request has a user waiting for it),
`Changed` (while domain or record differ from what they were at first, somebody is
there who will restore it) and `Served` hold, and `Meets` always. None of the four
is inductive without the others: that the last to leave restores the right thing
depends on who found what, and the order of requests on who waits for them.

`HijackProofs` proves `HijackInv` (`RouterInvariant`) for any requests, handlers,
patterns and verdicts: `Events` (an event is on its way once, of a request that no
goroutine serves), `Stages` (no handler is added or removed once there are
goroutines), `Wants` (the browser has the router's patterns, a careful owner's are
those of its handlers) and, of each request, `Suffix` (what a goroutine has left is
the rest of the list of handlers), `RanFor` (its fields are those its handlers
set), `Once` and `First`. From it follow `AnsweredOnce`, `FirstDecides` and
`OnlyWanted` (`RequestsAreAnsweredOnce`, `FirstHandlerDecides`, `OnlyWantedIsHeld`)
with the conditions that these properties state.

`PageLifecycleProofs` proves `PageInv` (`PageInvariant`) for any targets, users and
scenes, and from it `OneSession`, `ClosedIsGone` and `NothingKept`
(`OneSessionPerTarget`, `CloseIsBelievable`, `ClosedIsForgotten`). `TargetInv` ties
the sessions and what users were told to the state of the targets; `HolderInv` and
`CachedInv` say whose page a user can have and what is cached of a target (only
what was published); `SessionInv`, that a session whose maker has its page is the
cached one, or will be; `RoleInv`, where each role can be with which result; and
`KeptInv`, that a closed page is not cached, and recorded only by somebody who was
answered later.

`LaunchProofs` proves `NothingLeft` (`NothingIsLeft`) for any number of screenshots,
cleanups and launches. `LaunchersGo` says what one launcher goes through: a Launch
that failed before it resolved the URL has killed what it started, and a Cleanup
that returned leaves no process. `Untouched` keeps the launchers to come as they
were, `Current` has the Webshot's browser be the last launcher, and resolved;
`Tidy`, that no browser is up, and no directory there, when one is about to be made;
`Panics`, that a screenshot loses its browser only to a cleaner. It also proves
`CacheSafe` for any number of installers, revisions and crashes (`CacheIsSafe`),
inductive with `FilesKnown` (whoever has a revision's lock finds its files as they
left them: in part while it unpacks, complete when it records) and with there being
something of the revision that LATEST.txt names.

`ToolsProofs` has one theorem for each of seven helpers, for any number of
goroutines, elements, bytes, requests, keys, buttons, messages and letters:

- `PoolIsSound`: `PoolInv` adds to `PoolSound` that who has an element uses it;
  that Put finds room follows from the count of slots.
- `StreamIsComplete`: what was read and the buffer together are the stream up to the
  browser's position (`StreamInv`), for slices of any length, zero included.
- `IdleIsQuiet`, of the action property `IdleForDuration`: the list is counted
  right (`Counted`), a running timer and the quiet time make up the duration
  (`Timed`), and a running request is in the list or its event on the wire
  (`Noticed`).
- `KeysAreReleased`: record and browser agree (`Agrees`), a key that is down has a
  goroutine with an action on it to come (`Awaited`), because each press in what is
  left to do has one (`Balances`).
- `ButtonsAreKnown`: `ButtonsAgree` is inductive.
- `FramesRoundTrip`, for every byte and every size up to `MaxSize`: what was served
  and what is on its way out spell what was sent (`OutWay`), and what `Read` returned
  and the runs of bytes on their way in, the last frame perhaps cut short, spell what
  the server pushed (`InWay`). Under it lie the lemmas that a field of two or of eight
  bytes has the size that was put into it, that two exclusive ors give the byte
  back, and that each header takes the length the size needs.
- `LongestIsFound`, for any words over any letters: `LCSInv` says that some `lev` and
  `yy` give each node in use the length of the chain it ends and the index of its
  letter in ys. That the chains are chains, `HeapInv`: a node's successor is one
  shorter and earlier in both words (`LinksInv`), the k-th node of the list ends a
  chain of k and the list is in order (`ListInv`), a counter is at least the number
  of nodes that point there (`CountInv`), so that what is changed in place or
  recycled is nobody's tail, and the list shares tails along the list only
  (`SharedInv`, `FreeInv`), so that replace stops before it frees a node of the list.
  That nothing longer is missed, `AlgorithmInv`: what the items so far have in common
  of length k is reached by the k-th node, which ends no later, unless too little of
  ys is left to make it the longest (`EarlierInv` for the items before, `ThisInv` for
  the positions of this one), and find need not look beyond where the last position
  was put (`FromInv`). `CollectInv` says what lcs has copied.

The assumptions are the ones the modules name: types, disjointness and finiteness
of sets, and that `None` is no member. The invariants were checked by TLC on the
runs' instances before they were proved.

Only model-checked are liveness (`PublishReturns`, `Reclaimed`, the fair part of
`HubSpec`, and each property of a run that ends in a return or an end): temporal
reasoning with fairness and ENABLED is outside what TLAPS does here. The five
properties that are violated are TLC's, too. Every safety invariant of a passing run
has its theorem.

## 5. Not modelled

- `lib/proto` (about 35 000 of the 51 000 lines of the implementation),
  `lib/js`, `lib/assets`, `lib/devices`: generated, one type and one call per
  method of the protocol, or data.
- `pkg/gson`, `pkg/gop`, `pkg/got` but for `lcs`, `pkg/winacl`, `pkg/winaclx`:
  packages kept in the tree, conversions, test tools and system calls.
- `must.go`, `dev_helpers.go`: wrappers and tracing.
- `element.go`, `query.go` but for Hover, Click and the retries: scripts that run
  in the page and the calls that start them.
- `HandleAuth` (`hijack.go:415`), the window of an iframe, `Expose`,
  `EvalOnNewDocument`: possible extensions of `Hijack` and `JSContext`.
- The shared `Message` (`utils.go:54`): the first to load it parses it into its own
  variable, which all later ones copy from.
- `Browser.Close`, `Pages`, downloads, PDF and screenshots of a page: one request
  each.
- The handshake of the socket: I/O; a connection whose handshake fails is not closed.
- Processes that are killed by a recorded pid which the system has given to another.

## 6. The plan

1. Abstract specifications besides `Broadcast` and `RemoteCalls`, with the refinement
   proved: a page cache as a map from targets to sessions; a launch as a choice of one
   outcome.
2. `HandleAuth` in `Hijack`, iframes in `JSContext`; Evaluate's loop, once
   `cdp.Error.Is` compares values.
