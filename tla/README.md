# A verification of HomeDock

HomeDock is a web server manager for a home server: a FastAPI application that
shows the state of the machine, manages files and accounts, and runs downloads
through aria2 and yt-dlp. This directory holds TLA+ models of its stateful
parts, TLC configurations that check them on small instances, and proofs, checked
by TLAPS, that the main results hold for every value of the constants.
Source references are to the repository's root (`app/...`, `static/...`).

## The system

The process has one event loop, on which every `async` handler runs, and a few
threads: the worker threads of `asyncio.to_thread` (file operations, yt-dlp) and
the hot-plug monitor. Code of a handler between two `await`s is atomic to the
other handlers but not to the threads. sqlite and bcrypt are called on the
event loop and block it. Each sqlite helper opens, commits and closes its own
connection. On a restart everything but the database, the aria2 session file and
the disk is lost.

| component | state | operations | interacts with | what is hard | what makes it correct |
|---|---|---|---|---|---|
| File tasks (`services/task_manager.py`, `routers/files.py`) | task records, set of cancelled ids | create, update, complete, fail, cancel, copy/move/extract requests | worker threads (progress), WebSocket hub (broadcasts) | the guard and the store of a progress update straddle a cancellation; ids are chosen by the client | an accepted cancellation prevents completion; answer, record and feed agree |
| File service (`services/file_service.py`) | the disk | validate, list, mkdir, rename, copy, move, extract, delete | file tasks' callbacks | partial failure, cancellation in the middle, check then use | nothing is lost by a move; what was not asked for stays |
| Media downloader (`services/youtube_downloader.py`) | tasks, cancel events, rows of `youtube_tasks`, partial files | start, progress, settle, cancel, delete, load | download routes, yt-dlp threads | threads keep a deleted task; persisting is read then commit; restart | what is shown as active is being worked on; cancel reaches the worker; the table agrees |
| aria2 manager (`services/download_manager.py`) | daemon process, RPC, aria2's queue | start, stop, RPC with a retry, add, pause, remove, retry, list | aria2c, settings | the listing is three calls; retry removes before it adds | no download is lost or listed twice |
| WebSocket hub (`routers/ws.py`) | active connections, one broadcast loop | connect, initial state, disconnect, broadcast loop, storage push | storage manager, task manager | broadcasts overlap; the loop ends and restarts; sends fail | whoever is connected is served, nobody is dropped by mistake |
| Storage manager (`services/storage_manager.py`) | cached devices, a lock, counters | scan, publish, update rates, monitor loop | `lsblk`, hub's callback, requests | scans overlap; the lock is not reentrant | the cache converges; no call waits for ever |
| Rate limiter (`security.py`) | attempts and lock per address | check, failure, success | login | expired locks keep their count | wrong passwords are spaced |
| Accounts (`routers/users.py`, `auth.py`, `deps.py`) | user rows, sessions, revoked tokens | login, logout, rename, create, update, delete, seed | every route's dependency | last-administrator checks, id reuse, revocation | someone can administer; dead sessions stay dead |
| Settings (`routers/settings.py`, `downloads.py`) | rows of `settings`, aria2's global options | get, put, roots, limits, default directory | aria2 manager, file service | two stores are written in different orders | database and engine agree |
| System monitor (`services/system_monitor.py`) | bounded histories, last counters | sample | hub, system routes | rates over short intervals | histories stay bounded |
| Lifespan and configuration (`main.py`, `config.py`) | none of their own | start, stop | all of the above | order of the start-up | - |
| Browser session (`ws.js`, `api.js`, `app.js`) | token, cookie, socket, heartbeat, reconnect timer, screen | sign in and out, rename, connect, reconnect | HTTP routes, WebSocket hub | old sockets' events and late answers act on what is there now | one feed; none without a session; a signed-in page gets it back |
| File manager (`components/files.js`) | directory, rows, selection, clipboard, task card and its timers, uploads | navigate, refresh, select, copy, cut, paste, transfer, delete, rename, upload, cancel | file routes, task feed, dialogs | listings, polls, messages and answers come in any order | what is marked is acted on; the last wish is shown; the card goes away |
| Window manager (`components/window_manager.js`) | open, minimized and maximized windows, focus, drag | open, restore, close, minimize, focus, drag, show the desktop, lock | the components in the windows, motion | exit animations that are overtaken | what is open can be seen and used; the front one is active |
| Dialogs (`utils/motion.js`, `confirm_dialog.js`, `folder_browser.js`) | modal stack, the open question, the folder browser's path and callback | open, close, ask, answer, browse, choose | every component with a button | dialogs opened late or closed by the lock screen | questions are answered; a choice is of the caller's own browsing |
| Browser views (`dashboard.js`, `downloads.js`, `settings.js`, `header.js`) | copies of replies | render, submit forms | HTTP routes, the feed | a list older than the feed's last one | the view follows the server |

## Modules

| module | models | state and actions |
|---|---|---|
| `CancellableOp` | what the routes of `files.py` promise of a cancellable operation: it is asked for, perhaps cancelled, and answered once; after a cancellation it is not answered as a success | `phase`, `asked`; `Start`, `Ask`, `Answer` |
| `FileTasks` | `task_manager.py`, the copy, move and extract handlers, the cancel route and the feed of a client (`broadcast_json` in `ws.py`) | one action per step another thread can see: `StartOp`, `UpdateCheck` / `UpdateStore` / `UpdateAnnounce` (the worker's progress), `WorkerSeesCancel`, `WorkerReturns`, `WorkerFails`, the handler's three ends, `CancelEndpoint`; a scheduled broadcast makes its text (`MakeText`) and sends it later (`Deliver`), past texts made before or after it |
| `Accounts` | user rows, tokens and their checks, the administrator seeded at start | one action per route; a handler has no `await` between its checks and its write, so it is one step |
| `MediaDownload` | the yt-dlp worker, `start_download`, `cancel_task`, `delete_task`, persistence, restart | the worker is a program counter per download; cancel and delete are sequences of steps on the event loop (`call`), since the worker runs between them |
| `WsHub` | `ConnectionManager`, the endpoint, the broadcast loop, the storage callback | the endpoint and the loop are cut at their `await`s; a broadcast takes a copy of the set and sends to each member in a step of its own, which may fail |
| `StorageHotplug` | the device cache, its lock, the monitor thread and the server's calls | a scan is outside the lock, its publication under it; `update_io_stats` holds the lock |
| `LoginShield` | `check_rate_limit`, `record_failed_attempt`, `record_successful_login` and login's use of them | failures are a sequence of times per address; `Tick` is the clock |
| `SignIn` | the login route over `Accounts` and `LoginShield`, which it EXTENDS: a wrong password counts against the address, a right one clears the count and issues a session, every other request leaves the lockout alone | `WrongPassword`, `RightPassword`, `Request` |
| `FileStore` | `file_service.py`'s changes of the disk and `upload_file` | the disk maps a directory and a name to nothing, a file or a directory of files, of which some are symbolic links that a write follows (`Spot`); a request goes from item to item (`at`), file to file (`todo`) and chunk to chunk (`phase` "writing"), with a `Cancel` or a `Break` (error or crash) possible before each step |
| `BrowserSession` | `ws.js`, the token handling of `api.js`, the session part of `app.js` and the rename form of `settings.js` | a socket is connecting, open or closing after `close()`; a request carries the token it was sent with and its answer is made (`Serve`) before the page hears it; `Refusal` is the answer 401 |
| `TaskCard` | the progress card of `files.js`: `trackTask`, `handleFileTaskProgress`, `hideTaskProgress`, uploads, cancelling | one action per piece between two `await`s; polls in flight are a set, messages of the feed may come at any time |
| `FileManager` | the rest of `files.js`: listings with their sequence numbers, selection, clipboard, transfer dialog, operations followed by a refresh | a listing carries the version it was read at; operations go from `asking` to `done` |
| `WindowManager` | `window_manager.js` | one action per method; an exit animation is a state of its own (`exit`) that `Exited` completes and `Appear` cancels |
| `Dialogs` | `motion.js`'s modal stack and screens, `confirm_dialog.js`, `folder_browser.js`, opening and closing of the download manager's two forms | one action per handler; answers of the server are actions of their own |
| `Desktop` | the composition of the last two: no window is reached under a dialog or the lock screen, shortcuts work everywhere, and the menu action "new download" opens a window, waits for it and presses a button in it | `UserOfWindows`, `Anywhere`, `NewDownload`, `WindowReady`, `LateReady`, `Lock` |

`MC*` modules hold the instances TLC needs (functions over model values,
symmetry). `*Proofs` modules hold the theorems. The operators whose comment
starts with `Mutant:` are plausible bugs of the definition that follows them;
each property has one that breaks it.

Abstractions: names, payloads, percentages, sizes and messages are left out or
are model values; a device list is the version of the hardware it shows. A
broadcast of a task turns the record into text when it runs, as the code does,
since it passes the record itself; of the connections it then waits for, one
client's is followed, and `MaxTexts` bounds the texts on their way to it.
Requests to `files.py` without a `task_id`, deletions among them, have no record
and are not part of `FileTasks`. The bound of 100 rows read at start
(`youtube_downloader.py:47`) is not modelled. `FileStore` writes a file in two
steps, opened (`Partial`) and finished, which is where it can be interrupted;
directories below an item are left out and its files are leaves of one map.
Links lead to files, not to links. Left out are relative links, links to
directories below an item, links at the top under other names than suffixed
ones, which `validate_path` resolves, and the files that a directory copied to a
place behind its own link would meet while it is being walked.
A cancellation reaches the service through `is_cancelled` only, so `Cancel`
stands for all of the task manager there. The browser's modules reduce the
server to what a page can see of it: `BrowserSession` to its sessions and
answers, `TaskCard` to tasks that run and end once (how they do is `FileTasks`),
`FileManager` to a version that every change raises. JavaScript runs one handler
at a time, so what lies between two `await`s is one step. Variables commented
as history record what a property speaks about and guide no step.
In `Dialogs` pressing the button of a form again before its answer has come is
left to a later press, which does the same. In `FileManager` a deletion may be
asked for as soon as the one before is answered, while the code waits for the
refresh as well: the model allows more.

## Runs

| run | instance | question |
|---|---|---|
| `file_tasks` | 2 operations, with ids of their own or with one id; the texts of one id are followed, at most 2 on their way | do records and answers agree, what can lift a cancellation, what can mislead a client about a task, and do the handlers implement `CancellableOp` |
| `file_tasks_cancel` | the same | violated: a cancelled task reads "cancelled" (`tests/test_files.py:256`) |
| `sign_in` | 3 ids, 2 names, 2 sessions, 1 address, maximum 3, lockout 2, clock to 4 | in the login route as a whole: can the server be left without an administrator, a dead session revive, a password be guessed faster than the lockout allows |
| `media` | 2 downloads in one directory, clean-ups that fail, 1 restart | do list, workers and table agree, what leaves a partial file behind, and what undoes a deletion |
| `media_live` | 1 download, lost writes, 1 restart | does every download settle and every cancellation take effect |
| `hub` | 2 sockets, 1 change of the drives | is everyone connected served and up to date, everyone who left forgotten |
| `storage` | 2 threads, 3 changes, 2 failures of `lsblk` | does the cache converge and every call return, unless the cache was empty |
| `file_store` | one request of up to 2 items over 3 directories on 2 devices, 56 disks to find, 4 links | is a moved item ever lost, something not asked for changed, something answered as done that is not; does every request end |
| `session` | 2 sockets, 2 tokens, 1 network fault | is there ever a feed besides the one the page knows, or one without a token, and does a page that is signed in get its feed back |
| `task_card` | 2 operations and an upload of 2 files | do the card, its task and its timers agree, and what can keep the card for ever |
| `file_manager` | 2 directories, 1 name, 2 operations, 3 listings | can a button act on what is not marked, a listing hide the directory the user went to, or an old listing hide what an operation did |
| `desktop` | 3 windows, 4 dialogs, 6 acts of the user, 2 openings of the folder browser | are windows shown and focused as meant when animations are overtaken, can the dialogs be used, is every question answered and seen, does the folder browser serve the right caller |

Why the bounds are enough. Operations and downloads meet only through a shared
id or directory, and two meet (`IdChoices` has both ways two requests can choose
their ids). Two texts on their way are one and the one that overtakes it; one id
is followed since texts of different ids do not meet (`seen` is kept by id). A
socket is treated the same whatever the others do, and the two broadcasts that
overlap (the loop's and one push) are there with two. A restart erases all of
memory, so a second one starts from a state the first already gave, with other
rows. Two threads are all the storage manager has. `SignIn` needs the clock to
pass one lockout and a failure after it: four ticks and four failures in a row;
addresses do not meet, so one is enough. Two sockets are an old one and a new
one; a third is a new one again, since the names are used again once nothing
more is heard of them. Two operations and an upload are a task, its successor
and the third user of the card. A task of another page would add only messages
that the card takes up when it has none, which it does as well with a late
message of a task of its own. Three listings are one on its way, one that
overtakes it and the refresh of an operation. Six acts of the user suffice to
open, minimize and open again two windows while they leave, or for a question, a
lock, an unlock and a second question with a form asked for in between; six is
the most that is checked in seconds, and each mutant of that run breaks its
property within it. `FileStore` starts each request on a disk with names free
and taken, by files and directories, with links and half-written files in them,
as earlier requests leave them. The links are in a source, at a suffixed name
and below one, and lead to a file elsewhere, to one of the directory being
written, to an item being copied and to nothing. Two sources of one name make
the clashes of the `_copy` suffix, three directories a move on one device and
one across. For the safety properties the proofs remove the bounds on the
constants altogether.

Deadlock is checked for `file_tasks`. The other models may stop for good: every
download over and every restart used, nobody connected and no change left, the
clock, the acts of the user, the listings or the tokens at their bound, or a
thread of `StorageHotplug` waiting for itself.

## Fairness

- Threads are scheduled: every step of a worker is weakly fair. The end of an
  operation, of a download or of a wait for a lock that becomes free again and
  again is strongly fair, since progress reports and other threads interrupt it
  infinitely often. A yt-dlp download ends because what it fetches is finite and
  its requests time out.
- The event loop runs: a handler that can go on does, a scheduled broadcast is
  turned into text (`MakeText`) and the text is sent in the end (`Deliver`), in
  whatever order; the broadcast loop makes its rounds.
- The monitor scans at least once a minute (`storage_manager.py:449`).
- A file operation's worker goes on (`WF_vars(Work)`), and what it copies or
  unpacks is finite.
- In the browser timers fire and `close()` completes. An opened connection is
  strongly fair in `BrowserSession`: the delay of the attempts grows to ten
  seconds (`ws.js:102`), so one of many gets through before the error of an older
  socket closes it. In `TaskCard` polls are repeated every 600 ms and one of many
  answers tells the end of its task (`EndIsPolled`, strong); messages of the feed
  are not assumed to arrive.
- Nobody has to send a request, connect, leave, cancel or plug a drive in.

## Proofs

No theorem assumes more than the named `ASSUME`s of its module, which TLC
evaluates in the runs, and what the statement itself says.

- `FileTasksProofs`. The invariant says that a record is filed under its own id
  and a worker inside `update_task` holds one filed under its own
  (`HoldsARecord`, `FiledUnderItsId`), that a cancelled record has its id
  flagged (`CancelledIsFlagged`), that as long as the record a client cancelled
  is the one filed, the flag stands and the operation is not answered as a
  success (`AskedBinds`), and that for every record filed under an id a
  broadcast is outstanding, or the text that no later one overtook says its
  status (`FreshIsTrue`). From it follow `NoCompletionAfterCancel`,
  `OnlyAReusedIdLiftsACancellation` and `OnlyLateTextsMislead`, however ids are
  shared and texts reordered. For each operation whose id no other has, whatever
  the others share, `Own` adds that the record is its own and not final while it
  is at work, which gives `ReplyAgreesWithRecord`. `ImplementsPromise` shows
  every behaviour of `FileTasks!SafetySpec` to be one of
  `CancellableOp!SafetySpec`; the fairness of the refinement is checked by TLC
  only.
- `MediaDownloadProofs`. A worker about to store a status has reached a final
  verdict; a call past its first step has set the event or found no worker left,
  and stores a status only for a listed download; the status read at the end of
  a download never asked to stop is still its status when it is written.
  A download whose clean-up worked has no partial file, since only its own hook
  writes one (`OnlyAFailedCleanUpLeavesAPartial`). A worker still at work on a
  deleted download was at work when the deletion was answered, and was told to
  stop before, so its last write is not "active"; a row of a deleted download is
  its worker's (`OnlyALateWorkerUndoesADeletion`).
- `WsHubProofs`. The sets that a round or a push still has to serve hold only
  connected sockets, and those found failing only sockets that are no longer
  open; without both a removal could hit a client that is connected. Of
  `StorageHotplug`: `OnlyAnEmptyCacheHangs` is inductive together with the types.
  A thread asks for the lock while it holds it only if it found the cache empty.
- `SignInProofs`. Of `Accounts`: rows and sessions name ids below the sequence,
  so a new row revives nothing; the administrators are counted before and after
  each step. Of `LoginShield`: an address with as many failures as the maximum is
  locked from its last one; needs a maximum of at least two, since the first
  failure never locks (`security.py:124`). `SignInKeepsAccounts` and
  `SignInKeepsShield` show every behaviour of `SignInSpec` to be one of
  `Accounts!Spec` and of `ShieldSpec`, so that what is proved of the parts holds
  of the route that composes them (`SignInKeepsAdministration`,
  `SignInKeepsDeadSessions`, `SignInSpacesGuesses`).
- `BrowserSessionProofs`. A live socket is `this.ws`, and a socket made while a
  sign-out waits is marked; since a token goes only with `disconnect()` or with
  the answer to a sign-out, a socket left without a token is a marked one. The
  strengthening says that only requests under way have answers and that every
  live socket made since the page asked to sign out is marked.
- `FileManagerProofs`. Only the listing asked for last can change the rows; it was
  asked for in the directory the user wants, or a refresh overtook it, and if an
  operation was answered after the rows were read, then it was asked for after
  that operation and carries a version that is not older, or has yet to be read.
  Of `TaskCard`: `CardAndTaskAgree` is inductive together with the types.
- `FileStoreProofs`. Until a move across devices removes, its source is as it
  was, and its target, free before, holds every file copied so far and no link
  that a write could follow elsewhere; removal begins only when the target holds
  all. Every path written or removed is one the request may touch, or a link at or
  below a suffixed name leads to it: a copy makes no link, so a link that it
  follows was there when the request came (`CopyInv`, `SpotReached`). This covers
  any tree, any links, any number of sources and any sequence of requests. `AnswersAreTrue`
  follows the sources one by one (`DoneInv`): each one dealt with is deleted, or
  was there, came from elsewhere and is at the destination, or has a copy. A
  moved item stays where it was put because the next one asks for a free path; a
  copied one stays because, under `Apart`, no later copy writes to its paths.
- `DesktopProofs`. The windows and the dialogs share no variable, so every step is
  a step of one half, of both, or leaves them alone (`StepsOfHalves`), and each
  half has its own invariant. Windows: one that leaves the screen is meant to,
  and the focus names a window in front. Dialogs: the stack holds each dialog at
  most once, and what can be used is its top; a question under way is on the
  stack unless the screen was locked over it, and is its top unless something
  covered it. Folder browser: at most one listing is listened to, it is of this
  browse once the page has seen one, and the callback is that of the browse or
  none.

Type invariants are theorems (that of `LoginShield` is part of `ShieldInv`) and
are not checked once more by the runs; neither are `UniqueNames`,
`WorkerCanBeStopped` and `NoStrayPartial`, which are theorems too
(`NamesStayUnique`, `WorkersCanBeStopped`, `PartialsAreRemoved`).

Every safety property the passing runs check is thus proved as well. Only
model-checked is what the prover cannot express, ENABLED and fairness: the
liveness properties, and the fairness part of `KeepsPromise`. So are
`OnlyThreeThingsKeepTheCard` and `OnlyALateRenameLosesTheFeed`, which say what
must come about unless one of the named things happened.

## Where code and documents disagree

- `task_manager.py:101`: a progress update whose guard passed before a
  cancellation stores "running" over it; the handler then answers "cancelled"
  and the record stays "running" (`file_tasks_cancel`).

Met on the way and not given a run. In the server:

- a broadcast makes its text and then waits for one connection after the other
  (`ws.py:37`), so of two changes of a task the older may be what a client is sent
  last, and it then shows a finished task as running (`OnlyLateTextsMislead`);
- a request with the task id of one still at work replaces its record and lifts its
  cancellation (`task_manager.py:32`); the first is then answered as done and
  completes the second's record (`OnlyAReusedIdLiftsACancellation`). When the first
  ends as cancelled, it cancels the second as well;
- a worker that outlives the deletion of its download inserts its row again
  (`youtube_downloader.py:498`), and the restarted server lists it; line 544 says
  "Deletes a YouTube task" (`OnlyALateWorkerUndoesADeletion`);
- the clean-up of a cancelled download ends at the first file it cannot remove and
  swallows the error, so partial files stay (`youtube_downloader.py:507`,
  `OnlyAFailedCleanUpLeavesAPartial`);
- the storage callback creates a task in a thread without a loop (`ws.py:94`); the
  exception is swallowed and nothing is pushed, though line 92 says so. The next
  telemetry round carries the change, which is why `ClientsConverge` holds;
- `update_io_stats` rescans under the lock the rescan takes
  (`storage_manager.py:309`): with an empty cache the thread waits for itself.
  `OnlyAnEmptyCacheHangs` says that nothing else does;
- a session revoked after its socket was opened keeps its feed (`ws.py:118`);
- the end of a cancelled download removes every `*.part` of its directory
  (`youtube_downloader.py:503`); a download shown as cancelled may end as complete
  (line 480); telemetry may precede the initial state (`ws.py:123`); with a
  maximum of one attempt the first failure does not lock (`security.py:124`).

In the browser, each named by the property that allows it:

- a sign-out answered later than the reconnection leaves a feed without a token
  (`app.js:185`, `OnlyASlowSignOutLeavesAFeed`), and a rename answered after the
  page lost its session shows the desktop without one (`settings.js:156`,
  `OnlyALateRenameLosesTheFeed`);
- a 401 to a request sent with an older token ends the session of now
  (`api.js:41`: "Token expired or invalid");
- a refresh drops a navigation on its way (`files.js:363`, `TheLastWishIsShown`);
  a directory that became inaccessible is not left, although `files.js:263` says
  "fall back to default", since `navigate` catches the error itself;
- the card of a task stays when the task was picked up from a message, when the
  answer to its cancellation came after it was hidden, or when the last poll of
  another task stopped its timer (`files.js:709`), although line 696 promises a
  "Polling fallback" (`OnlyThreeThingsKeepTheCard`);
- `window_manager.js:584` says "Find next top open window to focus" and takes the
  last one in the order of the page;
- locking the screen closes a question's dialog and leaves its key handler, and a
  form that was asked for may open over a question: then Enter, on the sign-in
  form too, confirms what nobody sees (`confirm_dialog.js:111`,
  `OnlyAHiddenQuestionIsConfirmedUnseen`);
- until its first answer the folder browser hands over the directory of the caller
  before (`folder_browser.js:40`, `ChoicesAreOfTheirBrowse`);
- the answer to `refresh()` may be older than the last live list and then stays,
  since an equal live list is not drawn again (`downloads.js:633`); not modelled.

In the file service: `_copy` names are not looked up,
so copying two sources of one name to where that name is taken leaves only the
second, yet "Copied 2 item(s)" is recorded (`file_service.py:337`), and so do two
names with one suffixed name, as `x_copy.` and `x._copy` (both become
`x_copy._copy`; hence `Apart` in `DoneMeansDone`); the suffixed name is not
resolved either, so a copy to it follows a link of that name, or one below it,
changes a file elsewhere (line 261; `Landings` and `Reached` in
`TheRestIsUntouched`) and empties a file that is copied onto itself; a move across devices drops
symbolic links (lines 359 and 411); `os.walk` passes over directories it cannot list, which `rmtree` may
still remove (lines 346 and 411); a killed 7z leaves a member half written (line
540); an upload empties an existing file before its successor has arrived
(`routers/files.py:295`). `Holds` asks for regular files the walk can see.

## Not modelled, and the plan

Worth adding next, in this order: the list of downloads (`refresh()` against live
messages); settings and aria2's global options (two stores, one answer,
`settings.py:148`, `downloads.py:293`); aria2's queue as listed by three calls and
retried (`download_manager.py:321`, `423`), and its daemon (line 236); path rules
as lemmas; two file operations at once (`file_service.py:397`) and a directory
copied into itself (line 346); the rate computation of the storage manager and
the system monitor (a counter and its time stored in two steps). Worth proving
next: an abstract specification of a move (an item is at one place or the other,
and is answered for at most once) that `FileStore` implements, and one of a
question (asked, then answered or dropped) that `Dialogs` implements.

Left out for good: styles, markup and packaging; rendering, keyboard focus,
sizes and places of windows; parsing of `/proc`, `lsblk` and yt-dlp's metadata;
password hashing and token encoding, which enter only as "this token names that
id until then". The lock screen lies above the dialogs (`z-index` 9999 in
`styles.css`), so a dialog that opens on it cannot be clicked, which is why the
user's actions on dialogs in `Dialogs` ask for nothing more than the top of the
stack: what they allow beyond the code only adds behaviours.
