# A verification project for plugin.video.excubed

This directory holds TLA+ models of the Kodi add-on *plugin.video.excubed*
(ExCubed), the TLC configurations that check them on small instances, and proofs,
checked by TLAPS, of the properties that matter most. Paths are relative to the
root of the repository, which is `src/` in `PROJECT.json`.

The add-on finds packs that XDCC bots offer in IRC channels, downloads one with an
IRC bot of its own, and plays the file while it is still growing. It is written
in Python 2 and runs inside Kodi.

To check it:

    tlc -config MCGrabator.cfg MCGrabator.tla     # any module and configuration below
    tlapm SchedulerProofs.tla                     # any of the eight *Proofs modules

## 1. The system

### 1.1 The parts, their state and how they interact

    Kodi ── invocation of the plugin ──> kodiswift Plugin: routing, items, storages
                                              │
            addon.py: packlists, search, metadata, stream, delete_file
                                              │ stream starts a thread
                                              ▼
             xbot.py Grabator ─ irc/bot.py ─ irc/client.py Reactor, schedule.py
                   │                    │
                the file            IRC server, XDCC bot (DCC)
                   ▲
                   └─ stream polls its size and hands it to the player

| Part | Source | State | Operations | Right when |
|---|---|---|---|---|
| Download bot | `resources/lib/xbot.py` | `position`, `received_bytes`, `file`, `dcc`, `objetDL.status`; the file on disk | `on_welcome`, `on_ctcp` (SEND, ACCEPT), `on_dccmsg`, `on_dcc_disconnect`, `download` | the file is at all times a beginning of the pack, a short transfer is taken up again, "fini" is announced only over a complete file |
| IRC bot framework | `resources/lib/irc/bot.py` | `ExponentialBackoff._check_scheduled` | `_connect`, `_on_disconnect`, `run`, `check`, `disconnect`, `die` | a lost connection is retried, by exactly one pending check |
| Channel and user tracking | `irc/bot.py`, `irc/client.py`, `xbot.py` | `channels` and their users, `real_nickname` | `_on_join`, `_on_namreply`, `_on_part`, `_on_nick`, `_on_quit`, `on_nicknameinuse` | a bot that has read all there is knows who is in its channels |
| IRC server | `irc/server.py` | nicknames, channels and their clients, a queue per client | `handle_nick`, `handle_join`, `handle_part`, `handle_quit`, `finish` | its tables agree, and everybody concerned is told in order |
| IRC client | `resources/lib/irc/client.py` | connected, socket, DCC connections | `connect`, `disconnect`, `process_data`, `send_raw`, `dcc_connect`, the event loop | a loss that any of reader, sender or handler notices has one and the same effect |
| Scheduled commands | `client.py`, `irc/schedule.py` | the sorted list `delayed_commands` | `execute_at`, `execute_delayed`, `execute_every`, `process_timeout` | each command runs once, in order, not early, and none is held back for ever |
| Stream route | `addon.py` `stream`, `delete_file` | per call: cancel, size, factor | look for the file, start a bot, wait for the file, measure, buffer, play | the call plays a file that is being downloaded, ends when cancelled, does not wait for ever over a complete file |
| Storages | `kodiswift/storage.py`, `xbmcmixin.py`, `plugin.py` | one dictionary per invocation, the file, the temporary file | `get_storage`, item assignment and deletion, `sync` at the end of `run` | the file is whole after any failure; an invocation changes only the keys it touched |
| Routing | `kodiswift/urls.py`, `plugin.py` | the rules | `match`, `make_path_qs`, `url_for`, `_dispatch` | `url_for` of a view leads to that view |
| Packlists and search | `addon.py` | the list of bots, listed packs, pages of results | `list_packlist`, `list_bots`, `refresh`, `get_packlist`, `xweasel` | a bot is listed once, no page is lost |
| Metadata | `addon.py`, `thetvdbapi.py` | caches of shows and files | `file_meta`, `get_meta`, `assign_metadata` | a failed look-up is repeated, next and previous stay within the show |
| Function results | `kodiswift/xbmcmixin.py` `cached`, `storage.py` `TimedStorage` | the storage `.functions`, entries with their times | a call, `sync` at once | a fresh entry stands for what its function has done |
| LRU cache | `resources/lib/cache/lru_cache.py` | ordered dictionary, `is_full`, lock | call, `invalidate` | at most `maxsize` entries, the one used the longest ago goes first |

IRC line parsing, the video length parsers, size formatting, the older bots (`bot.py`, `xdcc.py`), playlists,
the Kodi mock and the vendored libraries are listed with their reasons under
"components" in `PROJECT.json`.

### 1.2 What is hard about it

* **Reentrancy in one thread.** A handler's send may fail, which disconnects, which
  fires the disconnect event, which schedules a command, all within the handler, and
  sometimes within the command that `process_timeout` is about to delete from the list.
* **Failures at every layer.** The server connection, the DCC connection, the thread,
  and the whole Kodi process stop independently of each other, with a chunk of the
  pack in the write buffer.
* **Two actors on one file.** Each `stream` call may start a bot, and every one of them
  decides by looking at the file; the dialog looks at the same file.
* **Processes that share storages.** Each invocation loads the whole storage and writes
  the whole storage back.
* **A wall clock** that moves while a command runs.
* **Caches that note success before it happened**: the day of a look-up is stored before
  its requests, an entry of a function before the storage the function has filled.
* **Two ends of one protocol.** What a bot knows of its channels is pieced together from
  messages that other clients' threads queue for it, next to replies that pass the queue.

The hazards are listed one by one, with the line where each bites and the
properties that watch it, under "hazards" in `PROJECT.json`.

## 2. The modules

| Module | Models | Mapped code |
|---|---|---|
| `Reconnect` | the thread of one bot as its server connection sees it | `irc/bot.py`, `irc/client.py`, `xbot.py` `on_welcome`, `download` |
| `Grabator` | the download bot on top of `Reconnect` | `xbot.py`, DCC of `irc/client.py` |
| `ResumableDownload` | abstract: a file that grows to a pack | what `stream` and `Download.status` rely on |
| `Stream` | overlapping calls of `stream`, with their bots | `addon.py`, and `xbot.py` from the file's side |
| `Storage` | overlapping invocations on one storage | `kodiswift/storage.py`, `xbmcmixin.py`, `plugin.py` |
| `Scheduler` | the command list, `process_timeout`, the clock | `irc/client.py`, `irc/schedule.py` |
| `Agenda` | abstract: commands noted, due, run | what the rest of the bot takes for granted of the list |
| `Tracking` | bots that track their channels, and the server that tells them | `irc/server.py`, `irc/bot.py`, `irc/client.py`, `xbot.py` |
| `LruCache` | threads on one LRU cache | `cache/lru_cache.py` |
| `FileMeta` | the descriptions of one show's episodes over views, failures and days | `addon.py` `file_meta`, `gethimeta`, `plugin.py` |
| `FunctionCache` | invocations on the cache of function results and what `get_gin` fills | `xbmcmixin.py`, `storage.py`, `plugin.py`, `addon.py` |
| `MC*` | instances for TLC | |
| `*Proofs` | theorems, for each of the concrete modules; `CacheProofs` is about `LruCache` and `FunctionCache` | |

How they compose:

* `Grabator` instantiates `Reconnect` and builds each of its steps from a step of it,
  adding what the transfer does. That it is a `Reconnect` is therefore no claim about the
  code; `GrabatorProofs` uses it to take the thread's invariants over.
* `Grabator` and `Stream` both implement `ResumableDownload`: the bot from inside, and
  the bot as the files of one call show it. That is the joint between the two.
* `Tracking` composes the two ends of the IRC protocol, several bots and the server's
  handler threads, in one module, as each action of one side is a message to the other.
* `FileMeta` and `FunctionCache` take a load or a sync of a storage as one step; what
  happens within one is `Storage`.
* `Scheduler` implements `Agenda`. `Reconnect` keeps only the order of the commands,
  which is what `Agenda` promises.

In each module a definition named `X_fault` (small letter after the underscore) is a
faulty variant of `X`; the mutants of `PROJECT.json` put it in the place of `X` and
name the property that then fails.

### 2.1 Reconnect

`conn` is the life of the `ServerConnection`, `link` the socket: *broken* is a
connection that is lost and that the bot has not noticed. `delayed` is the list of
commands by their order, `due` that the first may run. `Disconnect` is
`ServerConnection.disconnect` with the event handlers it reaches, and every way to
notice a loss goes through it: `NoticeHangup` (the reader), `HandlerSendFails` (a
sender), `RunDownload` (the delayed request), `HandlerDisconnects` and `HandlerDies`
(the bot itself). A second send on the socket that is gone raises and ends the thread.

Time is abstracted to the order of the list: a check is due 60 seconds or more after
it is scheduled and a request 8 seconds or less, so a new check goes last and a
new request anywhere behind what is due. `checkTerminated` is left out because nothing
sets `Download.terminated`.

### 2.2 Grabator and ResumableDownload

A pack is `PackSize` chunks, and a chunk is what the write buffer holds. The DCC
connections are the sequence `streams`, each the chunk it delivers next, and
`self.dcc` is the last of them as long as `current`. The XDCC bot is external: it
answers a request (`PeerAnswers`), or ignores it (`PeerIgnores`), with at most
`TransfersPerUser` transfers, and it resumes from the position it was told. What is under way over the IRC server is lost
with the connection; a DCC connection survives the loss, which is the case that makes
the file interesting. `Killed` takes the chunk in the buffer along.

`position` is read when SEND arrives and used when ACCEPT arrives, and any step
may come between them.

### 2.3 Stream

`pc` walks a call through its two loops. A chunk is a megabyte, the unit of the size
the code compares. The percentage to wait for is in tenths of a percent: the setting
(`BufferPercent`) where the size has not changed in the five seconds, else one of
`Scaled`, with the sign of the growth, which is what the code's division by the measured
speed may give. Bytes below a megabyte are not modelled but count: a file may grow or shrink a
little without gaining or losing a chunk (`Measurements`). A value above 100 becomes 90
(`Capped`), and the call goes on when the size exceeds the percentage (`Exceeds`).
`BeyondTheFile` are the percentages that the whole file does not exceed: 100, and what lies
between the floored size of the file and the listed size. A bot is what it does to the file: look, then create or resume, then
write at its own place (opened to write) or at the end (opened to append).
`Delete` is `delete_file`: the name goes and open files live on. The bot's file name is
taken to be the name the call waits for.

### 2.4 Storage

A store is the set of its keys, a dump two writes, so that a kill and a second
writer find the file half written. Temporary file, move and the open handles that
follow a renamed file behave as on POSIX. `touched`, `stale` and `overlapped` record
the past for the properties only.

### 2.5 Scheduler and Agenda

`ScheduleCommand` is `_schedule_command`, callable from a handler or from the function
that `process_timeout` runs; the mutex keeps it out otherwise. `RunFirst` reads the
first of the list, `FunctionReturns` renews a periodic command and deletes the first
of the list, whatever that has become. The clock ticks, and is set back, at any step.

### 2.6 Tracking

A nickname is the number of underscores behind the nickname of the settings, which all
bots of the add-on share. `link` is a connection seen from both ends. `owner`, `members`,
`nick`, `joined` and `sendQueue` are the server's tables; `wire` is what was sent to a
client and not read; `channels` and `users` are what the bot has tracked. A command of one
client is one step, as handlers block only at their ends, and so is the flush of a queue.
`HandlePart` of a client that is not in the channel announces the PART, raises and ends
the handler, as the code does. A NICK of a client is answered past its queue: `hasty`
records that such an answer overtook something, and the properties of the trackers are
confined to the runs where none did.

### 2.7 LruCache

`pc` walks a thread through the wrapper; the labels in `Locked` hold the lock. `order` is
the ordered dictionary, `made` the times of its results. `Invalidate` comes between any
two steps, also of a thread that holds the lock. The constant `Timeout` covers the two
variants that have a `maxsize`: with a timeout, and with none (`Forever`).

### 2.8 FileMeta

The storage of one show, on disk and in the view that runs, and the sites that come to
list the show and its episodes. A look-up is cut at each request that may fail
(`SearchFails`, `ShowUnknown`, `EpisodesFail`), with what it has written by then; the views
swallow what is raised, and `Close` writes what is there. `age` is the number of days since
`last`, up to those after which the show is looked up again. Whether an entry matches by
its date is left open, as first air dates of TVDB are not modelled. An entry of TVDB
without a season or an episode number makes `int` raise between two writes of a look-up
(`NumberMissing`) or in a later call (`FetchedUnnumbered`); such entries last as long as the
outage, so that a show whose entries never get their numbers is outside of what is claimed. AniDB lists none or
all of the episodes, and no view runs over midnight.

### 2.9 FunctionCache

Ages in days stand for the times of `TimedStorage`. `Miss` fetches, fills the second storage
in memory and writes the entry at once; `Close` writes one storage after the other at the
end of `run`, in any order. Behind `get_gin`, `gin_sensei` reads `lastsearch['last']`
before it sets it, since the menu passes `search='blah'` (`addon.py:405`): with a stored
search it asks and goes on (`AsksForSearch`), without one it raises each time
(`NeverSearched`). `searched` is whether the file of that storage has the key;
`search_channel` is the view that can put it there first. `CutShort` is an invocation that
Kodi ends, or a view that raises for a reason that passes. `Ttl` is the time
to live of the first `get_storage` of `.functions`: `cached_route` of `index`
(`addon.py:98`), a day, not the three days of `get_gin` (`addon.py:973`).

## 3. What TLC checks

| Run | Configuration | Question | Bounds |
|---|---|---|---|
| `reconnect` | `MCReconnect.cfg` | is a lost connection always retried by exactly one check, and the pack always requested, at most twice? | none: finite without bounds |
| `transfer` | `MCGrabator.cfg` | does the file stay a beginning of the pack and the bot a `ResumableDownload`, and is a short transfer retried? | 3 chunks, 2 are enough, 1 transfer per user |
| `two_transfers` | `MCGrabatorTwo.cfg` | does the bot retry when two streams share handle and `self.dcc`, and does the download finish once losses, cuts and crashes are over? | 3 chunks, all needed, 2 transfers per user |
| `stream` | `MCStream.cfg` | does a cancelled call never play, and does no call wait for ever over a finished file that exceeds its percentage? | 2 calls, 2 chunks, setting 50, scaled to 100 or to 150 percent |
| `stream_one` | `MCStreamOne.cfg` | does the bot of one call keep the promise of `ResumableDownload`? | 1 call, 6 chunks, 5 are enough |
| `storage` | `MCStorage.cfg` | is the file whole without overlapping syncs, and are keys kept? | 2 invocations, 2 keys, symmetric |
| `scheduler` | `MCScheduler.cfg` | is the list sorted, an `Agenda`, and does every due command run? | 1 periodic and 2 other commands, times 0 to 3 |
| `tracking` | `MCTracking.cfg` | does a bot that has read all know who is in its channels, and does a refused one ask on? | 2 bots, 2 channels, 3 nicknames, 1 unread message when others act, symmetric; where a NICK has overtaken a queue, 3 unread messages in all and no further disconnect (`CONSTRAINT InOrder`) |
| `lru_cache` | `MCLruCache.cfg` | is the cache bounded, the flag never clear over a full cache and exact without invalidations, and does the oldest use go first? | 3 threads, 3 keys, `maxsize` 2, timeout 1, times 0 to 2, symmetric |
| `file_meta` | `MCFileMeta.cfg` | does a look-up that got through leave what later calls read, and does every listed episode get labels? | 2 episodes, looked up again after 1 day |
| `function_cache` | `MCFunctionCache.cfg` | does a fresh entry stand for a packlist, and is an old packlist replaced once somebody has searched? | 2 invocations, entries live 1 day |

These bounds are enough for the cases in question. Three chunks with two enough
leave a file that is empty, short, long enough and complete, and a resume at each of
these places. Two transfers are what it takes for one stream to meet what another left
of the handle; a third adds no new state of `handle` or `current`. Six chunks
let the measured growth and the threshold of five be apart. Two invocations are what
an overlap takes, and each may be run again and again; two keys are one that is
touched and one that is not. One periodic command meets two that come before, between
and behind its periods, and the clock has room for it to fall two periods behind.
Two bots in two channels share none, one or both of them, so that a message comes once or
twice, and either may leave while the other's queue is not empty; a third bot matters for
nicknames only (`MCTrackingThree.cfg`). With three threads one inserts while the other two
hold results for the same and for another key, and three keys in a cache of two evict.
Two episodes are one that triggers the look-up and one that finds it done. In a day an
entry is fresh, stale and looked up again. The `*Proofs` modules lift most of the safety
results off these bounds (section 4; the file of `GrabatorProofs` for one transfer at a time).

### 3.1 Fairness

* `reconnect`: weak fairness of the reactor's own steps (start, time that passes, a due
  command, a hang-up that is read). `process_forever` calls `process_once` without end.
  Nothing is assumed of the server, the network or the handlers: the connection may
  fail each time, and `RetriesForever` says the bot dials for ever.
* `two_transfers`: weak fairness of the reactor's steps as in `reconnect`, of the server,
  which relays what it is sent and welcomes, of the XDCC bot, which answers, sends what it
  offered and closes behind it, and of the user, who asks for the file again when the thread
  has ended. `DownloadFinishes` assumes that trouble (`Trouble`: losses, failed dials, cuts,
  exceptions, kills) stops at some time; before that it is unlimited. `HelpfulSpec` leaves
  `PeerIgnores` out, as the bot never repeats a request that got no answer
  (`xbot.py:98` schedules one per welcome): one that is ignored for good reason, because a
  transfer runs, is made up for when that transfer ends. The bot whose first dial failed
  (`Stranded`) is the finding of section 3.2.
* `stream`: weak fairness of the loops of the calls (`while` with a sleep in each). None
  of the bots, the network or the user.
* `file_meta`: a view that was opened goes on and is closed (weak), the user opens the
  listing again and days go by (strong: both wait for each other's gaps), and failures come
  to an end (weak fairness of `Recover`), entries that lack their numbers among them. Kills and failures before that are unlimited.
* `function_cache`: an invocation goes on (weak), the list is opened again and days go by
  (strong), and trouble comes to an end (weak). `PacklistComes` is claimed
  of that only, and once a last search is stored (`searched`).
* `scheduler`: weak fairness of the loop and of time. A function that never returns
  would hold the loop and is outside of it. `DueRuns` asks only that the clock is not set
  back for ever.

### 3.2 Where code and documentation part

One run expects a violation, quoted under "findings": `stranded`
(`MCReconnectStranded.cfg`). A first connection that fails is never retried, as nothing
schedules the check, although `irc/bot.py:133` promises it.

Further configurations are kept for whoever fixes the code; TLC reports the
counterexample of each. They are not among the regular runs because each restates a
place where a regular property already had to be confined, or wished for more than
the code promises.

| Configuration (module) | Property | The code does |
|---|---|---|
| `MCReconnectRequest.cfg` (`MCReconnect`) | `RequestKeepsThread` | the delayed request on a connection that is gone ends the thread |
| `MCGrabatorTwoTransfers.cfg` (`MCGrabator`) | `FileIsBeginning` | after a reconnect during a transfer, a second transfer appends to the same file |
| `MCGrabatorReport.cfg` (`MCGrabator`) | `ReportedIsOnDisk` | after a resume `received_bytes` and `position` count bytes twice |
| `MCGrabatorAction.cfg` (`MCGrabator`) | `ActionDoesNothing` | "/me" in the channel reaches the bare `raise` of `on_ctcp` |
| `MCStreamStale.cfg` (`MCStream`) | `PlayingDownloads` | a play call on the partial file of a bot that is gone starts no bot, and waits |
| `MCStreamWriters.cfg` (`MCStream`) | `FileIsBeginning` | a second call's bot writes the same file side by side with the first |
| `MCStreamCancel.cfg` (`MCStream`) | `CancelEndsQuietly` | cancelling before the file exists raises `OSError` |
| `MCStreamFull.cfg` (`MCStream`) | `LoadedPlays` | with "Percent Loaded Before Play" at 100, or a measured speed that gives 100 or a little less, the call waits for more than all of the file |
| `MCStorageLost.cfg` (`MCStorage`) | `SyncKeepsKeys` | of two overlapping invocations the later sync takes the earlier one's keys back |
| `MCStorageLoad.cfg` (`MCStorage`) | `LoadErrorIsUnknownFormat` | a damaged file raises `EOFError` or `ValueError`, never `UnknownFormat` |
| `MCSchedulerPast.cfg` (`MCScheduler`) | `RunsOnce` | a function that schedules a command in the past loses it and runs twice |
| `MCTrackingThree.cfg` (`MCTracking`) | `Registers` | a third bot of the same nickname asks for the same two names for ever (`xbot.py:84`) |
| `MCTrackingHasty.cfg` (`MCTracking`) | `NeverFails` | a bot whose own NICK is answered past its queued JOIN finds no channel and its thread ends (`irc/server.py:183`) |
| `MCLruCacheRaises.cfg` (`MCLruCache`) | `NeverRaises` | an `invalidate` between look-up and `del`, or of all entries while `is_full` stays set, makes a call raise `KeyError` (`lru_cache.py:101-103`) |
| `MCFileMetaHi.cfg` (`MCFileMeta`) | `EpisodesGetLabelsHi` | a storage that `gethimeta` began has no `last` and no `noid`: `file_meta` raises `KeyError` on it for ever (`addon.py:611`) |
| `MCFileMetaFull.cfg` (`MCFileMeta`) | `LabelsBecomeFull` | labels stored before TVDB had the episode are never filled in (`addon.py:608-610`) |
| `MCFunctionCacheMissing.cfg` (`MCFunctionCache`) | `EntryAlwaysHasPacklist` | an invocation cut short behind `get_gin` leaves an entry without a packlist, and `list_packlist` raises until it expires |
| `MCFunctionCacheFirst.cfg` (`MCFunctionCache`) | `PacklistComesUnsearched` | on a fresh install the menu's `gin_sensei` raises `KeyError` behind `get_gin` each time (`addon.py:1002`), so the packlist never comes |

## 4. What is proved

All proofs are for every value of the constants under the named `ASSUME`s
(`SecondChannelAssumption`, `PackAssumption`, `StreamAssumption`, `SchedulerAssumption`, `TrackingAssumption`,
`LruCacheAssumption`, `FileMetaAssumption`, `FunctionCacheAssumption`), which only give the
constants their types, `1 <= Enough <= PackSize`, and values that mean "none" which are no
member of what they stand beside. `Storage` assumes nothing.

**ReconnectProofs.** `TypeCorrect`, `LostConnectionIsRetried`,
`CheckNeitherLostNorDoubled`, `RequestNeitherLostNorForgotten`, `AtMostTwo`. The first
four invariants are inductive together (`IInv`) with two additions: a thread that has not started was never
connected, so that the first dial needs no flag; and the first command can be due only
if there is one. The case that needs thought is `RunCheck`, which clears the flag, arms
again and dials, with a loss during the dial that arms once more: `DialIInv` carries
the exactness of the flag through it. `AtMostTwo` needs to know where in the queue the
requests are: `RequestInv` says that no check waits behind one of them at most
(`Trailing`), because a check that runs is the head and the next one goes behind all, so
that is what the next connection finds.

**GrabatorProofs.** `TypeCorrect` and `ShortTransfersAreRetried` for any number of
transfers. The two take `TypeOK` and `ArmedWhenDown` of the thread from
`ReconnectProofs` (`ThreadInvariant`) and add that a bot that was never connected has no
stream (`StreamsInv`): a transfer that ends when the server is gone already then finds
the check that the loss has left. `FileStaysBeginning`
and `BotIsResumableDownload` if `TransfersPerUser = 1`, with the invariant `IInv`: the
file is a beginning; "fini" holds only over enough of it; and while the process lives
there is at most one stream, which delivers exactly the chunk the file lacks
(`StreamGood`), an ACCEPT under way carries the length of the file (`OfferGood`), and
only a chunk that is there is in the buffer (`HandleGood`). `BeginningWithOneTransfer` has
the same invariant for any `TransfersPerUser`, as long as no transfer is offered while one is
open (`[]OneTransfer`): that offer is what the counterexample of
`MCGrabatorTwoTransfers.cfg` needs, and the limit of one rules it out
(`LimitIsOneTransfer`). The invariant is needed in full: without
`OfferGood` the resume, without `HandleGood` the kill may tear the file. Once the
thread is dead its streams and offers have no effect, hence the condition.

**StreamProofs.** `TypeCorrect` and `CancelledNeverPlaysAlways` hold of `Spec`, for any
number of calls and whatever is deleted; that the percentage to wait for is at most 100,
whatever is measured, is `PercentageBounded`. The other two are about `KeptSpec`, in
which nobody deletes the file. `BeginningWithOneWriter`: for any number of calls the file
stays a beginning of the pack as long as no two bots are at work at once (`[]OneWriter`),
so that two writers are exactly what the counterexample of `MCStreamWriters.cfg` needs.
`OneBotKeepsPromise`: if there is one call, every step is a step of `ResumableDownload` or
a stutter of it. One invariant carries both (`KeptInv`): what a bot has seen of the disk is
still so when it writes. A bot about to create finds no file, one that resumes or receives
continues at the end of what is there, with a handle that has the name, and one that is
done has left enough. This is what a second writer, or `Delete`, takes away.

**StorageProofs.** `TypeCorrect`, `SerialSyncs`, `FreshSyncs`. The invariant adds that a
handle that has its name has its file, that who has ended has touched nothing, and, as
long as no two syncs overlap: one invocation syncs at a time, the temporary file holds as
much of its store as its step says, and an invocation that is not stale differs from
the file on disk in the keys it touched only.

**SchedulerProofs.** `TypeCorrect` and `ListStaysSorted` hold of `Spec`, past times and a
clock set back included, because `insort` keeps order and a function runs only while
the list has a first element. `ListIsAgenda` holds of `SteadySpec`: a command is in the
list once, and the one that runs is still the first (`RunsFirst`), so the deletion hits
what ran; a renewed entry goes behind the old one because a period is positive. What
`InsertAt`, `Tail` and `ToSet` do is stated in lemmas of its own.

**TrackingProofs.** `TypeCorrect`, `ServerAgreesAlways`, `WaitingBotAsksAlways`,
`TrackersExactAlways`, `NoTrackerFailsAlways`, for any clients, channels and nicknames.
`IInv` adds, for each connection, what both ends know of
it (`Good`): a client that has a channel has a nickname, so that no message names a client
that has none, and a bot before its welcome is in exactly one of the four places of
`Registering`, with the name of its first connect. A message to those who share a channel
reaches nobody before its welcome, which keeps `Registering` apart from all other traffic.
The last two need to know what every queued message does to its reader. What a bot has
tracked is a view (`View`: its name, its channels, their users), what the server holds of it
is another (`Truth`), and a message leads from one view to the next (`Reads`), which it does
only if the view knows the channel and the members it names (`Knows`). The invariant, `TInv`:
as long as no NICK has overtaken a queue, what is under way to a bot is a path from its view
(`Tracked`), and it leads to the truth while the connection is open. The path is a function
from positions to views that exists, not a recursion over the queue, so that the
lemmas about it (`PathJoin`, `PathSplit`, `PathMany`) need no induction. Each action of the
server appends messages that lead from the old truth to the new one
(`AppendTracked`); a message to those who share a channel comes once for each channel that
they share, and reading it again changes nothing (`ToldTracked`); to deliver the first
message is to take the first step of the path (`ReadsOnce`). An empty queue is the path that
goes nowhere, hence `TrackersExact`; a first message that can be read is one that does not
fail, hence `NoTrackerFails`. TLC checked `Tracked` on two bots before it was proved.

**CacheProofs** has the theorems of two modules. Of `LruCache`: `TypeCorrect`, `SizeBoundedAlways`, `LeastRecentlyUsedFirstAlways`,
`FlagExactAlways`. `IInv` carries through the critical section what its holder is about to
set: the dictionary has room unless the flag says so or the holder is about to count, and
the flag may be wrong only behind an `invalidate` or for the one step of that count; an
`invalidate` can leave it set over a cache with room, never clear over a full one.

**FileMetaProofs.** `TypeCorrect`, `LookUpIsEnoughAlways`. The two are inductive together;
each way through `file_meta` writes a storage that is `Sound`, shown point by point
(`Begun`, `AniDBAsked`, `Named`, `Listed`, `Labelled`), and `gethimeta` only adds.

Of `FunctionCache`, also in `CacheProofs`: `FCTypeCorrect`, `EntryHasPacklistAlways`. `FCInv` follows an entry
from the call that wrote it to the end of its invocation: as long as nothing overlaps,
the invocation holds what it loaded or the packlist of the entry, which it has still to write.

### 4.1 Only model-checked

* Liveness: `RetriesForever`, `RequestIsSent`, `DownloadFinishes`, `FinishedDownloadPlays`, `DueRuns`,
  `EpisodesGetLabels`, `PacklistComes`. The prover has neither ENABLED nor fairness beyond PTL.
* `BotKeepsPromise` for the runs of more than one call: a bot that is done stays done while
  another resumes, which the abstract file does not allow; what holds then is
  `BeginningWithOneWriter`.
* Every violation.

## 5. What is not modelled

* Further channels of the download bot, speed and percentage as text.
* Bytes within a chunk: a file is a sequence of chunks, and a DCC packet boundary
  within a chunk has no effect in the code but on the buffer.
* The bot's own `get_storage` call at the end of a download, as a storage: that it may
  raise is `HandlerRaises`.
* A second thread on one reactor: the add-on gives each bot a reactor and a thread of
  its own.
* Windows: renaming over an existing or open file fails there; the models take POSIX.
* Two handler threads of the server that interleave within one command of each.
* Channel modes and kicks: the server of the library has no command for either.
* Routing (`urls.py`): pure functions over text. `add_server`, `channel`, `search_channel`,
  `list_bots`, `refresh`, `get_packlist`, `search_ix`, `haruhichan`, `xweasel`, `hi10`,
  `get_meta`, `movie_meta` and `assign_metadata`: they scrape a page or ask a dialog and list
  what they got, one request after the other, with no state but a storage that `Storage` and
  `FunctionCache` already treat.
* The vendored libraries, which are most of the lines of the repository: `sqlalchemy`,
  `whoosh`, `alembic`, `requests`, `js2py`, `mako`, `yaml`, `inflect` and more. They are third-party
  code with projects of their own, and the share of the repository that the models cover
  is small for that reason alone.

## 6. Plan

Done: the download path (`Reconnect`, `Grabator`, `ResumableDownload`, `Stream`), the
storages, the scheduled commands, the caches (`LruCache`, `FunctionCache`, `FileMeta`) and
the tracking of channels with the server (`Tracking`), each with its proofs: every
safety property of a passing run is also a theorem, under the conditions of section 4.

Left, in this order:

1. `Browse`: the list of bots of `list_bots` and `refresh`, the paging of `xweasel`.
2. The bot's storage composed with `Storage`.
