# Librefy: verification project

TLA+ models of [Librefy](../src), a libre music player: a Flutter app, a Go
library for torrents loaded into it, and a Go backend with a SQLite catalog.
Each model is translated from the source; `PROJECT.json` maps every definition
to the lines it stands for, and lists the runs, the findings, the hazards and
the theorems.

Contents: [the system](#the-system), [hazards](#what-is-hard-here),
[Playback](#playback), [Downloads](#downloads), [Catalog](#catalog),
[Requests](#requests), [native torrents](#native-torrents),
[torrent sessions](#torrent-sessions), [importing](#importing), [runs](#runs),
[what the code does otherwise than it says](#what-the-code-does-otherwise-than-it-says),
[proofs](#proofs), [what is not modelled](#what-is-not-modelled), [plan](#plan).

## The system

| Component | Source | State | Operations | Correct when | Modelled |
|---|---|---|---|---|---|
| Audio player service | `app/lib/application/audio/` | queue, index, modes; `_generation`, the chain `_loadOp`; `_activeSession`, `_activeStatsSub`; the process's one mpv player | playQueue, next, previous, completed event, modes, `_runLoad`, dispose, provider rebuild | what is heard is what is shown; loads never overlap; sessions outlive their readers and end | `Playback`, `PlayQueue`, `PlaybackPromise` |
| Download service | `app/lib/application/download/`, the button in `presentation/common/track_actions.dart` | `_inflight`, progress stream, files | download, cancel, dispose, kill of the app | a path that is returned holds the whole track; no leftovers | `Downloads` |
| Catalog database | `backend/internal/db/`, `cmd/librefyd/main.go` | tables, `schema_migrations`, rows | Open, Migrate, SeedIfEmpty, crash | boots succeed; each migration once; rows refer to rows | `Catalog` |
| Catalog service, admin API | `backend/internal/service/`, `internal/http/` | rows; the pool of one connection | every handler: search, lookup, stream, play, pages, listings, admin upserts and deletes, bulk, export, import | requests end; no reader sees half a write; nobody starves the others | `Requests`; what writes do to rows, in `Catalog` |
| External providers | `backend/internal/providers/` | none | search, lookup, resolve | a failing one costs its own results only | as upstream calls, in `Requests` |
| Native torrent library | `native/librefy-torrent/` | handles, torrents, priorities | lt_add_magnet, lt_wait_metadata, lt_stream_url, lt_release, stream handler | a handle keeps its torrent; a URL plays its file | `NativeTorrent` |
| Torrent sessions (Dart) | `app/lib/application/torrent/` | globals of the library, `_magnetToHandle`, `_closed` | tryInit, openMagnet, dispose | one native session; what was opened stays playable | `TorrentSessions`, over `NativeTorrent` |
| Tracklist importer | `backend/internal/importers/rutracker/` | none | Parse, extractTracklist, extractChapters | an orderly list is found whole | `Tracklists` |
| Admin page | `adminui/` | the form | import of a topic, bulk upsert, playlist | what is reported is in the catalog | `Import`, over `Tracklists` |
| User library; settings, history | `app/lib/application/library/`, `state/` | likes, playlists, base URL, locale, recently played | edit, persist | no edit is lost | the library is planned |
| Audio cache; screens | `app/lib/application/cache/`, `app/lib/presentation/` | | | | no |

How they interact. A tap calls the player service, which asks the backend for
the sources of the track (`resolveStream`), gives them to the source resolver,
which may open a torrent session in the native library through FFI isolates,
probes the loopback URL the session serves, and hands it to mpv. mpv's events
come back on another thread. The download button resolves the same URI and
lets dio write it to disk. The backend reads and writes one SQLite connection.
When the base URL changes, Riverpod disposes of the player service without
awaiting it and builds another, on the same mpv player.

## What is hard here

`PROJECT.json` lists each hazard at its line. In short: in Dart, every `await`
lets other code run, so guards read before it are stale after it
(`_generation`, `_inflight`, the file's existence); sessions pass from load to
load and a load may end at any await; services overlap on a shared player. In
the backend, migrations commit statement by statement and crash anywhere, and
errors of some statements are ignored; seeding meets leftovers; a nested query waits for the only connection. In the
native library, handles share torrents, a torrent may be dropped and added
again, and stream handlers interleave. An import is a series of statements and
requests that may stop anywhere and be tried again. There is no test suite in
the repository (only a manual `test_runner` for the torrent library).

## Playback

`PlayQueue.tla` is the arithmetic of the queue: `NextIndexes` is the *set* of
indexes `_pickNextIndex` may return (empty for null; the shuffle pick depends
on the clock, so any index but the current one).

`Playback.tla` is `AudioPlayerService`, for `NumServices` services created one
after the other. `_runLoad(g)` is cut at its awaits; `pc[s][g]` says where
load `g` of service `s` is:

| stage | awaits | action that leaves it | lines of `audio_player_service.dart` |
|---|---|---|---|
| queued | the chain `_loadOp` | `StartLoad` | 398-412 |
| stopping | `player.stop` | `Stopped` | 420-424 |
| asking | `repo.resolveStream` | `InfoArrived`, `InfoThrows` | 427-428 |
| resolving | `resolver.resolve` | `ResolvedSwap`, `ResolvedStale`, `ResolveThrows` | 436-475 |
| releasing | dispose of the session just opened | `Released` | 440-443 |
| probing | `_waitForStream` | `Probed` | 485-493 |
| opening | `player.open` | `Opened`, `OpenThrows` | 495 |
| cancelling | cancel of the previous stats subscription | `SubCancelled` | 497-508 |

A session has the number of the load that opened it. `sess` is its life,
`active`/`activeSub` the fields of the service, `prev`/`prevSub` the locals of
a load, `listening` the stats subscriptions not cancelled. `player` is the
source mpv reads. `dispose` has three awaits (`phase`); it does not touch
`gen`, so loads go on after it. `Rebuild` is the provider: the next service
exists as soon as the dispose of the one before has been called.

Abstractions. Pause, seek and the position, buffer and duration events change
nothing a load depends on (`previous` past the third second only seeks, which
is a stutter). `usingP2P` is `active # None`. The UI never starts an empty
queue nor an index outside it (`playlist_detail_screen.dart:53-58`,
`user_playlist_detail_screen.dart:71-83`), so `Queues` holds no empty one. The end of
a track (`PlayerEnds`) and the delivery of its event (`OnCompleted`) are
separate steps: the event crosses threads. Which awaits may throw is the
constant `Faults`, and in which loads, `Faulty`; "stop" is kept apart because
the code swallows it.

`PlaybackPromise.tla` is what the service promises: requests are numbered, and
once one is heard no earlier one of the same service ever is. `Playback`
implements it with `asked <- gen`, `heard <- player` and
`newest <-` the newest load that got past `open` (`KeepsPromise`).

## Downloads

`Downloads.tla` is one attempt per tap: `Resolved` reads `_inflight` (line 53),
`Located` looks for the file (61), `Register` fills `_inflight` (73), then dio
(external) truncates and writes, `Measured` reads the length (93),
`ReportSaved` and `ReportFailed` are the two ends with the `finally` clause.
The button can be tapped until the first progress event, so attempts of one
track overlap. A file is a state and the attempt that truncated it last;
deleting it leaves open handles writing to nothing (`holds`). `partial` is a
file the last truncation of which has not been filled up, `mixed` one that
holds bytes of two tracks. `FileOf` is `_safeFileName`, which need not be
injective. `Crash` kills the app: files stay, everything else goes.

Abstractions. Resolution of the destination directory is part of `Located`.
dio's own deletion on error is subsumed by that of the catch clause, which
follows it; that dio may still delete after it reported a cancel is not
modelled. The deletion at line 106 is taken to succeed: the code swallows its
failure, after which the leftover stays. Two attempts of one track get the same bytes. A cancel of a transfer
that is over changes nothing and is left out.

## Catalog

`Catalog.tla` is the database file and the process over it. `schema` and
`ledger` are on disk; `applied` is the map Migrate reads once. `Body` lists
the statements of the two embedded migrations by the object each adds; SQLite
commits each on its own, so `Apply` is one statement and `Crash` may come
after any. `Load`, `LookTracks`, `Backfill`, `LookColumn` and `BackfillColumn`
are the statements of `loadAppliedMigrations`, in this order; `Record` is the
plain INSERT of the loop; `Seed` is one transaction.

Each statement of a boot may also fail (`BootFails`), and what follows is what
the code does about it: the errors of the ledger table, of a migration and of
its entry end the boot; the two lookups and the two INSERTs of the backfill are
made with their errors thrown away, so that a lookup finds nothing and the map
has a name that the ledger lacks; an error that ends the iteration over the
ledger is not asked for, so any part of it may have been read; a failed seeding
is a warning. A request that fails changes nothing.

While serving, the admin requests and `RecordPlay` change rows; SQLite's
cascades are part of the deletes. A crash while serving is `Stop`, each request
being one transaction. The file may be new, of v0.1 (no ledger) or of the early
v0.2 the comment at `db.go:130` speaks of (`Origins`).

Abstractions. Indexes, the order of a playlist and the values of columns are
left out: no property tells them apart. A statement that reports an error has
changed nothing.

## Requests

`Requests.tla` is the backend at work. A handler is the list of its steps:
"read" and "exec" are one statement each, "open" leaves a result set open,
"begin" to "commit" is the playlist transaction, and the name of an upstream is
a call to it. `holder` is the request that has the pool's only connection
(`db.go:45`). What a handler does on an error is in `WriteFails`,
`UpstreamFails` and `Expire`: most return, and their deferred calls release
what they hold (`Release`); a search, a bulk import and a play go on
(`Tolerant`).

| steps | handlers |
|---|---|
| read | featured, trending, track or stream of the catalog, admin tracks |
| read x 4 | stats |
| exec | play, track upsert, track delete; once per track: bulk |
| row, links | playlist page |
| open, each, close | admin playlists; after a read: seed export |
| begin, put, clear, link ..., commit | playlist upsert |
| drop | playlist delete |
| local and the upstreams, in any order | search (`ProviderRegistry.List` ranges over a Go map) |
| one upstream | track or stream of another provider, import of a topic |

Time is counted in units of 5 s and passes (`Tick`) only when every pending
request waits for the connection or an upstream: statements take no time.
A request is cut off at `Deadline` (the router's 15 s), a call at its client's
`Timeout` (10 s; 15 s for the importer). `RequestsAssumption` asks the time-outs
of the two providers to be shorter than the deadline, as the code's are:
`SearchDegrades` needs it. A bulk of no tracks is answered at once (`Arrive`).

Abstractions. One playlist is followed, as the set of its links
<<writer, position>>; its tracks are not deleted meanwhile (that is `Catalog`).
Other statements are one token. A search for nothing is answered by the
catalog alone, as if the upstreams had replied at once. A query whose
deadline passes while it runs is not told apart from one that waits.

## Native torrents

`NativeTorrent.tla` is the Go library: threads inside exported functions
(`Call`) and one goroutine per HTTP request (`Fetch`, `Prioritise`). Torrents
are numbered as the client makes them, so that a magnet added again after
`lt_release` is another torrent under the same hash. The races of the code are
separate steps: the handle's number and its entry in the table
(`TakeNumber`, `Insert`), the handle's removal and the drop (`Release`,
`DropTorrent`), each turn of the priority loop. `lt_wait_metadata` waits on
the torrent it looked up, which may be dropped meanwhile. `HandleByInfoHash`
may find any handle of the hash: it ranges over a map.

`last` is a history variable, read by `LastAloneWins` only: the request whose
loop was last to start on a torrent and met no other.

Abstractions. A file is audio or not; the client, the swarm and the reader are
external. Statistics, last error, `File` and `InfoHash` only read. `DropData`
is not exported, and the app never calls `lt_destroy`.

## Torrent sessions

`TorrentSessions.tla` extends `NativeTorrent`: an `openMagnet` is a caller of
the native library (it runs in an isolate of its own), and each of its native
calls is one of the native actions, conjoined with what the Dart code does
around it. `initPc` and `waitsFor` are the calls of `tryInit`, `inFlight` its
completer. The Dart side never calls `lt_release`; `OpenedStaysServed` is what
that decision buys, and its mutant is the release the comment at
`libtorrent_service.dart:331` warns against. The sessions of `Playback` stand
above this module: there a session only has a life cycle. `WarmUrl` leaves out
that the warm worker may fail to load the library: what the app does then is
what it does of a stale handle.

## Importing

`Tracklists.tla` is the importer as functions. A post body is a sequence of
lines, a line its lead and its numbered items; an item has its number, whether
it reads "X - Y", whether it ends in "[m:ss]", and its name, the text that
follows the number (artist and title; `NoText` if nothing does). The regular
expressions are modelled by what they match: `LineMatch` a numbered line
with a dash somewhere, of which the first number counts, `InlineMatch` a
stretch that ends in a duration, `ChapterMatch` a number with a text or a word
like "Chapter" with a number. `TrackFits` and `ChapterFits` are the ranges, the
jump rules and the limits on texts; `Found` is the loop over the matches, a
recursive function, and an entry is made of each match that passed.

How long a text is, only constants tell: `LineFits` (300 bytes), `TextsFit`
(artist and title of a track, 120 and 200 bytes, neither empty once punctuation
is trimmed) and `TitleFits` (200 bytes of a chapter). The theorems hold for all
such predicates. Of the artist a track keeps only that there is one.

The end of the module is what a reader would say of a page: `Orderly`, a list as
posters write it, and `ReadRight`, that such a list is found whole and that of
any page nothing jumps ahead. A list is orderly when it is numbered 1, 2, 3, ...,
has one entry a line or is jammed onto one line as a whole, and no text is
longer than the code takes; and up to 500 tracks, since `buildEntry` takes none
beyond: the proof found that. `Apart` leaves pages out on which a bare "1." stands
before durations: the sweep would read across lines.

`Import.tla` is the admin page over it: `Fetched`, the rows the operator leaves
selected (`Submit`), the bulk upsert track by track (`UpsertOne`,
`UpsertFails`), the answer or its loss, and the playlist of an audiobook
(`Answered`); a page without a list fills in the form of a single release, which
the operator saves under an id of his own (`FormSaved`). The loop is a set of
list indexes of which the least is next; `ok` is the set of those that were
stored, where the code counts them: only the count is shown, but `ImportedWhole`
asks after the entries.

An id is <<release, position, Slug(title)>>. `Slug` is a constant, any function
of titles: `slugify` keeps a-z, 0-9 and а-я and cuts at 64, so two titles may
have one slug, and then two entries of one position have one id. `Landed` is
what can be said of a counted entry all the same: its id has a row with the
magnet of its tab, its file and an artist; and it is its own row in every
column when it is `Alone`, no other entry of that id and magnet having another
title. `unmixed` is a history variable: the tabs whose counted entries nobody has
since stored over with a different magnet, which is what an upsert is for, or
with the form of a single release.

Abstractions. `release` stands for the slug of artist and album. Ids are
triples: that the slug of one release could run into the number of another's
track is left out.

## Runs

All bounds are constants of the cfg.

| Run | Question | Instance |
|---|---|---|
| `Playback_one` | is the sound right whatever interleaves and fails? | 1 service, 3 loads, queues of 1 and 2 tracks, all modes, repository, resolver and open may throw |
| `Playback_two` | and when two services share the player? | 2 services, 2 + 1 loads |
| `Playback_live` | does every load end, is a request heard whatever failed before it? | 1 service, 3 loads, the second of which may fail at every await; fair |
| `Downloads_taps` | are partial files and stale entries cleaned up, does the track become free and the spinner stop? | 3 taps, 2 of one track, 1 of another of the same file name; faults, cancel, dispose, 1 kill; fair |
| `Downloads_saved` | a doc line | see below |
| `Catalog_boots` | what survives crashes and failed statements, does the next boot succeed? | 2 crashes and 2 failed statements inside boots, 2 tracks, 2 playlists, every origin; fair |
| `Requests_all` | who may wait for whom, and what does a reader see? | 3 requests: any kind; a page or a removal; a listing or an upsert. Lists and bulks of 2, deadlines 3 and 2 units; fair |
| `Requests_list` | a doc line | the requests of `Requests_all`; a listing alone refutes it |
| `NativeTorrent_calls` | do handles and URLs keep their meaning? | 2 callers, 2 handles, 1 hash, 2 stream requests, 3 files, 4 layouts; symmetric callers |
| `TorrentSessions_app` | does the app keep what it opened? | 2 callers of tryInit, 2 of openMagnet, 3 handles, 2 files; fair creation |
| `Import_pages` | is an orderly list found, is what is reported stored? | 3 lines of 23 kinds on one page (sent once when short), or a post beside another of its release (the same, another magnet, a corrected title, a single release) in 2 tabs with 2 tries each; every failure |
| `Import_book` | a message to the operator | 1 audiobook, classified in every way |

Why the bounds are enough. Three loads are the least with one that is
preempted, one that takes over what it left and one that comes after; the
hand-over of a session involves two loads at a time, and the theorems cover
every number. Queues of one and two tracks reach both ends, the wrap and the
shuffle exception. Three taps let one attempt write, one delete and one see
the result. A load that fails between two that do not may fail with the session
of the first in its hand, and before the third. Two crashes or failures, in any
mixture, are one that damages the file and one in the boot that would mend it.
Three requests are one that holds the connection, one that wants it and one
that changes what is read; two units separate a slow upstream from two of them.
Two callers and two handles let one take its number while the other inserts,
and one release while the other waits or adds; three files have a
wrap-around with something between. Two openMagnet calls race for one magnet,
and a third handle is the one added again after a warm path failed. Three lines
hold an entry, one that jumps and one that comes back, around both ends of each
range, texts that are empty, too long or of one slug, and a line jammed in whole
or in part among others.

Deadlock is not checked where requests are bounded (`Playback`, `Downloads`,
`NativeTorrent`, `TorrentSessions`, `Import`): after the last of them the
system may stop. `Catalog` never stops, and `Requests` only once every request
has been answered (`Quiet`): there TLC does look for a deadlock.

Fairness. `Playback`: weak fairness of each load's steps, of scheduled
disposes and of dispose's own steps, because Dart's event loop runs every
ready continuation and timer, and the awaited calls have timeouts (the HTTP
client, the probe's 20 attempts, the torrent worker); mpv's stop and open
return. `RequestHeard` is about loads that do not themselves fail
(`Gens \ Faulty`): a fault drops its load by design. `Downloads`: weak fairness
of an attempt's steps, dio having a receive timeout. `Catalog`: a process that
was started runs, in steps that succeed, since only `MaxFailures` of them fail.
`Requests`: the processor does not stop while some handler can go on, and
clocks go on when none can; `RequestsEnd` then rests on the deadline alone.
`TorrentSessions`: `lt_create` returns and Dart resumes the waiters. Nothing
is assumed of the user, of mpv reaching the end of a track, of stops or starts.

Each property of a passing run has a mutant in `PROJECT.json`, a change of a
definition a bug in the code could make, under which TLC finds it violated.
The mutated forms stand in the modules before the definitions they change.

## What the code does otherwise than it says

Three of them are runs that TLC refutes, with the trace a maintainer can follow.

* `PlaylistsListed` (`admin.go:46`): the tracks of each playlist are asked for
  inside the loop over the playlists, on a pool of one connection. The listing
  waits for itself until the deadline and fails, once there is a playlist; all
  other requests wait with it. The seed export fails in the same way.
* `BookMade` (`app.js:326`): chapters carry no artist
  (`audiobook.go:304` leaves it to the call site, which does nothing),
  `validateTrack` refuses each, no playlist is asked for, and the page
  says "Audiobook playlist created."
* `SavedIsWhole` (`download_service.dart:51`): a second tap, or a tap after a
  kill, finds a partial file and reports it saved.

A trace shows one way there; theorems say how far each goes. `ListingsAreLate`:
no listing of a catalog with a playlist ever succeeds, so it is no race.
`NoBookIsMade`: no audiobook ever gets a playlist. `SavedUndisturbed`: a kill,
two tracks of one file name, and two attempts that meet between the check of
`_inflight` and the entry are all the causes there are; without them
`SavedIsWhole` holds.

The rest was met while modelling and is told here without a run of its own.

* `audio_player_service.dart:232`: a load preempted after the probe, or whose
  open throws, has already taken over the previous session and forgets it. Its
  stats are polled for ever: nothing that happens later, the dispose of the
  service included, ends it (`ForgottenStays`). It is the only way to lose one
  (`SessionsAreHeld`).
* `audio_player_service.dart:377`: dispose does not raise the generation, so a
  load under way opens its source after dispose stopped the player. For the
  same reason loads of two services can overlap, which the comment at line 240
  rules out.
* `download_service.dart:54`: "Already downloading" is checked two awaits
  before the registration; two taps write one file.
* `db.go:51`: a crash between the ALTER of 0002 and its ledger entry makes
  every later boot exit (`BrickedStays`); so does one between the two entries
  that an early v0.2 database is given, which the proof found. No crash is
  needed: `db.go:138` marks 0002 as applied "to be idempotent on next boots" and
  ignores the error of the INSERT, so the server runs on a file that no later
  boot accepts. `BootsRecover` excepts this state (`Unrecorded`) and no other.
* `db.go:118`: a crash inside 0001 is taken for a v0.1 database, and the other
  tables are never created (`MissingStays`).
* `db.go:147`, "loads tracks/playlists into the catalog when the tracks table is
  empty": with all tracks deleted and a seeded playlist kept, the plain INSERT at
  line 248 fails and seeding rolls back on each boot.
* `app.js:276`: two entries of one position whose titles have one slug (a list
  that numbers its second disc from 1 again, titles in a script slugify drops)
  get one id. The second overwrites the first and both are counted, though
  `app.js:301` says "we know the IDs landed".
* `rutracker.go:279`: when part of a list is jammed onto a line, lines that parse
  by themselves keep the sweep from running, and the rest is lost.
* `service.go:34`: "a slow upstream never stalls the whole search": two slow ones
  take it into the router's deadline. `provider.go:87` promises an alphabetical
  order and ranges over a map.
* `streamer.go:141`: two priority loops that overlap can end with no file
  prioritised. `streamer.go:53` says the nearest audio file, the code takes the next one
  forwards; `manager.go:192` says the first handle, the code takes any.
* `api.go:54`: the last error is never cleared. `service/admin.go:17`: nothing
  returns `ErrConflict`, so the 409 of `http/admin.go:159` is dead.
* `audiobook.go:272`: a second numbered list that starts over is not rejected
  but merged, with repeated file indexes; only jumps ahead are.

## Proofs

Every safety property of a passing run is a theorem: it holds for all values of
the constants that the named assumptions allow. The assumptions only say what the constants are (numbers are numbers, a marker like
`Nobody` is no request, `TappedFor` names tracks); those that say more are named
below.

`PlaybackProofs.tla`, for every set of tracks and queues, every number of
services and loads, every choice of faults:

* `TypeCorrect`: from `TypeOK` alone. What follows also rests on `AskedLoads`
  (loads are numbered in the order they were asked for) and `LoadsInOrder` (one
  load at a time), inductive because `Turn` waits for *all* earlier loads and
  `Finished` is final.
* `HeardIsCurrent`, assuming `player.stop` does not throw: `SoundIsCurrent` is
  not inductive. It needs `HeardWasAsked` (a load that was never asked for is
  not what is heard), and `NewestLoadsCurrent` (every change of queue or index
  asks for a new load in the same turn of the event loop, so the newest load's
  track is the current one). The crux is `Opened`: the load that opens need
  not be the newest, but then the newest is still queued behind it.
* `SourceStaysServed`, `PeersShownAreActive`, `ActiveStaysUsable`: from
  `SessInv`. `LoadsBehind` says how far a load is whose session is in use, so
  that a load that disposes of one is not the load that is heard.
  `PreviousOpen` is the hand-over: what a load holds in `prev` is the session of
  an *earlier* load, open, and no longer attached; with `LoadsInOrder` no two
  loads hold one. `SessionsKept` is what was wanted, strengthened by: in a
  living service a session that is closed belongs to a load that has finished
  and is not heard.
* `SessionsAreHeld`: `OpenIsHeld`, every open session is attached or in the hands
  of a load, unless a later load was dropped. A session changes hands in the
  swap, and by `OnePrevious` no other load has one in hand meanwhile.
* `SessionsEndForGood`: the action property `EndsKept`, from `LoadsBehind` and
  `PreviousOpen`: only a load past its resolve attaches a session, its own.
* `ForgottenStays`: that a session once forgotten (`Forgotten`: open, its load
  ended, neither attached nor held by a load) stays so. A load that is dropped
  with a session in its hand leaves it forgotten, by `PreviousOpen` and because
  no two loads hold one.
* `PromiseKept`: `Playback` implements `PlaybackPromise`. `Opened` maps to
  `Play` because all earlier loads have finished and no later one has begun;
  what else touches the player maps to `FallSilent`; asking maps to `Ask`.

`DownloadsProofs.tla`, for every tracks, taps, file names and kills:

* `TypeCorrect`, `EntriesAreLive`: both inductive; the second because every way
  out of the try clears the entry of its track, whoever's it is by then.
* `LeftoversAreCleaned`: "somebody is at work on a partial file" is not
  inductive, since he may finish. `PartialOwned` names one whose end repairs the
  file (`Owner`): the one who truncated it last, while it holds the file; one
  who will mix another track in; or one that has failed and is about to delete.
* `SettledFilesStay`: every write to a file is by an attempt that had been
  cleared for it, so none is left.
* `SavedUndisturbed`, assuming that each track has a file name of its own
  (`OwnNames`), of behaviours in which nothing disturbs (`Undisturbed`: no kill
  yet, and never two attempts of a track past the check of `_inflight` without
  an entry between them). `InTurn` is what that buys: the attempts of a track
  take turns, and a file that one of them finds is whole, with nobody at it.

`CatalogProofs.tla`, for every rows, origins, crashes and failures:

* `MigrationsTracked`: from `CatalogInv`. Neither the map (`MapSound`) nor the
  ledger (`LedgerSound`) ever names a migration whose objects are not there,
  whatever failed, because a name is written only after its statements or after
  a lookup that found the object; `LoopSound` carries what the loop knows from
  one statement to the next. That the map *is* the ledger (`AppliedIsLedger`),
  and so that the ledger is complete and no migration runs again, needs that no
  statement failed.
* `SchemaWhole`: undisturbed, from `Tracked` on top: outside the loop's body, a
  tracks table means all four tables.
* `BootsAreAccepted`: the safety half of `BootsServe`, undisturbed. `BootsInv`
  adds `ColumnRecorded`: the column of 0002 is in the ledger, or the boot at work
  is about to put it there.
* `BrickedStays`, `MissingStays`: what a crash or an ignored error leaves stays,
  since a boot reads the ledger once and adds only what it does not name. Both
  say "until a statement fails once more": a ledger that is read in part may
  make a boot run what it had passed over.
* `RowsReferToRows`: `References` is inductive: a seed is written only into a
  catalog without tracks, hence without links, and deletes cascade.

`RequestsProofs.tla`, for every number of requests, length of lists and bulks,
deadline and time-outs:

* `TypesHold`, `ConnectionIsReturned`: from `Shape` (`Fits`: what is left of a
  handler is a suffix of one of its programs) and `HolderInside`: the holder of
  the connection is *exactly* the request whose next step is inside a listing
  or a transaction, so every early return that forgets it would show.
* `PagesShowWholeLists`: from `ListsWhole`. Outside a transaction the playlist
  is one writer's list; inside, what it would be rolled back to is, and what
  stands there is as long as the steps the holder has left tell. A page reads
  row and links in two statements and may see a removal between them, but no
  half list, because a transaction keeps the connection throughout.
* `CatalogIsFree`: time passes only when everybody waits; if nobody calls an
  upstream somebody holds the connection, and by `HolderInside` only a listing
  waits with the connection in its hand.
* `ListingsAreLate`: by `HolderInside` a listing that is about to query a
  playlist's tracks holds the connection that query waits for.
* `SearchSurvives`: from `LocalToCome` (a search has the local results, or they
  are still ahead of it) and `TimeSpent` (its age is what it spent on its two
  upstreams, each below its time-out), under the assumption that one time-out
  is shorter than the deadline.

`NativeTorrentProofs.tla`, for every number of callers, requests, hashes and
files:

* `HandlesMean`: from `HandlesInv`. `HandlesKept` is an action property; that
  `Insert` overwrites nothing needs `OwnNumber` (the number of a caller
  between the counter and the map is in no table entry and held by no other
  caller), and that needs `Counted` (numbers in use have been counted, so the
  next one is fresh). `CallHandles` states it for calls with any arguments, so
  that the layers above can use it.
* `NativeTypes`: from `TypesInv`, which adds to the types that a caller about
  to insert has a torrent that was made.
* `UrlsNamePlayable`: `RemapAudio` (the remap of an audio file is that file)
  and that neither a hash nor its audio files ever change.
* `LastRequestWins`: from `AloneInv`: a loop that is alone since it began has
  set the priorities of the files it has come by, for every file.

`TorrentSessionsProofs.tla`, for every number of callers, magnets and hashes:

* `OneSession`: from `OneCreation` (at most one creation is under way, and none
  once there is a session).
* `StaysServed`: `OpenedStaysServed` rests on what the app does *not* do: it
  never releases a handle. `TorrentsLive` says that then no torrent is dropped,
  there is one for each hash, and handles lead to active ones; `UrlsServed`
  that a URL was given out for a torrent with metadata; `CallFits` where a
  thread of the library is when its openMagnet has reached a step, so that a
  URL that is returned is the one the native call gave. `HandlesInv` is
  reused through `CallHandles`.
* `TrackIsPicked`, `SessionsTyped`: from `AppInv`. `NamesTrack` says what an
  openMagnet holds at each await (the torrent it adds, the handle it was given,
  the URL it was told) is of its own magnet, and `CacheNames` the same of the
  handles a service keeps. The library only grows under the app (`CallGrows`),
  so a fact about a handle stays true while others work (`KeepsTrack`).
  `ServedAnswers` is the one place where indexes meet: cold clamps, warm does
  not, and an index past the end has no URL, which sends warm to cold.
* `AppUsesLibrary`: `TorrentSessions` implements `NativeTorrent` under its own
  variables: each step is a call the library allows, or none. So the theorems of
  `NativeTorrentProofs` hold of the app. It needs `NamesTrack`: `NativeTorrent`
  is stated for handles and files that there can be.

`TracklistsProofs.tla`, for every page, of any length:

* `PagesReadRight`: what `Parse` finds satisfies `ReadRight`. This is induction
  over data, and the library's induction theorems are of no use here, as they
  take an operator; but that < is well-founded on Nat is a fact about
  *sets*. `SetInduction` takes it from there (a set that has 0, and n + 1 with n,
  has every number), and each induction is the set of the numbers at which a
  claim holds. `RunExists` gives the recursive function of a loop its
  values, and `FoundByLoop` those of `Found`. Then `LinesInOrder` and
  `JammedInOrder`: the matches of an orderly page are its entries, in the one
  layout and in the other; each fits after the one before, so the loop keeps
  all. That a jammed list is not found line by line, so that the sweep is
  reached at all, is a step of its own.

`ImportProofs.tla`, for every tabs, pages, tries and failures:

* `TypesHold`: from `TabsInv`; `ParsedIsOK` says of the parser that a result is
  empty or has two entries, each of them a track or a chapter.
* `ListsAreRead`: from `PagesReadRight` and `Given`: the list of a tab is what
  its page parses to, for as long as the tab is open.
* `ImportsArrive`: from `CountedValid` (what was counted has an artist) and
  `OneRow`: two entries with one id, of tabs with one magnet, agree in magnet,
  file and artist, since the file follows from the number, and in the title too
  when both are `Alone`. `UpsertStep` puts it to use: an upsert of either
  leaves the other landed. That is why tabs may import one topic at once.
* `NoBookIsMade`: a chapter has no artist, so nothing of an audiobook is
  counted, and a playlist is asked for only when something was.

Only model-checked: liveness (`LoadsEnd`, `RequestHeard`, `ReplacedDisposed`,
`TracksFreed`, `SpinnerEnds`, `BootsServe`, `BootsRecover`, `RequestsEnd`,
`InitsEnd`), which rests on fairness and is beyond the prover.

## What is not modelled

Screens, localisation, theme, platform runners and scripts have no state of
interest. HTML parsing and the fields the providers copy from the answers of
the Internet Archive and Jamendo are string work; of a provider `Requests`
keeps that it calls upstream, may fail, and may be slow. `lt_destroy`, download
statistics, `DropData` and the text of the last error are left out of
`NativeTorrent`. The source resolver (`source_resolver.dart`) appears as what
`Playback` lets it return. The audio cache (`audio_cache.dart`) is constructed
by no other file: nothing calls it. media_kit, dio, SQLite and
anacrolix/torrent are external: modelled by how the code uses them. Bytes of
audio are one token.

## Plan

What is left, in this order.

1. `UserLibrary`: edits of likes and playlists against the order in which
   their writes land.
2. Proofs about it, and about the downloads an abstract specification: a file
   on disk as the two-state thing the rest of the app takes it for.
