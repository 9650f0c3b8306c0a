------------------------------ MODULE Requests ------------------------------
(***************************************************************************)
(* The backend at work: every HTTP request is the list of steps its        *)
(* handler takes, and all of them share the one connection of the database *)
(* pool (SetMaxOpenConns(1)).  A request gives up at the deadline of the   *)
(* router's Timeout middleware, an upstream call at its client's timeout.  *)
(*                                                                         *)
(* Time passes in units of 5 s, and only while no request can take a step  *)
(* of its own: statements take no time, waiting does.  The model follows   *)
(* one playlist, whose tracks are not deleted meanwhile.                   *)
(***************************************************************************)
EXTENDS Integers, Sequences, FiniteSets

CONSTANTS
  Requests,
  Kinds,      \* the kinds each request may be of
  Providers,  \* what main registers: "local", "ia" and perhaps "jamendo"
  Nobody,     \* the connection is free
  Seed,       \* who wrote the playlist that is there from the start
  ListLen,    \* bound: tracks of the playlist
  BulkSize,   \* bound: tracks of a bulk upsert
  Deadline,   \* middleware.Timeout, in units
  Timeout     \* the timeout of each upstream's HTTP client, in units

Upstreams == {"ia", "jamendo", "rutracker"}
Writers   == Requests \cup {Seed}

\* A provider's client gives up (10 s) before the router does (15 s).
ASSUME RequestsAssumption ==
  /\ Nobody \notin Requests
  /\ Seed \notin Requests
  /\ Providers \subseteq {"local", "ia", "jamendo"}
  /\ ListLen \in Nat
  /\ BulkSize \in Nat
  /\ Deadline \in Nat \ {0}
  /\ Timeout \in [Upstreams -> 1 .. Deadline]
  /\ \A u \in Providers \cap Upstreams : Timeout[u] < Deadline

-----------------------------------------------------------------------------
(***************************************************************************)
(* The handlers, as steps.  "read" and "exec" are one statement, which     *)
(* takes the connection and gives it back.  "open" leaves a result set     *)
(* open: the connection stays taken until "close".                         *)
(***************************************************************************)
Featured        == <<"read">>
Trending        == <<"read">>
AdminListTracks == <<"read">>
GetLocal        == <<"read">>      \* a track or a stream of the catalog
RecordPlay      == <<"exec">>
UpsertTrack     == <<"exec">>
DeleteTrack     == <<"exec">>
DeletePlaylist  == <<"drop">>
PlaylistTracks  == <<"row", "links">>
AdminStats      == <<"read", "read", "read", "read">>
ListPlaylists   == <<"open">>
ExportSeed      == AdminListTracks \o ListPlaylists
BulkTracks      == [i \in 1 .. BulkSize |-> "exec"]
UpsertPlaylist  ==
  <<"begin", "put", "clear">> \o [i \in 1 .. ListLen |-> "link"] \o <<"commit">>
ImportRutracker == <<"rutracker">>

\* The registry lists the providers in the order of a Go map: any.
Search ==
  {p \in [1 .. Cardinality(Providers) -> Providers] :
     \A i, j \in DOMAIN p : p[i] = p[j] => i = j}

\* A track or a stream of another provider.
GetForeign == {<<p>> : p \in Providers \ {"local"}}

Handlers ==
  [featured |-> {Featured}, trending |-> {Trending}, getLocal |-> {GetLocal},
   getForeign |-> GetForeign, search |-> Search, play |-> {RecordPlay},
   page |-> {PlaylistTracks}, stats |-> {AdminStats},
   listTracks |-> {AdminListTracks}, upsertTrack |-> {UpsertTrack},
   deleteTrack |-> {DeleteTrack}, bulk |-> {BulkTracks},
   list |-> {ListPlaylists}, upsert |-> {UpsertPlaylist},
   remove |-> {DeletePlaylist}, export |-> {ExportSeed},
   import |-> {ImportRutracker}]

ASSUME KindsAssumption == Kinds \in [Requests -> SUBSET DOMAIN Handlers]

\* Handlers that go on after an error, and answer all the same.
Tolerant == {"search", "bulk", "play"}
Listings == {"list", "export"}

VARIABLES
  holder,  \* the request that has the connection
  kind, todo, answer, age, \* of each request
  spent,   \* how long it has waited for each upstream
  found,   \* the providers whose results a search has
  exists, links, \* the playlist: its row, its links <<writer, position>>
  saved,   \* the playlist as it was when the transaction began
  shown    \* the links a page was given

vars == <<holder, kind, todo, answer, age, spent, found, exists, links, saved, shown>>
list == <<exists, links, saved>>
seen == <<found, shown>>

AllLinks == Writers \X (0 .. ListLen - 1)
Full(w)  == {w} \X (0 .. ListLen - 1)

Answers == {"idle", "pending", "ok", "missing", "failed", "late"}

TypeOK ==
  /\ holder \in Requests \cup {Nobody}
  /\ kind \in [Requests -> DOMAIN Handlers \cup {"none"}]
  /\ answer \in [Requests -> Answers]
  /\ age \in [Requests -> 0 .. Deadline]
  /\ spent \in [Requests -> [Upstreams -> 0 .. Deadline]]
  /\ found \in [Requests -> SUBSET Providers]
  /\ exists \in BOOLEAN
  /\ links \subseteq AllLinks
  /\ saved \in [exists : BOOLEAN, links : SUBSET AllLinks]
  /\ shown \in [Requests -> SUBSET AllLinks]
  /\ \A r \in Requests : answer[r] = "pending" <=> todo[r] # <<>>

Init ==
  /\ holder = Nobody
  /\ kind = [r \in Requests |-> "none"]
  /\ todo = [r \in Requests |-> <<>>]
  /\ answer = [r \in Requests |-> "idle"]
  /\ age = [r \in Requests |-> 0]
  /\ spent = [r \in Requests |-> [u \in Upstreams |-> 0]]
  /\ found = [r \in Requests |-> {}]
  /\ exists \in BOOLEAN
  /\ links = IF exists THEN Full(Seed) ELSE {}
  /\ saved = [exists |-> exists, links |-> links]
  /\ shown = [r \in Requests |-> {}]

-----------------------------------------------------------------------------
\* Request r is about to take step s, before its deadline.
At(r, s) ==
  /\ todo[r] # <<>>
  /\ Head(todo[r]) = s
  /\ age[r] < Deadline

\* The handler goes on with the steps "rest", or answers.
Proceed(r, rest) ==
  /\ todo' = [todo EXCEPT ![r] = rest]
  /\ answer' = IF rest = <<>> THEN [answer EXCEPT ![r] = "ok"] ELSE answer

\* The handler returns early; its deferred calls release what it holds.
Return(r, a) ==
  /\ todo' = [todo EXCEPT ![r] = <<>>]
  /\ answer' = [answer EXCEPT ![r] = a]

\* Mutant of Release: a transaction that fails is left open.
ReleaseRows(r) ==
  /\ holder' = IF holder = r /\ kind[r] # "upsert" THEN Nobody ELSE holder
  /\ UNCHANGED list

\* Deferred: rows.Close(), tx.Rollback().
Release(r) ==
  /\ holder' = IF holder = r THEN Nobody ELSE holder
  /\ IF holder = r /\ kind[r] = "upsert"
       THEN exists' = saved.exists /\ links' = saved.links
       ELSE UNCHANGED <<exists, links>>
  /\ UNCHANGED saved

\* A handler with nothing to do, as for a bulk of no tracks, answers at once.
Arrive(r) ==
  /\ answer[r] = "idle"
  /\ \E k \in Kinds[r] :
       /\ kind' = [kind EXCEPT ![r] = k]
       /\ \E p \in Handlers[k] :
            /\ todo' = [todo EXCEPT ![r] = p]
            /\ answer' = [answer EXCEPT ![r] = IF p = <<>> THEN "ok" ELSE "pending"]
  /\ UNCHANGED <<holder, age, spent, seen, list>>

\* One statement that changes nothing the model follows.
Statement(r) ==
  /\ holder = Nobody
  /\ \E s \in {"read", "exec", "each"} : At(r, s)
  /\ Proceed(r, Tail(todo[r]))
  /\ UNCHANGED <<holder, kind, age, spent, seen, list>>

\* The catalog provider's part of a search.
SearchLocal(r) ==
  /\ holder = Nobody
  /\ At(r, "local")
  /\ found' = [found EXCEPT ![r] = @ \cup {"local"}]
  /\ Proceed(r, Tail(todo[r]))
  /\ UNCHANGED <<holder, kind, age, spent, shown, list>>

ReadRow(r) ==
  /\ holder = Nobody
  /\ At(r, "row")
  /\ IF exists THEN Proceed(r, Tail(todo[r])) ELSE Return(r, "missing")
  /\ UNCHANGED <<holder, kind, age, spent, seen, list>>

ReadLinks(r) ==
  /\ holder = Nobody
  /\ At(r, "links")
  /\ shown' = [shown EXCEPT ![r] = links]
  /\ Proceed(r, Tail(todo[r]))
  /\ UNCHANGED <<holder, kind, age, spent, found, list>>

\* No such track: no row to read or delete, or nothing playable upstream.
NotFound(r) ==
  /\ kind[r] \in {"getLocal", "getForeign", "deleteTrack"}
  /\ \/ holder = Nobody /\ \E s \in {"read", "exec"} : At(r, s)
     \/ \E u \in Upstreams : At(r, u)
  /\ Return(r, "missing")
  /\ UNCHANGED <<holder, kind, age, spent, seen, list>>

\* DELETE FROM playlists; the links go with the row.
Drop(r) ==
  /\ holder = Nobody
  /\ At(r, "drop")
  /\ exists' = FALSE
  /\ links' = {}
  /\ IF exists THEN Proceed(r, Tail(todo[r])) ELSE Return(r, "missing")
  /\ UNCHANGED <<holder, kind, age, spent, seen, saved>>

\* The playlists' result set: one more query for each row, inside the loop.
Open(r) ==
  /\ holder = Nobody
  /\ At(r, "open")
  /\ holder' = r
  /\ Proceed(r, (IF exists THEN <<"each">> ELSE <<>>) \o <<"close">> \o Tail(todo[r]))
  /\ UNCHANGED <<kind, age, spent, seen, list>>

\* Mutant of Close: the rows stay open.
CloseNot(r) ==
  /\ At(r, "close")
  /\ Proceed(r, Tail(todo[r]))
  /\ UNCHANGED <<holder, kind, age, spent, seen, list>>

Close(r) ==
  /\ At(r, "close")
  /\ holder' = Nobody
  /\ Proceed(r, Tail(todo[r]))
  /\ UNCHANGED <<kind, age, spent, seen, list>>

-----------------------------------------------------------------------------
(* A playlist is replaced in one transaction, which keeps the connection. *)

\* Mutant of Begin: no transaction; each statement stands for itself.
BeginNot(r) ==
  /\ holder = Nobody
  /\ At(r, "begin")
  /\ Proceed(r, Tail(todo[r]))
  /\ UNCHANGED <<holder, kind, age, spent, seen, list>>

Begin(r) ==
  /\ holder = Nobody
  /\ At(r, "begin")
  /\ holder' = r
  /\ saved' = [exists |-> exists, links |-> links]
  /\ Proceed(r, Tail(todo[r]))
  /\ UNCHANGED <<kind, age, spent, seen, exists, links>>

Put(r) ==
  /\ At(r, "put")
  /\ exists' = TRUE
  /\ Proceed(r, Tail(todo[r]))
  /\ UNCHANGED <<holder, kind, age, spent, seen, links, saved>>

Clear(r) ==
  /\ At(r, "clear")
  /\ links' = {}
  /\ Proceed(r, Tail(todo[r]))
  /\ UNCHANGED <<holder, kind, age, spent, seen, exists, saved>>

\* Mutant of Link: positions are counted from 1.
LinkFromOne(r) ==
  /\ At(r, "link")
  /\ links' = links \cup {<<r, Cardinality(links) + 1>>}
  /\ Proceed(r, Tail(todo[r]))
  /\ UNCHANGED <<holder, kind, age, spent, seen, exists, saved>>

Link(r) ==
  /\ At(r, "link")
  /\ links' = links \cup {<<r, Cardinality(links)>>}
  /\ Proceed(r, Tail(todo[r]))
  /\ UNCHANGED <<holder, kind, age, spent, seen, exists, saved>>

Commit(r) ==
  /\ At(r, "commit")
  /\ holder' = Nobody
  /\ Proceed(r, Tail(todo[r]))
  /\ UNCHANGED <<kind, age, spent, seen, list>>

\* A write is invalid, breaks a constraint or cannot be committed.
WriteFails(r) ==
  /\ \E s \in {"exec", "begin", "put", "clear", "link", "commit"} : At(r, s)
  /\ IF kind[r] \in Tolerant
       THEN Proceed(r, Tail(todo[r])) ELSE Return(r, "failed")
  /\ Release(r)
  /\ UNCHANGED <<kind, age, spent, seen>>

-----------------------------------------------------------------------------
(* Upstream calls, and the passing of time. *)

Replies(r) ==
  /\ \E u \in Upstreams :
       /\ At(r, u)
       /\ found' = [found EXCEPT ![r] = @ \cup ({u} \cap Providers)]
  /\ Proceed(r, Tail(todo[r]))
  /\ UNCHANGED <<holder, kind, age, spent, shown, list>>

\* A refused or broken answer, or the client's timeout.
UpstreamFails(r) ==
  /\ \E u \in Upstreams : At(r, u)
  /\ IF kind[r] \in Tolerant
       THEN Proceed(r, Tail(todo[r])) ELSE Return(r, "failed")
  /\ UNCHANGED <<holder, kind, age, spent, seen, list>>

\* Mutant of Expire: the router sets no deadline for a listing.
ExpireOthers(r) ==
  /\ kind[r] \notin Listings
  /\ answer[r] = "pending"
  /\ age[r] = Deadline
  /\ Return(r, IF kind[r] \in Tolerant THEN "ok" ELSE "late")
  /\ Release(r)
  /\ UNCHANGED <<kind, age, spent, seen>>

\* The context is done: whatever the handler waits for, or tries next, fails
\* with its error; a tolerant handler answers with what it has.
Expire(r) ==
  /\ answer[r] = "pending"
  /\ age[r] = Deadline
  /\ Return(r, IF kind[r] \in Tolerant THEN "ok" ELSE "late")
  /\ Release(r)
  /\ UNCHANGED <<kind, age, spent, seen>>

NeedsConn == {"read", "exec", "each", "local", "row", "links", "drop", "open", "begin"}

Calling(r, u) == todo[r] # <<>> /\ Head(todo[r]) = u

\* Mutant of Waits: the upstream clients have no timeout.
WaitsOn(r) ==
  /\ age[r] < Deadline
  /\ \/ holder # Nobody /\ Head(todo[r]) \in NeedsConn
     \/ \E u \in Upstreams : Calling(r, u)

\* r waits for the connection, or for an upstream whose client is patient yet.
Waits(r) ==
  /\ age[r] < Deadline
  /\ \/ holder # Nobody /\ Head(todo[r]) \in NeedsConn
     \/ \E u \in Upstreams : Calling(r, u) /\ spent[r][u] < Timeout[u]

Tick ==
  /\ \E r \in Requests : answer[r] = "pending"
  /\ \A r \in Requests : answer[r] = "pending" => Waits(r)
  /\ age' = [r \in Requests |-> IF answer[r] = "pending" THEN age[r] + 1 ELSE age[r]]
  /\ spent' = [r \in Requests |->
       [u \in Upstreams |-> IF Calling(r, u) THEN spent[r][u] + 1 ELSE spent[r][u]]]
  /\ UNCHANGED <<holder, kind, todo, answer, seen, list>>

\* Every request has been answered; nothing is left to do.
Quiet ==
  /\ \A r \in Requests : answer[r] \notin {"idle", "pending"}
  /\ UNCHANGED vars

Step(r) ==
  \/ Statement(r) \/ SearchLocal(r) \/ ReadRow(r) \/ ReadLinks(r) \/ Drop(r)
  \/ NotFound(r)
  \/ Open(r) \/ Close(r)
  \/ Begin(r) \/ Put(r) \/ Clear(r) \/ Link(r) \/ Commit(r) \/ WriteFails(r)
  \/ Replies(r) \/ UpstreamFails(r) \/ Expire(r)

Next == (\E r \in Requests : Arrive(r) \/ Step(r)) \/ Tick \/ Quiet

Spec == Init /\ [][Next]_vars

\* The processor does not stop while some handler can go on, nor do clocks.
FairSpec == Spec /\ WF_vars(Tick \/ \E r \in Requests : Step(r))

-----------------------------------------------------------------------------
(* What the code is meant to guarantee. *)

\* The connection is only ever held by a handler that is still running and
\* that will give it back: inside the loop of a listing, or inside the
\* transaction of a playlist upsert (admin.go: the deferred Close and Rollback).
PoolSound ==
  holder # Nobody =>
    /\ answer[holder] = "pending"
    /\ \/ kind[holder] \in Listings /\ Head(todo[holder]) \in {"each", "close"}
       \/ /\ kind[holder] = "upsert"
          /\ Head(todo[holder]) \in {"put", "clear", "link", "commit"}

Stalled(r) == age[r] > 0
AListingStalled == \E q \in Requests : kind[q] \in Listings /\ Stalled(q)

\* A request that uses the local catalog alone waits for nothing but the
\* connection, and is kept from it only while a listing sits on it: no other
\* handler, and no slow upstream, ever holds up the catalog (db.go's pool of
\* one, service.go's searches, which call upstreams with no rows open).
OnlyListingsStall ==
  \A r \in Requests :
    Stalled(r) => \/ \E u \in Upstreams : spent[r][u] > 0
                  \/ AListingStalled

\* A search is answered with the local catalog's results, whatever one of the
\* upstreams does, in whatever order the registry lists them: it takes two
\* slow upstreams, or a listing, to lose them (Search's "degrades gracefully").
SearchDegrades ==
  \A r \in Requests :
    kind[r] = "search" /\ answer[r] = "ok" /\ "local" \in Providers =>
      \/ "local" \in found[r]
      \/ Cardinality({u \in Upstreams : spent[r][u] > 0}) > 1
      \/ AListingStalled

\* A page shows no tracks, or all the tracks of a list whose upsert has been
\* answered with success: never a list half replaced, nor one rolled back
\* (AdminUpsertPlaylist "atomically replaces its track list").
PagesWhole ==
  \A r \in Requests :
    shown[r] # {} =>
      \E w \in Writers : shown[r] = Full(w) /\ (w = Seed \/ answer[w] = "ok")

\* Every request is answered in the end, a listing by its deadline.
RequestsEnd ==
  \A r \in Requests : answer[r] = "pending" ~> answer[r] \notin {"idle", "pending"}

\* What admin.go:46 says, "AdminListPlaylists returns all curated playlists":
\* a listing is never told that it came too late.
PlaylistsListed == \A r \in Requests : kind[r] = "list" => answer[r] # "late"

=============================================================================
