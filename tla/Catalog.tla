------------------------------ MODULE Catalog ------------------------------
(***************************************************************************)
(* The backend's SQLite catalog over the life of its database file: boots  *)
(* (Migrate, then SeedIfEmpty), requests that change it, and crashes.      *)
(* SQLite commits each statement of a migration on its own, so a crash may *)
(* fall between any two of them; and each statement of a boot may fail,    *)
(* which the code sometimes looks at and sometimes does not.               *)
(***************************************************************************)
EXTENDS Integers, Sequences

CONSTANTS
  TrackIds,
  PlaylistIds,
  SeedLinks,  \* <<playlist, track>>: the playlists of the seed file
  SeedTracks, \* the tracks of the seed file
  Origins,    \* what the database file may hold before the first boot
  MaxCrashes, \* bound: crashes while a boot is under way
  MaxFailures \* bound: statements of a boot that fail

SeedPlaylists == {l[1] : l \in SeedLinks}

ASSUME CatalogAssumption ==
  /\ SeedTracks \subseteq TrackIds
  /\ SeedLinks \subseteq PlaylistIds \X SeedTracks
  /\ Origins \subseteq {"fresh", "v0.1", "v0.2"}
  /\ MaxCrashes \in Nat
  /\ MaxFailures \in Nat

(***************************************************************************)
(* The embedded migrations: the schema object each statement adds.  Tables *)
(* are created IF NOT EXISTS; file_index is the column 0002 adds to        *)
(* tracks.  (0001's indexes come and go with the tables and are left out.) *)
(***************************************************************************)
Body == << <<"tracks", "playlists", "playlist_tracks", "track_stats">>,
           <<"file_index">> >>

Names  == {1, 2}
Tables == {"tracks", "playlists", "playlist_tracks", "track_stats"}
Schema == Tables \cup {"file_index"}

VARIABLES
  schema,    \* the schema objects in the file
  ledger,    \* schema_migrations
  tracks, links, playlists, plays,  \* the rows (plays: tracks with a count)
  pc,        \* what the process does next
  applied,   \* the map loadAppliedMigrations returned
  name, stmt,\* the migration being applied, its next statement
  crashes, failures

disk == <<schema, ledger>>
rows == <<tracks, links, playlists, plays>>
proc == <<pc, applied, name, stmt>>
faults == <<crashes, failures>>
vars == <<disk, rows, proc, faults>>

Stages == {"down", "load", "lookTracks", "backfill", "lookColumn", "backfillColumn",
           "pick", "apply", "record", "seed", "serving", "refused"}

TypeOK ==
  /\ schema \subseteq Schema
  /\ ledger \subseteq Names
  /\ tracks \subseteq TrackIds
  /\ playlists \subseteq PlaylistIds
  /\ links \subseteq PlaylistIds \X TrackIds
  /\ plays \subseteq TrackIds
  /\ pc \in Stages
  /\ applied \subseteq Names
  /\ name \in Names
  /\ stmt \in 1 .. 4
  /\ crashes \in 0 .. MaxCrashes
  /\ failures \in 0 .. MaxFailures

\* A v0.1 database has no ledger; one of the first v0.2 builds has none
\* either, and the new column.
Init ==
  /\ \E o \in Origins :
       /\ schema = CASE o = "fresh" -> {}
                     [] o = "v0.1"  -> Tables
                     [] o = "v0.2"  -> Schema
       /\ tracks \in IF o = "fresh" THEN {{}} ELSE SUBSET TrackIds
  /\ ledger = {}
  /\ links = {} /\ playlists = {} /\ plays = {}
  /\ pc = "down"
  /\ applied = {}
  /\ name = 1
  /\ stmt = 1
  /\ crashes = 0
  /\ failures = 0

-----------------------------------------------------------------------------
(* A boot.  An action whose name ends in Fails is the outcome of the same   *)
(* statement when SQLite reports an error.                                  *)

Fails == failures < MaxFailures /\ failures' = failures + 1

\* The ledger table is created if need be.
Start ==
  /\ pc = "down"
  /\ pc' = "load"
  /\ UNCHANGED <<disk, rows, applied, name, stmt, faults>>

StartFails ==
  /\ pc = "down" /\ Fails
  /\ pc' = "refused"
  /\ UNCHANGED <<disk, rows, applied, name, stmt, crashes>>

\* The map as the rows read make it.
Loaded(read) ==
  /\ applied' = read
  /\ pc' = IF read = {} THEN "lookTracks" ELSE "pick"
  /\ UNCHANGED <<disk, rows, name, stmt>>

Load ==
  /\ pc = "load"
  /\ Loaded(ledger)
  /\ UNCHANGED faults

\* An error of the query is returned.  One that ends the iteration is not seen
\* (nobody asks rows.Err), and the rows read so far are taken for all.
LoadFails ==
  /\ pc = "load" /\ Fails
  /\ \/ pc' = "refused" /\ UNCHANGED <<disk, rows, applied, name, stmt>>
     \/ \E read \in SUBSET ledger : Loaded(read)
  /\ UNCHANGED crashes

\* An empty map: a tracks table tells a database older than the ledger.
LookTracks ==
  /\ pc = "lookTracks"
  /\ pc' = IF "tracks" \in schema THEN "backfill" ELSE "pick"
  /\ UNCHANGED <<disk, rows, applied, name, stmt, faults>>

\* Mutant of LookColumn: it does not look for the column.
LookColumnBlind ==
  /\ pc = "lookColumn"
  /\ pc' = "backfillColumn"
  /\ UNCHANGED <<disk, rows, applied, name, stmt, faults>>

LookColumn ==
  /\ pc = "lookColumn"
  /\ pc' = IF "file_index" \in schema THEN "backfillColumn" ELSE "pick"
  /\ UNCHANGED <<disk, rows, applied, name, stmt, faults>>

\* The error of either lookup is ignored, and nothing counts as found.
LookFails ==
  /\ pc \in {"lookTracks", "lookColumn"} /\ Fails
  /\ pc' = "pick"
  /\ UNCHANGED <<disk, rows, applied, name, stmt, crashes>>

Marks(n, then) ==
  /\ ledger' = ledger \cup {n}
  /\ applied' = applied \cup {n}
  /\ pc' = then
  /\ UNCHANGED <<schema, rows, name, stmt>>

\* The tables are taken to be there.
Backfill ==
  /\ pc = "backfill"
  /\ Marks(1, "lookColumn")
  /\ UNCHANGED faults

\* Mutant of BackfillColumn: it never records 0002.
BackfillColumnNever ==
  /\ pc = "backfillColumn"
  /\ pc' = "pick"
  /\ UNCHANGED <<disk, rows, applied, name, stmt, faults>>

BackfillColumn ==
  /\ pc = "backfillColumn"
  /\ Marks(2, "pick")
  /\ UNCHANGED faults

\* The error of either INSERT is ignored: the map has the name, the ledger has not.
BackfillFails ==
  /\ Fails
  /\ \/ pc = "backfill" /\ applied' = applied \cup {1} /\ pc' = "lookColumn"
     \/ pc = "backfillColumn" /\ applied' = applied \cup {2} /\ pc' = "pick"
  /\ UNCHANGED <<disk, rows, name, stmt, crashes>>

\* The loop over the sorted names: the first one not applied, if any.
Pick ==
  /\ pc = "pick"
  /\ IF applied = Names
       THEN pc' = "seed" /\ UNCHANGED <<name, stmt>>
       ELSE /\ name' = IF 1 \in applied THEN 2 ELSE 1
            /\ stmt' = 1
            /\ pc' = "apply"
  /\ UNCHANGED <<disk, rows, applied, faults>>

\* Mutant of Succeeds: the tables are created without IF NOT EXISTS.
SucceedsOnce(object) ==
  /\ object = "file_index" => "tracks" \in schema
  /\ object \notin schema

\* CREATE TABLE IF NOT EXISTS succeeds either way; ALTER TABLE needs its table
\* and fails on a column that is there.
Succeeds(object) ==
  object = "file_index" => "tracks" \in schema /\ "file_index" \notin schema

\* Mutant of Apply: the driver runs only the first statement of a text.
ApplyFirst ==
  /\ pc = "apply"
  /\ schema' = schema \cup {Body[name][1]}
  /\ pc' = "record"
  /\ UNCHANGED <<ledger, rows, applied, name, stmt, faults>>

\* One statement of the migration runs.  Migrate returns its error, and main exits.
Apply ==
  /\ pc = "apply"
  /\ LET object == Body[name][stmt] IN
     IF Succeeds(object)
       THEN /\ schema' = schema \cup {object}
            /\ pc' = IF stmt = Len(Body[name]) THEN "record" ELSE "apply"
            /\ stmt' = IF stmt = Len(Body[name]) THEN stmt ELSE stmt + 1
       ELSE /\ pc' = "refused"
            /\ UNCHANGED <<schema, stmt>>
  /\ UNCHANGED <<ledger, rows, applied, name, faults>>

\* The name goes into the ledger, and the loop goes on (a name the loop has
\* passed is one that it will not look at again).  It is the key: a name that is
\* there, and was not in the map, is refused.
Record ==
  /\ pc = "record"
  /\ IF name \in ledger
       THEN pc' = "refused" /\ UNCHANGED <<disk, rows, applied, name, stmt>>
       ELSE Marks(name, "pick")
  /\ UNCHANGED faults

MigrateFails ==
  /\ pc \in {"apply", "record"} /\ Fails
  /\ pc' = "refused"
  /\ UNCHANGED <<disk, rows, applied, name, stmt, crashes>>

-----------------------------------------------------------------------------
(* SeedIfEmpty. *)

\* The transaction commits: the columns and tables it writes to are there,
\* and no playlist of the seed has a row yet.
SeedCommits ==
  /\ Schema \ {"track_stats"} \subseteq schema
  /\ SeedPlaylists \cap playlists = {}

\* A failure is only a warning: the server starts.
Seed ==
  /\ pc = "seed"
  /\ IF tracks = {} /\ SeedCommits
       THEN /\ tracks' = SeedTracks
            /\ playlists' = playlists \cup SeedPlaylists
            /\ links' = links \cup SeedLinks
            /\ UNCHANGED plays
       ELSE UNCHANGED rows
  /\ pc' = "serving"
  /\ UNCHANGED <<disk, applied, name, stmt, faults>>

SeedFails ==
  /\ pc = "seed" /\ Fails
  /\ pc' = "serving"
  /\ UNCHANGED <<disk, rows, applied, name, stmt, crashes>>

-----------------------------------------------------------------------------
(* Requests.  A statement that fails, on a missing table or a foreign key, *)
(* changes nothing: the action is not enabled.                             *)

Serves(tables) == pc = "serving" /\ tables \subseteq schema

UpsertTrack(t) ==
  /\ Serves({"tracks", "file_index"})
  /\ tracks' = tracks \cup {t}
  /\ UNCHANGED <<disk, links, playlists, plays, proc, faults>>

\* Mutant of DeleteTrack: foreign keys are not enforced (the pragma at line 36).
DeleteTrackOnly(t) ==
  /\ Serves({"tracks"})
  /\ t \in tracks
  /\ tracks' = tracks \ {t}
  /\ UNCHANGED <<disk, links, playlists, plays, proc, faults>>

\* The delete cascades to the playlists and the play counts.
DeleteTrack(t) ==
  /\ Serves({"tracks"})
  /\ t \in tracks
  /\ tracks' = tracks \ {t}
  /\ links' = {l \in links : l[2] # t}
  /\ plays' = plays \ {t}
  /\ UNCHANGED <<disk, playlists, proc, faults>>

\* One transaction: the row, and its list of tracks replaced.
UpsertPlaylist(p, ts) ==
  /\ Serves({"playlists", "playlist_tracks"})
  /\ ts \subseteq tracks
  /\ playlists' = playlists \cup {p}
  /\ links' = {l \in links : l[1] # p} \cup ({p} \X ts)
  /\ UNCHANGED <<disk, tracks, plays, proc, faults>>

DeletePlaylist(p) ==
  /\ Serves({"playlists"})
  /\ p \in playlists
  /\ playlists' = playlists \ {p}
  /\ links' = {l \in links : l[1] # p}
  /\ UNCHANGED <<disk, tracks, plays, proc, faults>>

RecordPlay(t) ==
  /\ Serves({"track_stats"})
  /\ t \in tracks
  /\ plays' = plays \cup {t}
  /\ UNCHANGED <<disk, tracks, links, playlists, proc, faults>>

Request ==
  \/ \E t \in TrackIds : UpsertTrack(t) \/ DeleteTrack(t) \/ RecordPlay(t)
  \/ \E p \in PlaylistIds :
       DeletePlaylist(p) \/ \E ts \in SUBSET TrackIds : UpsertPlaylist(p, ts)

\* The server is stopped, or somebody gives up on one that refuses to start
\* and starts it again.
Stop ==
  /\ pc \in {"serving", "refused"}
  /\ pc' = "down"
  /\ UNCHANGED <<disk, rows, applied, name, stmt, faults>>

\* The machine or the process dies in the middle of a boot.
Crash ==
  /\ crashes < MaxCrashes
  /\ pc \notin {"down", "serving", "refused"}
  /\ crashes' = crashes + 1
  /\ pc' = "down"
  /\ UNCHANGED <<disk, rows, applied, name, stmt, failures>>

BootStep ==
  \/ Load \/ LookTracks \/ Backfill \/ LookColumn \/ BackfillColumn
  \/ Pick \/ Apply \/ Record \/ Seed

BootFails ==
  StartFails \/ LoadFails \/ LookFails \/ BackfillFails \/ MigrateFails \/ SeedFails

Next == Start \/ BootStep \/ BootFails \/ Request \/ Stop \/ Crash

\* A process that was started runs; nobody has to start or stop it.
Spec == Init /\ [][Next]_vars
FairSpec == Spec /\ WF_vars(BootStep)

-----------------------------------------------------------------------------
(* Properties. *)

\* The rows refer to rows: playlists hold tracks of the catalog, and only
\* tracks of the catalog are counted.
References ==
  /\ links \subseteq playlists \X tracks
  /\ plays \subseteq tracks

\* Past its boot a server has the tracks table, with the column of 0002, whatever
\* crashed or failed before; and, when no statement failed, a complete ledger.
Migrated ==
  pc \in {"seed", "serving"} =>
    /\ {"tracks", "file_index"} \subseteq schema
    /\ failures = 0 => ledger = Names

\* A boot that succeeds leaves the whole schema, when none was interrupted and no
\* statement failed.
Complete == crashes = 0 /\ failures = 0 /\ pc \in {"seed", "serving"} => schema = Schema

\* What Migrated rests on.  The map never names a migration whose objects are not
\* there, however much of the ledger was read and whichever lookup failed...
MapSound ==
  pc \notin {"down", "load", "refused"} =>
    /\ 1 \in applied => "tracks" \in schema
    /\ 2 \in applied => "file_index" \in schema

\* ...nor does the ledger.
LedgerSound ==
  /\ 1 \in ledger => "tracks" \in schema
  /\ 2 \in ledger => "file_index" \in schema

\* The loop of lines 80-98 runs a migration the map does not name, in lexical
\* order; past it, the map names both.
LoopSound ==
  /\ pc \in {"apply", "record"} => name \notin applied
  /\ pc \in {"apply", "record"} /\ name = 2 => 1 \in applied
  /\ pc = "apply" /\ name = 1 /\ stmt > 1 => "tracks" \in schema
  /\ pc = "record" => IF name = 1 THEN "tracks" \in schema ELSE "file_index" \in schema
  /\ pc \in {"seed", "serving"} => applied = Names

BackfillSound ==
  /\ pc = "lookTracks" => applied = {}
  /\ pc = "backfill" => "tracks" \in schema
  /\ pc \in {"lookColumn", "backfillColumn"} => 1 \in applied
  /\ pc = "backfillColumn" => "file_index" \in schema

ColumnOfTracks == "file_index" \in schema => "tracks" \in schema

StatementsLeft == pc = "apply" => stmt \in 1 .. Len(Body[name])

\* "Each migration runs at most once per database" (line 51), as far as it is so:
\* where no statement fails, one the ledger names is never run again, because the
\* map read once stays true of the ledger while the loop runs.
NotAgain == failures = 0 /\ pc \in {"apply", "record"} => name \notin ledger

AppliedIsLedger ==
  failures = 0 /\ pc \notin {"down", "load", "refused"} => applied = ledger

CatalogInv ==
  /\ TypeOK
  /\ MapSound
  /\ LedgerSound
  /\ LoopSound
  /\ BackfillSound
  /\ ColumnOfTracks
  /\ StatementsLeft
  /\ AppliedIsLedger

\* What Complete rests on: undisturbed, the tables of 0001 come together.
Tracked ==
  crashes = 0 /\ failures = 0 =>
    /\ pc = "apply" /\ name = 1 => {Body[1][i] : i \in 1 .. stmt - 1} \subseteq schema
    /\ pc = "record" /\ name = 1 => Tables \subseteq schema
    /\ 1 \in ledger => Tables \subseteq schema
    /\ pc \notin {"apply", "record"} /\ "tracks" \in schema => Tables \subseteq schema

\* When no boot is interrupted and no statement fails, each boot ends with the
\* server running.
BootsServe ==
  pc = "load" /\ crashes = 0 /\ failures = 0 ~>
    pc = "serving" \/ crashes > 0 \/ failures > 0

\* The column of 0002 is there, and its entry is not and is not about to be.
Unrecorded ==
  /\ ledger = {1} /\ "file_index" \in schema
  /\ pc \notin {"lookColumn", "backfillColumn", "record"}

\* Whatever crashed and failed before, a boot that nothing else disturbs serves,
\* save for a database with the column and without its entry (lines 66-98).
BootsRecover ==
  \A n \in 0 .. MaxCrashes + MaxFailures :
    pc = "load" /\ crashes + failures = n /\ ~Unrecorded ~>
      pc = "serving" \/ crashes + failures > n

=============================================================================
