--------------------------- MODULE CatalogProofs ---------------------------
(***************************************************************************)
(* What holds of every catalog, whatever rows it has, and however many of  *)
(* its boots crashed and of their statements failed.                       *)
(***************************************************************************)
EXTENDS Catalog, TLAPS

USE CatalogAssumption

LEMMA Statements ==
  /\ Len(Body[1]) = 4
  /\ Len(Body[2]) = 1
  /\ Body[1][1] = "tracks"
  /\ Body[1][2] = "playlists"
  /\ Body[1][3] = "playlist_tracks"
  /\ Body[1][4] = "track_stats"
  /\ Body[2][1] = "file_index"
  BY DEF Body

LEMMA Objects == \A n \in Names : \A i \in 1 .. Len(Body[n]) : Body[n][i] \in Schema
  BY Statements DEF Names, Schema, Tables

LEMMA InitCatalog == Init => CatalogInv /\ Tracked
<1> SUFFICES ASSUME Init PROVE CatalogInv /\ Tracked
  OBVIOUS
<1>1. TypeOK
  BY DEF Init, TypeOK, Stages, Names, Schema, Tables
<1>2. MapSound /\ LedgerSound /\ LoopSound /\ BackfillSound /\ StatementsLeft /\ AppliedIsLedger
  BY DEF Init, MapSound, LedgerSound, LoopSound, BackfillSound, StatementsLeft, AppliedIsLedger
<1>3. ColumnOfTracks /\ Tracked
  BY DEF Init, ColumnOfTracks, Tracked, Schema, Tables
<1> QED
  BY <1>1, <1>2, <1>3 DEF CatalogInv

\* The parts of the invariant that speak of where the boot has come to.
BootInv ==
  MapSound /\ LedgerSound /\ LoopSound /\ BackfillSound /\ ColumnOfTracks /\ StatementsLeft
    /\ AppliedIsLedger

\* A step that fails is counted, and there are only so many.
LEMMA Counted ==
  ASSUME TypeOK, [Next]_vars
  PROVE  /\ crashes' \in 0 .. MaxCrashes /\ failures' \in 0 .. MaxFailures
         /\ failures' # failures => failures' > 0
         /\ failures' = 0 => failures = 0 /\ ~BootFails
         /\ crashes' = 0 => crashes = 0 /\ ~Crash
<1>1. CASE BootFails
  <2>1. failures < MaxFailures /\ failures' = failures + 1 /\ crashes' = crashes
    BY <1>1 DEF BootFails, StartFails, LoadFails, LookFails, BackfillFails, MigrateFails,
       SeedFails, Fails
  <2> QED
    BY <1>1, <2>1 DEF TypeOK, BootFails, Crash, StartFails, LoadFails, LookFails,
       BackfillFails, MigrateFails, SeedFails, Fails
<1>2. CASE Crash
  BY <1>2 DEF TypeOK, Crash, BootFails, StartFails, LoadFails, LookFails, BackfillFails,
     MigrateFails, SeedFails, Fails
<1>3. CASE ~BootFails /\ ~Crash
  <2>1. UNCHANGED faults
    BY <1>3 DEF Next, Start, BootStep, Load, LookTracks, Backfill, LookColumn, BackfillColumn,
       Pick, Apply, Record, Seed, Request, UpsertTrack, DeleteTrack, RecordPlay, DeletePlaylist,
       UpsertPlaylist, Stop, vars
  <2> QED
    BY <1>3, <2>1 DEF faults, TypeOK
<1> QED
  BY <1>1, <1>2, <1>3

\* The rows keep their types.
LEMMA RowsTyped ==
  ASSUME TypeOK, [Next]_vars
  PROVE  /\ tracks' \subseteq TrackIds /\ playlists' \subseteq PlaylistIds
         /\ links' \subseteq PlaylistIds \X TrackIds /\ plays' \subseteq TrackIds
<1>1. CASE UNCHANGED rows
  BY <1>1 DEF rows, TypeOK
<1>2. CASE Seed
  BY <1>2, <1>1 DEF Seed, TypeOK, SeedPlaylists
<1>3. CASE Request
  <2>1. /\ tracks' \subseteq TrackIds /\ playlists' \subseteq PlaylistIds
        /\ plays' \subseteq TrackIds
    BY <1>3 DEF Request, UpsertTrack, DeleteTrack, RecordPlay, DeletePlaylist,
       UpsertPlaylist, TypeOK
  <2>2. links' \subseteq PlaylistIds \X TrackIds
    BY <1>3 DEF Request, UpsertTrack, DeleteTrack, RecordPlay, DeletePlaylist,
       UpsertPlaylist, TypeOK
  <2> QED
    BY <2>1, <2>2
<1>4. \/ UNCHANGED rows \/ Seed \/ Request
  BY DEF Next, Start, BootStep, Load, Loaded, LookTracks, Backfill, LookColumn, BackfillColumn,
     Marks, Pick, Apply, Record, BootFails, StartFails, LoadFails, LookFails, BackfillFails,
     MigrateFails, SeedFails, Stop, Crash, vars
<1> QED
  BY <1>1, <1>2, <1>3, <1>4

\* A statement of a migration that succeeds.
LEMMA Applied ==
  ASSUME TypeOK, BootInv, Apply, Succeeds(Body[name][stmt])
  PROVE  /\ schema' \subseteq Schema /\ stmt' \in 1 .. 4 /\ pc' \in Stages
         /\ BootInv'
<1> DEFINE object == Body[name][stmt]
<1>1. name \in Names /\ stmt \in 1 .. Len(Body[name]) /\ object \in Schema
  BY Objects DEF Apply, TypeOK, BootInv, StatementsLeft
<1>2. Len(Body[name]) \in 1 .. 4
  BY <1>1, Statements DEF Names
<1>3. /\ schema' = schema \cup {object}
      /\ pc' = IF stmt = Len(Body[name]) THEN "record" ELSE "apply"
      /\ stmt' = IF stmt = Len(Body[name]) THEN stmt ELSE stmt + 1
      /\ UNCHANGED <<ledger, rows, applied, name, faults>>
  BY DEF Apply
<1>4. stmt' \in 1 .. 4 /\ StatementsLeft'
  <2>1. ASSUME NEW n \in 1 .. 4, stmt \in 1 .. n,
               stmt' = IF stmt = n THEN stmt ELSE stmt + 1
        PROVE  stmt' \in 1 .. n /\ stmt' \in 1 .. 4
    BY <2>1
  <2>2. stmt' \in 1 .. Len(Body[name]) /\ stmt' \in 1 .. 4
    BY <1>1, <1>2, <1>3, <2>1
  <2> QED
    BY <1>3, <2>2 DEF StatementsLeft
<1>5. /\ name = 2 => object = "file_index"
      /\ name = 1 /\ stmt = 1 => object = "tracks"
  BY <1>1, Statements
<1>6. name = 1 => "tracks" \in schema'
  <2>1. CASE stmt = 1
    BY <2>1, <1>3, <1>5
  <2>2. CASE stmt # 1
    <3>1. stmt > 1
      BY <1>1, <1>2, <2>2
    <3> QED BY <3>1, <1>3 DEF BootInv, LoopSound, Apply
  <2> QED BY <2>1, <2>2
<1>7. Succeeds(object) /\ pc = "apply"
  BY DEF Apply
<1> HIDE DEF object
<1>8. MapSound' /\ LedgerSound' /\ BackfillSound' /\ AppliedIsLedger'
  BY <1>3, <1>7 DEF BootInv, MapSound, LedgerSound, BackfillSound, AppliedIsLedger, faults
<1>9. LoopSound'
  BY <1>1, <1>3, <1>5, <1>6, <1>7 DEF BootInv, LoopSound, Names
<1>10. ColumnOfTracks'
  BY <1>3, <1>7 DEF BootInv, ColumnOfTracks, Succeeds
<1> QED
  BY <1>1, <1>3, <1>4, <1>8, <1>9, <1>10 DEF TypeOK, Stages, BootInv

\* The step of a boot, of one that fails, and of its end.
LEMMA StepBoot ==
  ASSUME CatalogInv, [Next]_vars
  PROVE  /\ schema' \subseteq Schema /\ ledger' \subseteq Names /\ applied' \subseteq Names
         /\ name' \in Names /\ stmt' \in 1 .. 4 /\ pc' \in Stages
         /\ BootInv'
<1> USE DEF CatalogInv, BootInv
<1>0. failures' = 0 => failures = 0
  BY Counted
<1>1. CASE Start \/ StartFails \/ Stop \/ Crash
  BY <1>0, <1>1 DEF Start, StartFails, Stop, Crash, disk, TypeOK, Stages, MapSound, LedgerSound,
     LoopSound, BackfillSound, ColumnOfTracks, StatementsLeft, AppliedIsLedger
<1>2. CASE Load \/ LoadFails
  <2>1. ASSUME NEW read \in SUBSET ledger, Loaded(read), read = ledger \/ failures' # 0
        PROVE  schema' \subseteq Schema /\ ledger' \subseteq Names /\ applied' \subseteq Names
               /\ name' \in Names /\ stmt' \in 1 .. 4 /\ pc' \in Stages /\ BootInv'
    BY <1>0, <2>1 DEF Loaded, disk, TypeOK, Stages, MapSound, LedgerSound,
       LoopSound, BackfillSound, ColumnOfTracks, StatementsLeft, AppliedIsLedger
  <2>2. CASE Load
    BY <2>1, <2>2 DEF Load
  <2>3. CASE LoadFails /\ pc' = "refused" /\ UNCHANGED <<disk, rows, applied, name, stmt>>
    BY <1>0, <2>3 DEF disk, TypeOK, Stages, MapSound, LedgerSound,
       LoopSound, BackfillSound, ColumnOfTracks, StatementsLeft, AppliedIsLedger
  <2>4. CASE LoadFails /\ \E read \in SUBSET ledger : Loaded(read)
    <3>1. failures' # 0
      BY <2>4, Counted DEF BootFails
    <3> QED BY <3>1, <2>1, <2>4
  <2> QED BY <1>2, <2>2, <2>3, <2>4 DEF LoadFails
<1>3. CASE LookTracks \/ LookColumn \/ LookFails
  BY <1>0, <1>3 DEF LookTracks, LookColumn, LookFails, disk, TypeOK, Stages, MapSound,
     LedgerSound, LoopSound, BackfillSound, ColumnOfTracks, StatementsLeft, AppliedIsLedger, faults
<1>4. CASE Backfill \/ BackfillColumn
  <2>1. CASE Backfill
    <3>1. "tracks" \in schema /\ applied' = applied \cup {1} /\ pc' = "lookColumn"
          /\ ledger' = ledger \cup {1} /\ UNCHANGED <<schema, name, stmt, faults>>
          /\ ("file_index" \in schema \/ 2 \notin applied) /\ pc = "backfill"
      BY <2>1 DEF Backfill, Marks, MapSound, BackfillSound
    <3> QED
      BY <3>1 DEF Names, TypeOK, Stages, MapSound, LedgerSound, LoopSound, BackfillSound,
         ColumnOfTracks, StatementsLeft, AppliedIsLedger, faults
  <2>2. CASE BackfillColumn
    <3>1. "tracks" \in schema /\ "file_index" \in schema /\ 1 \in applied
          /\ applied' = applied \cup {2} /\ pc' = "pick" /\ pc = "backfillColumn"
          /\ ledger' = ledger \cup {2} /\ UNCHANGED <<schema, name, stmt, faults>>
      BY <2>2 DEF BackfillColumn, Marks, MapSound, BackfillSound
    <3> QED
      BY <3>1 DEF Names, TypeOK, Stages, MapSound, LedgerSound, LoopSound, BackfillSound,
         ColumnOfTracks, StatementsLeft, AppliedIsLedger, faults
  <2> QED BY <1>4, <2>1, <2>2
<1>5. CASE BackfillFails
  <2>1. failures' # 0
    BY <1>5, Counted DEF BootFails
  <2>2. CASE pc = "backfill"
    <3>1. "tracks" \in schema /\ applied' = applied \cup {1} /\ pc' = "lookColumn"
          /\ ("file_index" \in schema \/ 2 \notin applied)
          /\ UNCHANGED <<schema, ledger, name, stmt>>
      BY <1>5, <2>2 DEF BackfillFails, MapSound, BackfillSound, disk
    <3> QED
      BY <2>1, <2>2, <3>1 DEF Names, TypeOK, Stages, MapSound, LedgerSound, LoopSound,
         BackfillSound, ColumnOfTracks, StatementsLeft, AppliedIsLedger
  <2>3. CASE pc = "backfillColumn"
    <3>1. "tracks" \in schema /\ "file_index" \in schema /\ 1 \in applied
          /\ applied' = applied \cup {2} /\ pc' = "pick"
          /\ UNCHANGED <<schema, ledger, name, stmt>>
      BY <1>5, <2>3 DEF BackfillFails, MapSound, BackfillSound, disk
    <3> QED
      BY <2>1, <2>3, <3>1 DEF Names, TypeOK, Stages, MapSound, LedgerSound, LoopSound,
         BackfillSound, ColumnOfTracks, StatementsLeft, AppliedIsLedger
  <2> QED BY <1>5, <2>2, <2>3 DEF BackfillFails
<1>6. CASE Pick
  <2>1. CASE applied = Names
    BY <1>6, <2>1 DEF Pick, disk, TypeOK, Stages, MapSound,
       LedgerSound, LoopSound, BackfillSound, ColumnOfTracks, StatementsLeft, AppliedIsLedger, faults
  <2>2. CASE applied # Names
    <3>0. 1 \in applied => 2 \notin applied
      BY <2>2 DEF Names, TypeOK
    <3>1. /\ pc' = "apply" /\ stmt' = 1
          /\ name' \in Names \ applied
          /\ name' = 2 => 1 \in applied
          /\ UNCHANGED <<disk, rows, applied, faults>>
      BY <1>6, <2>2, <3>0 DEF Pick, Names
    <3>2. 1 <= Len(Body[name'])
      BY <3>1, Statements DEF Names
    <3> QED
      BY <1>6, <3>1, <3>2 DEF Pick, disk, TypeOK, Stages, MapSound,
         LedgerSound, LoopSound, BackfillSound, ColumnOfTracks, StatementsLeft, AppliedIsLedger, faults
  <2> QED
    BY <2>1, <2>2
<1>7. CASE Apply
  <2>1. CASE Succeeds(Body[name][stmt])
    <3>1. UNCHANGED <<ledger, applied, name>>
      BY <1>7 DEF Apply
    <3> QED BY <1>7, <2>1, <3>1, Applied DEF TypeOK
  <2>2. CASE ~Succeeds(Body[name][stmt])
    BY <1>7, <2>2 DEF Apply, TypeOK, Stages, MapSound, LedgerSound, LoopSound, BackfillSound,
       ColumnOfTracks, StatementsLeft, AppliedIsLedger
  <2> QED
    BY <2>1, <2>2
<1>8. CASE Record
  <2>1. CASE name \in ledger
    BY <1>8, <2>1 DEF Record, disk, TypeOK, Stages, MapSound, LedgerSound, LoopSound,
       BackfillSound, ColumnOfTracks, StatementsLeft, AppliedIsLedger
  <2>2. CASE name \notin ledger
    BY <1>8, <2>2 DEF Record, Marks, Names, TypeOK, Stages, MapSound, LedgerSound, LoopSound,
       BackfillSound, ColumnOfTracks, StatementsLeft, AppliedIsLedger, faults
  <2> QED BY <2>1, <2>2
<1>9. CASE MigrateFails
  BY <1>9 DEF MigrateFails, disk, TypeOK, Stages, MapSound, LedgerSound, LoopSound,
     BackfillSound, ColumnOfTracks, StatementsLeft, AppliedIsLedger
<1>10. CASE Seed \/ SeedFails
  BY <1>0, <1>10 DEF Seed, SeedFails, disk, TypeOK, Stages, MapSound, LedgerSound, LoopSound,
     BackfillSound, ColumnOfTracks, StatementsLeft, AppliedIsLedger
<1>11. CASE Request
  <2>1. UNCHANGED <<disk, proc, faults>>
    BY <1>11 DEF Request, UpsertTrack, DeleteTrack, RecordPlay, DeletePlaylist, UpsertPlaylist
  <2> QED
    BY <2>1 DEF disk, proc, faults, TypeOK, MapSound, LedgerSound, LoopSound,
       BackfillSound, ColumnOfTracks, StatementsLeft, AppliedIsLedger
<1>12. CASE UNCHANGED vars
  BY <1>12 DEF vars, disk, proc, faults, TypeOK, MapSound, LedgerSound, LoopSound,
     BackfillSound, ColumnOfTracks, StatementsLeft, AppliedIsLedger
<1> QED
  BY <1>1, <1>2, <1>3, <1>4, <1>5, <1>6, <1>7, <1>8, <1>9, <1>10, <1>11, <1>12
     DEF Next, BootStep, BootFails

LEMMA StepCatalog == CatalogInv /\ [Next]_vars => CatalogInv'
<1> SUFFICES ASSUME CatalogInv, [Next]_vars PROVE CatalogInv'
  OBVIOUS
<1>1. TypeOK
  BY DEF CatalogInv
<1> QED
  BY <1>1, Counted, RowsTyped, StepBoot DEF CatalogInv, TypeOK, BootInv

LEMMA StepTracked == CatalogInv /\ Tracked /\ [Next]_vars => Tracked'
<1> SUFFICES ASSUME CatalogInv, Tracked, [Next]_vars, crashes' = 0, failures' = 0 PROVE Tracked'
  BY DEF Tracked
<1>1. crashes = 0 /\ ~Crash /\ failures = 0 /\ ~BootFails
  BY Counted DEF CatalogInv
<1>2. CASE Start \/ Load \/ LookTracks \/ LookColumn \/ Seed \/ Stop
  BY <1>1, <1>2 DEF Start, Load, Loaded, LookTracks, LookColumn, Seed, Stop, disk, Tracked
<1>3. CASE Backfill \/ BackfillColumn
  BY <1>1, <1>3 DEF Backfill, BackfillColumn, Marks, Tracked,
     CatalogInv, BackfillSound, AppliedIsLedger
<1>4. CASE Pick
  BY <1>1, <1>4 DEF Pick, disk, Tracked
<1>5. CASE Apply
  <2> DEFINE object == Body[name][stmt]
  <2>1. name \in Names /\ stmt \in 1 .. Len(Body[name])
    BY <1>5 DEF Apply, CatalogInv, TypeOK, StatementsLeft
  <2>2. CASE name = 1
    <3>1. /\ schema' = schema \cup {object}
          /\ pc' = IF stmt = 4 THEN "record" ELSE "apply"
          /\ stmt' = IF stmt = 4 THEN stmt ELSE stmt + 1
          /\ name' = 1 /\ ledger' = ledger
      BY <1>5, <2>1, <2>2, Statements DEF Apply, Succeeds
    <3>2. 1 \notin ledger
      BY <1>1, <1>5, <2>2 DEF Apply, CatalogInv, LoopSound, AppliedIsLedger
    <3>3. {Body[1][i] : i \in 1 .. stmt} \subseteq schema'
      BY <1>1, <1>5, <2>1, <2>2, <3>1 DEF Apply, Tracked
    <3>4. CASE stmt = 4
      <4>1. Tables \subseteq schema'
        BY <3>3, <3>4, Statements DEF Tables
      <4> QED
        BY <3>1, <3>2, <3>4, <4>1 DEF Tracked
    <3>5. CASE stmt # 4
      BY <2>1, <3>1, <3>2, <3>3, <3>5 DEF Tracked
    <3> QED
      BY <3>4, <3>5
  <2>3. CASE name = 2
    <3>1. schema \subseteq schema' /\ name' = 2 /\ ledger' = ledger
      BY <1>5, <2>3 DEF Apply
    <3>2. 1 \in ledger /\ Tables \subseteq schema
      BY <1>1, <1>5, <2>3 DEF Apply, Tracked, CatalogInv, LoopSound, AppliedIsLedger
    <3> QED
      BY <1>1, <3>1, <3>2 DEF Tracked
  <2> QED
    BY <2>1, <2>2, <2>3 DEF Names
<1>6. CASE Record
  <2>1. name \notin ledger /\ (name = 2 => 1 \in ledger) /\ name \in Names
    BY <1>1, <1>6 DEF Record, CatalogInv, LoopSound, AppliedIsLedger, TypeOK
  <2> QED
    BY <1>1, <1>6, <2>1 DEF Record, Marks, Tracked, Names
<1>7. CASE Request
  BY <1>1, <1>7 DEF Request, UpsertTrack, DeleteTrack, RecordPlay, DeletePlaylist,
     UpsertPlaylist, disk, proc, Tracked
<1>8. CASE UNCHANGED vars
  BY <1>1, <1>8 DEF vars, disk, proc, Tracked
<1> QED
  BY <1>1, <1>2, <1>3, <1>4, <1>5, <1>6, <1>7, <1>8 DEF Next, BootStep

\* Whatever crashed or failed before it, and however little of the ledger it
\* read, a server past its boot has the tracks table with the column of 0002; where
\* no statement failed it has a complete ledger, and no migration the ledger names
\* ran again.
THEOREM MigrationsTracked == Spec => [](CatalogInv /\ NotAgain /\ Migrated)
<1>1. Init => CatalogInv
  BY InitCatalog
<1>2. CatalogInv /\ [Next]_vars => CatalogInv'
  BY StepCatalog
<1>3. CatalogInv => NotAgain /\ Migrated
  <2> SUFFICES ASSUME CatalogInv PROVE NotAgain /\ Migrated
    OBVIOUS
  <2>1. NotAgain
    BY DEF CatalogInv, LoopSound, AppliedIsLedger, NotAgain
  <2>2. ASSUME pc \in {"seed", "serving"}
        PROVE  "tracks" \in schema /\ "file_index" \in schema /\ (failures = 0 => ledger = Names)
    <3>1. applied = Names
      BY <2>2 DEF CatalogInv, LoopSound
    <3>2. failures = 0 => applied = ledger
      BY <2>2 DEF CatalogInv, AppliedIsLedger
    <3> QED BY <2>2, <3>1, <3>2 DEF CatalogInv, MapSound, LoopSound, Names
  <2> QED BY <2>1, <2>2 DEF Migrated
<1> QED
  BY <1>1, <1>2, <1>3, PTL DEF Spec

\* Without a crash in the middle of a boot and without a failing statement, from
\* a file of any age, a server past its boot has every table and column of the
\* migrations.
THEOREM SchemaWhole == Spec => []Complete
<1>1. Init => CatalogInv /\ Tracked
  BY InitCatalog
<1>2. CatalogInv /\ Tracked /\ [Next]_vars => CatalogInv' /\ Tracked'
  BY StepCatalog, StepTracked
<1>3. CatalogInv /\ Tracked => Complete
  <2> SUFFICES ASSUME CatalogInv, Tracked, crashes = 0, failures = 0, pc \in {"seed", "serving"}
               PROVE  schema = Schema
    BY DEF Complete
  <2>1. ledger = Names /\ "file_index" \in schema
    BY DEF CatalogInv, LoopSound, AppliedIsLedger, LedgerSound, Names
  <2>2. Tables \subseteq schema
    BY <2>1 DEF Tracked, Names
  <2> QED BY <2>1, <2>2 DEF CatalogInv, TypeOK, Schema
<1> QED
  BY <1>1, <1>2, <1>3, PTL DEF Spec

-----------------------------------------------------------------------------
(* The rows refer to rows. *)

\* The seed is written into a catalog that has no tracks, hence no links.
LEMMA SeedRefers ==
  ASSUME References, Seed
  PROVE  References'
<1>1. CASE UNCHANGED rows
  BY <1>1 DEF References, rows
<1>2. CASE tracks = {} /\ SeedCommits
  <2>1. links = {} /\ plays = {}
    BY <1>2 DEF References
  <2>2. tracks' = SeedTracks /\ playlists' = playlists \cup SeedPlaylists
        /\ links' = SeedLinks /\ plays' = {}
    BY <1>2, <2>1 DEF Seed
  <2>3. SeedLinks \subseteq SeedPlaylists \X SeedTracks
    BY DEF SeedPlaylists
  <2> QED
    BY <2>2, <2>3 DEF References
<1> QED
  BY <1>1, <1>2 DEF Seed

\* A request writes no row whose references it has not looked up, and a delete
\* takes the rows that refer to its own along.
LEMMA RequestRefers ==
  ASSUME References, Request
  PROVE  References'
<1>1. ASSUME NEW t \in TrackIds, UpsertTrack(t) PROVE References'
  BY <1>1 DEF UpsertTrack, References
<1>2. ASSUME NEW t \in TrackIds, DeleteTrack(t) PROVE References'
  <2>1. /\ tracks' = tracks \ {t} /\ links' = {l \in links : l[2] # t}
        /\ plays' = plays \ {t} /\ playlists' = playlists
    BY <1>2 DEF DeleteTrack
  <2>2. ASSUME NEW l \in links, l[2] # t PROVE l \in playlists \X (tracks \ {t})
    BY <2>2 DEF References
  <2> QED
    BY <2>1, <2>2 DEF References
<1>3. ASSUME NEW t \in TrackIds, RecordPlay(t) PROVE References'
  BY <1>3 DEF RecordPlay, References
<1>4. ASSUME NEW p \in PlaylistIds, DeletePlaylist(p) PROVE References'
  <2>1. /\ playlists' = playlists \ {p} /\ links' = {l \in links : l[1] # p}
        /\ plays' = plays /\ tracks' = tracks
    BY <1>4 DEF DeletePlaylist
  <2>2. ASSUME NEW l \in links, l[1] # p PROVE l \in (playlists \ {p}) \X tracks
    BY <2>2 DEF References
  <2> QED
    BY <2>1, <2>2 DEF References
<1>5. ASSUME NEW p \in PlaylistIds, NEW ts \in SUBSET TrackIds, UpsertPlaylist(p, ts)
      PROVE  References'
  <2>1. /\ playlists' = playlists \cup {p} /\ tracks' = tracks /\ plays' = plays
        /\ links' = {l \in links : l[1] # p} \cup ({p} \X ts) /\ ts \subseteq tracks
    BY <1>5 DEF UpsertPlaylist
  <2>2. {p} \X ts \subseteq playlists' \X tracks
    BY <2>1
  <2>3. {l \in links : l[1] # p} \subseteq playlists' \X tracks
    BY <2>1 DEF References
  <2> QED
    BY <2>1, <2>2, <2>3 DEF References
<1> QED
  BY <1>1, <1>2, <1>3, <1>4, <1>5 DEF Request

LEMMA StepReferences == References /\ [Next]_vars => References'
<1> SUFFICES ASSUME References, [Next]_vars PROVE References'
  OBVIOUS
<1>1. CASE UNCHANGED rows
  BY <1>1 DEF References, rows
<1>2. CASE ~Seed /\ ~Request
  <2>1. UNCHANGED rows
    BY <1>2 DEF Next, Start, BootStep, Load, Loaded, LookTracks, Backfill, LookColumn,
       BackfillColumn, Marks, Pick, Apply, Record, BootFails, StartFails, LoadFails, LookFails,
       BackfillFails, MigrateFails, SeedFails, Stop, Crash, vars, rows
  <2> QED
    BY <1>1, <2>1
<1> QED
  BY <1>1, <1>2, SeedRefers, RequestRefers

\* Playlists list tracks of the catalog and only its tracks are counted, through
\* every seed, request and crashed boot: foreign keys with their cascades, and
\* the transaction that replaces a playlist's list, leave nothing dangling.
THEOREM RowsReferToRows == Spec => []References
<1>1. Init => References
  BY DEF Init, References
<1> QED
  BY <1>1, StepReferences, PTL DEF Spec

-----------------------------------------------------------------------------
(* What an interrupted boot leaves, and that no other does. *)

\* A boot that knows the ledger says 0001 ran.
Knows == pc \in {"pick", "apply", "record", "seed"} => 1 \in applied

\* The column of 0002 is there, its ledger entry is not, and the boot under way
\* has read the ledger as it is.
Bricked ==
  /\ Unrecorded /\ Knows
  /\ pc \notin {"lookTracks", "backfill"}
  /\ 2 \notin applied \/ pc \in {"down", "load", "refused"}

\* Then, as long as no statement fails, the server never runs: every boot is refused.
BrickedForGood ==
  [][Bricked => failures' > failures \/ (Bricked' /\ pc' \notin {"seed", "serving"})]_vars

\* A table that is missing when 0001 is recorded stays missing, as long as no
\* statement fails.
Missing(table) == 1 \in ledger /\ table \notin schema /\ Knows

MissingForGood ==
  [][\A table \in Tables : Missing(table) => failures' > failures \/ Missing(table)']_vars

\* Boots in which no statement fails, and that are not interrupted, are not refused.
BootsAccepted == crashes = 0 /\ failures = 0 => pc # "refused" /\ ~Unrecorded

\* As long as none is, the column is recorded, or about to be.
ColumnRecorded ==
  "file_index" \in schema =>
    \/ 2 \in ledger
    \/ ledger = {} /\ pc \in {"down", "load", "lookTracks", "backfill"}
    \/ pc \in {"lookColumn", "backfillColumn"}
    \/ pc = "record" /\ name = 2

BootsInv == crashes = 0 /\ failures = 0 => ColumnRecorded /\ pc # "refused"

LEMMA StepBoots == CatalogInv /\ Tracked /\ BootsInv /\ [Next]_vars => BootsInv'
<1> SUFFICES ASSUME CatalogInv, Tracked, BootsInv, [Next]_vars, crashes' = 0, failures' = 0
             PROVE  ColumnRecorded' /\ pc' # "refused"
  BY DEF BootsInv
<1>1. crashes = 0 /\ failures = 0 /\ ~Crash /\ ~BootFails /\ ColumnRecorded /\ pc # "refused"
  BY Counted DEF CatalogInv, BootsInv
<1> USE DEF ColumnRecorded
<1>2. CASE Start \/ Seed
  BY <1>1, <1>2 DEF Start, Seed, disk
<1>3. CASE Load \/ LookTracks \/ LookColumn
  BY <1>1, <1>3 DEF Load, Loaded, LookTracks, LookColumn, disk, CatalogInv, ColumnOfTracks
<1>4. CASE Stop
  <2>1. 2 \in ledger
    BY <1>1, <1>4 DEF Stop, CatalogInv, LoopSound, AppliedIsLedger, Names
  <2> QED BY <1>4, <2>1 DEF Stop, disk
<1>5. CASE Backfill \/ BackfillColumn
  BY <1>1, <1>5 DEF Backfill, BackfillColumn, Marks
<1>6. CASE Pick
  BY <1>1, <1>6 DEF Pick, disk
<1>7. CASE Apply
  <2>1. name \in Names /\ stmt \in 1 .. Len(Body[name]) /\ name \notin ledger
    BY <1>1, <1>7 DEF Apply, CatalogInv, TypeOK, StatementsLeft, LoopSound, AppliedIsLedger
  <2>2. CASE name = 1
    <3>1. Body[name][stmt] \in Tables
      BY <2>1, <2>2, Statements DEF Tables
    <3>2. Body[name][stmt] # "file_index"
      BY <3>1 DEF Tables
    <3>3. /\ schema' = schema \cup {Body[name][stmt]} /\ ledger' = ledger
          /\ pc' \in {"apply", "record"}
      BY <1>7, <3>2 DEF Apply, Succeeds
    <3> QED BY <1>1, <1>7, <3>2, <3>3 DEF Apply
  <2>3. CASE name = 2
    <3>1. stmt = 1 /\ Body[name][stmt] = "file_index" /\ Len(Body[name]) = 1
      BY <2>1, <2>3, Statements
    <3>2. 1 \in ledger
      BY <1>1, <1>7, <2>3 DEF Apply, CatalogInv, LoopSound, AppliedIsLedger
    <3>3. "file_index" \notin schema /\ "tracks" \in schema
      BY <1>1, <1>7, <2>1, <2>3, <3>2 DEF Apply, Tracked, Tables
    <3>4. pc' = "record" /\ name' = 2
      BY <1>7, <2>3, <3>1, <3>3 DEF Apply, Succeeds
    <3> QED BY <3>4
  <2> QED BY <2>1, <2>2, <2>3 DEF Names
<1>8. CASE Record
  <2>1. name \notin ledger
    BY <1>1, <1>8 DEF Record, CatalogInv, LoopSound, AppliedIsLedger
  <2> QED BY <1>1, <1>8, <2>1 DEF Record, Marks
<1>9. CASE Request
  BY <1>1, <1>9 DEF Request, UpsertTrack, DeleteTrack, RecordPlay, DeletePlaylist,
     UpsertPlaylist, disk, proc
<1>10. CASE UNCHANGED vars
  BY <1>1, <1>10 DEF vars, disk, proc
<1> QED
  BY <1>1, <1>2, <1>3, <1>4, <1>5, <1>6, <1>7, <1>8, <1>9, <1>10 DEF Next, BootStep

\* Without a crash inside a boot and without a failing statement, no boot is
\* refused and none leaves the database so that one will be, from a database of
\* any age (db.go:51-98): the safety half of BootsServe.
THEOREM BootsAreAccepted == Spec => []BootsAccepted
<1>1. Init => BootsInv
  BY DEF Init, BootsInv, ColumnRecorded
<1>2. BootsInv => BootsAccepted
  BY DEF BootsInv, ColumnRecorded, BootsAccepted, Unrecorded
<1> QED
  BY <1>1, <1>2, InitCatalog, StepCatalog, StepTracked, StepBoots, PTL DEF Spec

\* A step that fails is counted among the failures.
LEMMA FailsCounted == TypeOK /\ BootFails => failures' > failures
  BY DEF TypeOK, BootFails, StartFails, LoadFails, LookFails, BackfillFails, MigrateFails,
     SeedFails, Fails

\* A database with the column of 0002 and without its entry, left by a crash or by
\* an INSERT whose error nobody looked at, is lost: ALTER TABLE fails on it in
\* every later boot, however often the server is started, until a statement fails
\* once more (db.go:66-98, 126-141).
THEOREM BrickedStays == Spec => BrickedForGood
<1>1. CatalogInv /\ [Next]_vars =>
        [Bricked => failures' > failures \/ (Bricked' /\ pc' \notin {"seed", "serving"})]_vars
  <2> SUFFICES ASSUME CatalogInv, Next, Bricked, ~BootFails
               PROVE  Bricked' /\ pc' \notin {"seed", "serving"}
    BY FailsCounted DEF CatalogInv
  <2> USE DEF Bricked, Unrecorded, Knows
  <2>1. pc \notin {"seed", "serving"}
    BY DEF CatalogInv, LoopSound, Names
  <2>2. CASE Start \/ Stop \/ Crash
    BY <2>2 DEF Start, Stop, Crash, disk
  <2>3. CASE Load
    BY <2>3 DEF Load, Loaded, disk
  <2>4. CASE Pick
    <3>1. 1 \in applied /\ 2 \notin applied /\ applied # Names
      BY <2>4 DEF Pick, Names
    <3> QED BY <2>4, <3>1 DEF Pick, disk
  <2>5. CASE Apply
    <3>1. name \in Names /\ stmt \in 1 .. Len(Body[name]) /\ name # 1
      BY <2>5 DEF Apply, CatalogInv, TypeOK, StatementsLeft, LoopSound
    <3>2. Body[name][stmt] = "file_index"
      BY <3>1, Statements DEF Names
    <3> QED BY <2>5, <3>2 DEF Apply, Succeeds
  <2>6. ~Request
    BY <2>1 DEF Request, UpsertTrack, DeleteTrack, RecordPlay, DeletePlaylist,
       UpsertPlaylist, Serves
  <2>7. ~(LookTracks \/ Backfill \/ LookColumn \/ BackfillColumn \/ Record \/ Seed)
    BY <2>1 DEF LookTracks, Backfill, LookColumn, BackfillColumn, Record, Seed
  <2> QED
    BY <2>2, <2>3, <2>4, <2>5, <2>6, <2>7 DEF Next, BootStep
<1>2. Spec => []CatalogInv
  BY InitCatalog, StepCatalog, PTL DEF Spec
<1> QED
  BY <1>1, <1>2, PTL DEF Spec, BrickedForGood

\* A boot that ended inside 0001 leaves a database without some tables, which is
\* taken for one of v0.1 (db.go:118-131): they are not created until a statement
\* fails once more.
THEOREM MissingStays == Spec => MissingForGood
<1>1. CatalogInv /\ [Next]_vars =>
        [\A table \in Tables : Missing(table) => failures' > failures \/ Missing(table)']_vars
  <2> SUFFICES ASSUME CatalogInv, Next, NEW table \in Tables, Missing(table), ~BootFails
               PROVE  Missing(table)'
    BY FailsCounted DEF CatalogInv
  <2> USE DEF Missing, Knows
  <2>1. CASE Apply
    <3>1. name \in Names /\ stmt \in 1 .. Len(Body[name]) /\ name # 1
      BY <2>1 DEF Apply, CatalogInv, TypeOK, StatementsLeft, LoopSound
    <3>2. Body[name][stmt] = "file_index" /\ table # "file_index"
      BY <3>1, Statements DEF Names, Tables
    <3> QED BY <2>1, <3>2 DEF Apply
  <2>2. CASE Start \/ Stop \/ Crash \/ Load \/ Seed
    BY <2>2 DEF Start, Stop, Crash, Load, Loaded, Seed, disk
  <2>3. CASE LookTracks
    <3>1. "tracks" \in schema
      BY DEF CatalogInv, LedgerSound
    <3> QED BY <2>3, <3>1 DEF LookTracks, disk
  <2>4. CASE Backfill \/ LookColumn \/ BackfillColumn
    <3>1. LookColumn \/ BackfillColumn => 1 \in applied
      BY DEF LookColumn, BackfillColumn, CatalogInv, BackfillSound
    <3> QED BY <2>4, <3>1 DEF Backfill, LookColumn, BackfillColumn, Marks, disk
  <2>5. CASE Pick
    BY <2>5 DEF Pick, disk
  <2>6. CASE Record
    BY <2>6 DEF Record, Marks, disk
  <2>7. CASE Request
    BY <2>7 DEF Request, UpsertTrack, DeleteTrack, RecordPlay, DeletePlaylist,
       UpsertPlaylist, disk, proc
  <2> QED
    BY <2>1, <2>2, <2>3, <2>4, <2>5, <2>6, <2>7 DEF Next, BootStep
<1>2. Spec => []CatalogInv
  BY InitCatalog, StepCatalog, PTL DEF Spec
<1> QED
  BY <1>1, <1>2, PTL DEF Spec, MissingForGood

=============================================================================
