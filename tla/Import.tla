------------------------------- MODULE Import -------------------------------
(***************************************************************************)
(* Importing a topic (app.js, http/admin.go): a tab of the admin page has  *)
(* a topic parsed, offers its tracks, and sends the ones the operator left *)
(* selected as one bulk upsert, which goes track by track and counts what  *)
(* failed; for an audiobook it then asks for a playlist.  Answers may be   *)
(* lost, and the operator may try again.  Rows are never deleted here.     *)
(***************************************************************************)
EXTENDS Tracklists

CONSTANTS
  Tabs,
  Magnets,  \* model values or strings, "" not among them
  Topics,   \* the page each tab imports: all the ways
  Slug(_),  \* what slugify leaves of a title: some letters, 64 at most
  FormIds,  \* the ids an operator may give a single release
  MaxTries, \* bound: how often each tab sends the form, for each of Topics
  MayFail   \* whether fetches, statements and answers may fail

ASSUME ImportAssumption ==
  /\ "" \notin Magnets
  /\ MaxTries \in [Topics -> Nat]
  /\ MayFail \in BOOLEAN
  /\ \A pages \in Topics : \A t \in Tabs :
       IsPage(pages[t]) /\ pages[t].magnet \in Magnets \cup {""}

VARIABLES
  topic,     \* per tab: the page it imports
  stage,     \* per tab: "idle", "parsed", "form", "sending", "told", "lost"
  parsed,    \* per tab: the result it was given
  picked,    \* per tab: the entries the operator left selected, by index
  sent,      \* per tab: those the bulk upsert has gone through
  ok,        \* per tab: those whose upsert succeeded; only their number is told
  tries,     \* per tab: forms sent
  catalog,   \* the tracks by id
  books,     \* the tabs whose playlist has been made
  unmixed    \* history: the tabs of whose counted entries none has since been
             \* stored over with another magnet, or by a form

vars == <<topic, stage, parsed, picked, sent, ok, tries, catalog, books, unmixed>>

\* app.js: `${releaseSlug}-${position}-${slugify(title)}`.  Two titles may have
\* one slug.
TrackId(t, e) == <<topic[t].release, e.position, Slug(e.title)>>

Entry(t, k) == parsed[t].tracks[k]

Row(t, e) == [magnet |-> parsed[t].magnet, file |-> e.fileIndex, title |-> e.title, artist |-> e.artist]

Init ==
  /\ topic \in Topics
  /\ stage = [t \in Tabs |-> "idle"]
  /\ parsed = [t \in Tabs |-> NoResult]
  /\ picked = [t \in Tabs |-> {}]
  /\ sent = [t \in Tabs |-> {}]
  /\ ok = [t \in Tabs |-> {}]
  /\ tries = [t \in Tabs |-> 0]
  /\ catalog = <<>>
  /\ books = {}
  /\ unmixed = {}

StageIs(t, s) == stage' = [stage EXCEPT ![t] = s]

\* Mutant of Stored: magnet is not among the columns that are replaced.
StoredKeepsMagnet(id, row) ==
  [i \in DOMAIN catalog \cup {id} |->
     IF i # id THEN catalog[i]
     ELSE IF id \in DOMAIN catalog THEN [row EXCEPT !.magnet = catalog[id].magnet] ELSE row]

\* INSERT ... ON CONFLICT(id) DO UPDATE SET every column.
Stored(id, row) == [i \in DOMAIN catalog \cup {id} |-> IF i = id THEN row ELSE catalog[i]]

\* The ids of what tab t has counted.
Counted(t) == {TrackId(t, Entry(t, k)) : k \in ok[t]}

\* GET /import/rutracker: fetched and parsed. No tracks: the form of a single
\* release, which the operator fills in.
Fetched(t) ==
  /\ stage[t] = "idle"
  /\ parsed' = [parsed EXCEPT ![t] = Parse(topic[t])]
  /\ StageIs(t, IF parsed'[t] = NoResult THEN "lost"
                ELSE IF parsed'[t].tracks = <<>> THEN "form" ELSE "parsed")
  /\ UNCHANGED <<topic, picked, sent, ok, tries, catalog, books, unmixed>>

\* The operator completes the form of a single release, its id too, and saves it.
FormSaved(t) ==
  /\ stage[t] = "form"
  /\ \E id \in FormIds :
       /\ catalog' = Stored(id, [magnet |-> parsed[t].magnet, file |-> 0,
                                title |-> <<>>, artist |-> "artist"])
       /\ unmixed' = {u \in unmixed : id \notin Counted(u)}
  /\ StageIs(t, "told")
  /\ UNCHANGED <<topic, parsed, picked, sent, ok, tries, books>>

\* Not a topic, no answer, or no page: 502.
FetchFails(t) ==
  /\ MayFail
  /\ stage[t] = "idle"
  /\ StageIs(t, "lost")
  /\ UNCHANGED <<topic, parsed, picked, sent, ok, tries, catalog, books, unmixed>>

\* Mutant of Submit: the counts of the try before stay.
SubmitCounting(t) ==
  /\ stage[t] \in {"parsed", "lost", "told"}
  /\ tries[t] < MaxTries[topic]
  /\ \E chosen \in (SUBSET DOMAIN parsed[t].tracks) \ {{}} :
       picked' = [picked EXCEPT ![t] = chosen]
  /\ StageIs(t, "sending")
  /\ sent' = [sent EXCEPT ![t] = {}]
  /\ tries' = [tries EXCEPT ![t] = @ + 1]
  /\ unmixed' = unmixed \cup {t}
  /\ UNCHANGED <<topic, parsed, ok, catalog, books>>

\* The rows whose boxes stay checked.
Submit(t) ==
  /\ stage[t] \in {"parsed", "lost", "told"}
  /\ tries[t] < MaxTries[topic]
  /\ \E chosen \in (SUBSET DOMAIN parsed[t].tracks) \ {{}} :
       picked' = [picked EXCEPT ![t] = chosen]
  /\ StageIs(t, "sending")
  /\ sent' = [sent EXCEPT ![t] = {}]
  /\ ok' = [ok EXCEPT ![t] = {}]
  /\ tries' = [tries EXCEPT ![t] = @ + 1]
  /\ unmixed' = unmixed \cup {t}
  /\ UNCHANGED <<topic, parsed, catalog, books>>

\* Entry k is the next of the loop over the tracks, which has their order.
Upcoming(t, k) ==
  /\ stage[t] = "sending"
  /\ k \in picked[t] \ sent[t]
  /\ \A j \in picked[t] \ sent[t] : k <= j

\* validateTrack, as far as an imported track can fail it.
Valid(e) == e.artist # ""

UpsertOne(t, k) ==
  /\ Upcoming(t, k)
  /\ Valid(Entry(t, k))
  /\ LET id == TrackId(t, Entry(t, k)) IN
     /\ catalog' = Stored(id, Row(t, Entry(t, k)))
     /\ unmixed' = {u \in unmixed : id \in Counted(u) => parsed[u].magnet = parsed[t].magnet}
  /\ ok' = [ok EXCEPT ![t] = @ \cup {k}]
  /\ sent' = [sent EXCEPT ![t] = @ \cup {k}]
  /\ UNCHANGED <<topic, stage, parsed, picked, tries, books>>

\* An invalid track, or a statement that fails: counted, and the loop goes on.
UpsertFails(t, k) ==
  /\ Upcoming(t, k)
  /\ MayFail \/ ~Valid(Entry(t, k))
  /\ sent' = [sent EXCEPT ![t] = @ \cup {k}]
  /\ UNCHANGED <<topic, stage, parsed, picked, ok, tries, catalog, books, unmixed>>

\* The counts are shown. A playlist is asked for when it is an audiobook and
\* some chapter got through; whether that works changes nothing in what is said.
Answered(t) ==
  /\ stage[t] = "sending"
  /\ sent[t] = picked[t]
  /\ StageIs(t, "told")
  /\ IF parsed[t].kind = "audiobook" /\ ok[t] # {}
       THEN books' \in {books, books \cup {t}}
       ELSE UNCHANGED books
  /\ UNCHANGED <<topic, parsed, picked, sent, ok, tries, catalog, unmixed>>

\* The answer does not arrive: the request is cancelled, what is stored stays.
AnswerLost(t) ==
  /\ MayFail
  /\ stage[t] = "sending"
  /\ StageIs(t, "lost")
  /\ UNCHANGED <<topic, parsed, picked, sent, ok, tries, catalog, books, unmixed>>

Next ==
  \E t \in Tabs :
    \/ Fetched(t) \/ FetchFails(t) \/ FormSaved(t) \/ Submit(t)
    \/ \E k \in picked[t] : UpsertOne(t, k) \/ UpsertFails(t, k)
    \/ Answered(t) \/ AnswerLost(t)

Spec == Init /\ [][Next]_vars

-----------------------------------------------------------------------------
\* Shape: a result is a list of two entries at least, or a form; what is counted
\* was sent, what was sent was picked, and what was picked is of that list.
ImportType ==
  /\ stage \in [Tabs -> {"idle", "parsed", "form", "sending", "told", "lost"}]
  /\ unmixed \subseteq Tabs /\ books \subseteq Tabs
  /\ \A t \in Tabs :
       /\ tries[t] \in 0 .. MaxTries[topic]
       /\ ok[t] \subseteq sent[t] /\ sent[t] \subseteq picked[t]
       /\ picked[t] \subseteq DOMAIN parsed[t].tracks
       /\ LET list == parsed[t].tracks IN
          /\ Len(list) # 1
          /\ \A k \in DOMAIN list : list[k].fileIndex = list[k].position - 1

\* The two grammars, the two layouts and the numbering checks lose nothing and
\* make nothing up: of an orderly list, every entry is found, in order, with
\* its own title, and of any page, no list jumps ahead (extractTracklist,
\* extractChapters).
ListsParsed ==
  \A t \in Tabs : parsed[t] # NoResult => ReadRight(topic[t], parsed[t].tracks)

\* No tab with the magnet offers an entry that has the id of e and another title.
Alone(t, e) ==
  \A u \in Tabs : parsed[u].magnet = parsed[t].magnet =>
    \A k \in DOMAIN parsed[u].tracks :
      TrackId(u, Entry(u, k)) = TrackId(t, e) => Entry(u, k).title = e.title

\* The entry's id has a row with its tab's magnet, its file and an artist; it is
\* the entry's in every column, unless two titles have one slug.
Landed(t, e) ==
  LET row == catalog[TrackId(t, e)] IN
  /\ TrackId(t, e) \in DOMAIN catalog
  /\ row.magnet = parsed[t].magnet /\ row.file = e.fileIndex /\ row.artist = e.artist
  /\ Alone(t, e) => row = Row(t, e)

\* What an import counts as done is in the catalog, whatever went wrong in
\* attempts before it or with the rest of it, whatever an older topic of the
\* release has left there, and whichever other tabs import the same topic
\* meanwhile.
ImportedWhole ==
  \A t \in unmixed : \A k \in ok[t] : Landed(t, Entry(t, k))

\* What app.js:326 tells the operator of every audiobook: "Audiobook playlist
\* created."
BookMade ==
  \A t \in Tabs :
    stage[t] = "told" /\ parsed[t].kind = "audiobook" /\ picked[t] # {} => t \in books

=============================================================================
