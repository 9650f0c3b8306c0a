---------------------------- MODULE ImportProofs ----------------------------
(***************************************************************************)
(* What an import is given is what its page lists, and what it counts as   *)
(* done is in the catalog, for any number of tabs, tries, topics and       *)
(* failures and pages of any length.                                       *)
(***************************************************************************)
EXTENDS Import, TracklistsProofs

(* What the parser gives, whatever the page. *)

\* An entry is a track or a chapter of some match.
EntryOK(e) == \E c : e = Track(c) \/ e = Chapter(c)

ListOK(list) == Len(list) # 1 /\ \A k \in DOMAIN list : EntryOK(list[k])

LEMMA ListOfIsOK ==
  ASSUME NEW out, \A k \in DOMAIN out : EntryOK(out[k])
  PROVE  ListOK(ListOf(out))
<1>1. CASE ListOf(out) = <<>>
  BY <1>1 DEF ListOK
<1>2. CASE ListOf(out) # <<>>
  <2>1. ListOf(out) = out /\ ~(Len(out) < 2)
    BY <1>2 DEF ListOf
  <2>2. Len(out) # 1
    <3>1. 1 < 2
      OBVIOUS
    <3> QED BY <2>1, <3>1, Zenon
  <2> QED BY <2>1, <2>2 DEF ListOK
<1> QED BY <1>1, <1>2

LEMMA ParsedIsOK ==
  ASSUME NEW p
  PROVE  ListOK(Parse(p).tracks)
<1>1. ListOK(<<>>)
  BY DEF ListOK
<1>2. ASSUME NEW candidates PROVE ListOK(Tracks(candidates))
  BY ListOfIsOK DEF Tracks, EntryOK
<1>3. ListOK(ExtractTracklist(p.body))
  BY <1>2 DEF ExtractTracklist
<1>4. ListOK(ExtractChapters(p.body))
  BY ListOfIsOK DEF ExtractChapters, EntryOK
<1> QED BY <1>1, <1>3, <1>4 DEF Parse, NoResult

\* The number decides the file, and the artist whether it can be stored.
LEMMA EntryFacts ==
  ASSUME NEW e, EntryOK(e)
  PROVE  e.fileIndex = e.position - 1 /\ (Valid(e) => e.artist = "artist")
<1>1. ASSUME NEW c, e = Track(c) PROVE e.fileIndex = e.position - 1 /\ e.artist = "artist"
  BY <1>1 DEF Track
<1>2. ASSUME NEW c, e = Chapter(c) PROVE e.fileIndex = e.position - 1 /\ e.artist = ""
  BY <1>2 DEF Chapter
<1> QED BY <1>1, <1>2 DEF EntryOK, Valid

-----------------------------------------------------------------------------
(* The tabs. *)

\* What a tab has picked, sent and counted is of the list it was given; before
\* it was given one, there is none.
TabsInv ==
  /\ topic \in Topics
  /\ stage \in [Tabs -> {"idle", "parsed", "form", "sending", "told", "lost"}]
  /\ DOMAIN parsed = Tabs /\ DOMAIN picked = Tabs /\ DOMAIN sent = Tabs /\ DOMAIN ok = Tabs
  /\ tries \in [Tabs -> Nat]
  /\ unmixed \subseteq Tabs /\ books \subseteq Tabs
  /\ \A t \in Tabs :
       /\ ListOK(parsed[t].tracks)
       /\ tries[t] <= MaxTries[topic]
       /\ ok[t] \subseteq sent[t] /\ sent[t] \subseteq picked[t]
       /\ picked[t] \subseteq DOMAIN parsed[t].tracks
       /\ stage[t] = "idle" =>
            picked[t] = {} /\ t \notin unmixed /\ DOMAIN parsed[t].tracks = {}

\* What was counted could be stored.
CountedValid == \A t \in Tabs : \A k \in ok[t] : Valid(Entry(t, k))

\* The inductive invariant.
ImportInv == TabsInv /\ CountedValid /\ ImportedWhole

LEMMA InitImport == Init => ImportInv
<1> SUFFICES ASSUME Init PROVE ImportInv
  OBVIOUS
<1>1. ListOK(NoResult.tracks)
  BY DEF ListOK, NoResult
<1>2. MaxTries[topic] \in Nat
  BY ImportAssumption DEF Init
<1>3. DOMAIN NoResult.tracks = {}
  <2>1. NoResult.tracks = <<>>
    BY DEF NoResult
  <2> QED BY <2>1
<1>4. TabsInv
  BY <1>1, <1>2, <1>3 DEF Init, TabsInv
<1> QED BY <1>4 DEF Init, ImportInv, CountedValid, ImportedWhole

\* Entries of one id from pages of one magnet agree on all but their titles, and
\* on those too unless two titles have one slug.
LEMMA OneRow ==
  ASSUME ImportInv, NEW t \in Tabs, NEW u \in Tabs,
         NEW j \in picked[t], NEW k \in picked[u],
         Valid(Entry(t, j)), Valid(Entry(u, k)),
         parsed[t].magnet = parsed[u].magnet,
         TrackId(t, Entry(t, j)) = TrackId(u, Entry(u, k))
  PROVE  /\ Row(t, Entry(t, j)).magnet = parsed[u].magnet
         /\ Row(t, Entry(t, j)).file = Entry(u, k).fileIndex
         /\ Row(t, Entry(t, j)).artist = Entry(u, k).artist
         /\ Alone(u, Entry(u, k)) => Row(t, Entry(t, j)) = Row(u, Entry(u, k))
<1>1. Entry(t, j).position = Entry(u, k).position
  BY DEF TrackId
<1>2. EntryOK(Entry(t, j)) /\ EntryOK(Entry(u, k)) /\ j \in DOMAIN parsed[t].tracks
  BY DEF ImportInv, TabsInv, ListOK, Entry
<1>3. /\ Entry(t, j).fileIndex = Entry(u, k).fileIndex
      /\ Entry(t, j).artist = Entry(u, k).artist
  BY <1>1, <1>2, EntryFacts
<1>4. ASSUME Alone(u, Entry(u, k)) PROVE Entry(t, j).title = Entry(u, k).title
  BY <1>2, <1>4 DEF Alone
<1>5. /\ Row(t, Entry(t, j)).magnet = parsed[t].magnet
      /\ Row(t, Entry(t, j)).file = Entry(t, j).fileIndex
      /\ Row(t, Entry(t, j)).artist = Entry(t, j).artist
  BY DEF Row
<1>6. ASSUME Alone(u, Entry(u, k)) PROVE Row(t, Entry(t, j)) = Row(u, Entry(u, k))
  BY <1>3, <1>4, <1>6 DEF Row
<1> QED BY <1>3, <1>5, <1>6

\* Rows stay rows of their entries as long as parsed and topic do.
LEMMA SameRows ==
  ASSUME UNCHANGED <<topic, parsed>>
  PROVE  /\ \A t, k : Entry(t, k)' = Entry(t, k)
         /\ \A t, e : TrackId(t, e)' = TrackId(t, e) /\ Row(t, e)' = Row(t, e)
         /\ \A t, e : Alone(t, e)' <=> Alone(t, e)
  BY DEF Entry, TrackId, Row, Alone

\* What has landed stays so while its row and what is parsed do.
LEMMA StaysLanded ==
  ASSUME UNCHANGED <<topic, parsed>>, NEW t, NEW k, Landed(t, Entry(t, k)),
         TrackId(t, Entry(t, k)) \in DOMAIN catalog',
         catalog'[TrackId(t, Entry(t, k))] = catalog[TrackId(t, Entry(t, k))]
  PROVE  Landed(t, Entry(t, k))'
  BY DEF Landed, Entry, TrackId, Row, Alone

LEMMA SameLanded ==
  ASSUME ImportedWhole, UNCHANGED <<topic, parsed, catalog>>,
         \A u \in unmixed' : \A k \in ok'[u] : u \in unmixed /\ k \in ok[u]
  PROVE  ImportedWhole'
<1> SUFFICES ASSUME NEW u \in unmixed', NEW k \in ok'[u] PROVE Landed(u, Entry(u, k))'
  BY DEF ImportedWhole
<1>1. Landed(u, Entry(u, k))
  BY DEF ImportedWhole
<1>2. TrackId(u, Entry(u, k)) \in DOMAIN catalog'
  BY <1>1 DEF Landed
<1> QED BY <1>1, <1>2, StaysLanded

LEMMA FetchedStep ==
  ASSUME ImportInv, NEW t \in Tabs, Fetched(t)
  PROVE  ImportInv'
<1> USE DEF ImportInv
<1>1. /\ stage[t] = "idle"
      /\ parsed' = [parsed EXCEPT ![t] = Parse(topic[t])]
      /\ \E s \in {"lost", "form", "parsed"} : stage' = [stage EXCEPT ![t] = s]
      /\ UNCHANGED <<topic, picked, sent, ok, tries, catalog, books, unmixed>>
  BY DEF Fetched, StageIs
<1>2. picked[t] = {} /\ ok[t] = {} /\ t \notin unmixed /\ DOMAIN parsed[t].tracks = {}
  BY <1>1 DEF TabsInv
<1>3. ListOK(parsed'[t].tracks)
  BY <1>1, ParsedIsOK DEF TabsInv
<1>4. \A u \in Tabs \ {t} : parsed'[u] = parsed[u] /\ stage'[u] = stage[u]
  BY <1>1 DEF TabsInv
<1>5. stage'[t] # "idle"
  BY <1>1 DEF TabsInv
<1>6. TabsInv'
  BY <1>1, <1>2, <1>3, <1>4, <1>5 DEF TabsInv
<1>7. \A u \in Tabs \ {t} : \A k : Entry(u, k)' = Entry(u, k)
  BY <1>4 DEF Entry
<1>8. CountedValid'
  <2> SUFFICES ASSUME NEW u \in Tabs, NEW k \in ok[u] PROVE Valid(Entry(u, k)')
    BY <1>1 DEF CountedValid, Valid
  <2>1. u # t
    BY <1>2
  <2> QED BY <1>7, <2>1 DEF CountedValid
<1>9. ImportedWhole'
  <2> SUFFICES ASSUME NEW u \in unmixed, NEW k \in ok[u] PROVE Landed(u, Entry(u, k))'
    BY <1>1 DEF ImportedWhole
  <2> DEFINE e == Entry(u, k)
  <2>1. u \in Tabs \ {t} /\ Landed(u, e)
    BY <1>2 DEF TabsInv, ImportedWhole
  <2>2. e' = e /\ parsed'[u] = parsed[u]
    BY <1>4, <1>7, <2>1
  <2> HIDE DEF e
  <2>3. TrackId(u, e)' = TrackId(u, e) /\ Row(u, e)' = Row(u, e)
    BY <1>1, <2>2 DEF TrackId, Row
  <2>4. ASSUME Alone(u, e)' PROVE Alone(u, e)
    <3> SUFFICES ASSUME NEW v \in Tabs, parsed[v].magnet = parsed[u].magnet,
                        NEW j \in DOMAIN parsed[v].tracks, TrackId(v, Entry(v, j)) = TrackId(u, e)
                 PROVE  Entry(v, j).title = e.title
      BY DEF Alone
    <3>1. v # t
      BY <1>2
    <3>2. parsed'[v] = parsed[v] /\ Entry(v, j)' = Entry(v, j)
      BY <1>4, <1>7, <3>1
    <3>3. TrackId(v, Entry(v, j))' = TrackId(v, Entry(v, j))
      BY <1>1, <3>2 DEF TrackId
    <3> QED BY <2>2, <2>3, <2>4, <3>2, <3>3 DEF Alone
  <2>5. Landed(u, e)'
    BY <1>1, <2>1, <2>2, <2>3, <2>4 DEF Landed
  <2> QED BY <2>5 DEF e
<1> QED BY <1>6, <1>8, <1>9

\* Steps that store nothing and move on: the tab's stage, books, and what was
\* gone through.
LEMMA QuietSteps ==
  ASSUME ImportInv, NEW t \in Tabs, stage[t] # "idle" \/ FetchFails(t),
         \/ FetchFails(t) \/ Answered(t) \/ AnswerLost(t)
         \/ \E k \in picked[t] : UpsertFails(t, k)
  PROVE  ImportInv'
<1> USE DEF ImportInv
<1>1. UNCHANGED <<topic, parsed, picked, ok, tries, catalog, unmixed>>
  BY DEF FetchFails, Answered, AnswerLost, UpsertFails
<1>2. CountedValid' /\ ImportedWhole'
  BY <1>1, SameRows, SameLanded DEF CountedValid
<1>3. CASE FetchFails(t) \/ AnswerLost(t)
  <2>1. stage' = [stage EXCEPT ![t] = "lost"] /\ UNCHANGED <<sent, books>>
    BY <1>3 DEF FetchFails, AnswerLost, StageIs
  <2> QED BY <1>1, <1>2, <2>1 DEF TabsInv
<1>4. CASE Answered(t)
  <2>1. stage' = [stage EXCEPT ![t] = "told"] /\ UNCHANGED sent /\ books' \subseteq Tabs
    BY <1>4 DEF Answered, StageIs, TabsInv
  <2> QED BY <1>1, <1>2, <2>1 DEF TabsInv
<1>5. ASSUME NEW k \in picked[t], UpsertFails(t, k) PROVE TabsInv'
  <2>1. sent' = [sent EXCEPT ![t] = @ \cup {k}] /\ UNCHANGED <<stage, books>>
    BY <1>5 DEF UpsertFails
  <2>2. \A u \in Tabs : sent[u] \subseteq sent'[u] /\ sent'[u] \subseteq picked[u]
    BY <2>1 DEF TabsInv
  <2> QED BY <1>1, <2>1, <2>2 DEF TabsInv
<1> QED BY <1>2, <1>3, <1>4, <1>5

\* A new try counts anew.
LEMMA SubmitStep ==
  ASSUME ImportInv, NEW t \in Tabs, Submit(t)
  PROVE  ImportInv'
<1> USE DEF ImportInv
<1>1. PICK chosen \in SUBSET DOMAIN parsed[t].tracks : picked' = [picked EXCEPT ![t] = chosen]
  BY DEF Submit
<1>2. /\ stage' = [stage EXCEPT ![t] = "sending"]
      /\ sent' = [sent EXCEPT ![t] = {}] /\ ok' = [ok EXCEPT ![t] = {}]
      /\ tries' = [tries EXCEPT ![t] = @ + 1] /\ tries[t] < MaxTries[topic]
      /\ unmixed' = unmixed \cup {t}
      /\ UNCHANGED <<topic, parsed, catalog, books>>
  BY DEF Submit, StageIs
<1>3. MaxTries[topic] \in Nat /\ tries[t] \in Nat
  BY ImportAssumption DEF TabsInv
<1>4. tries' \in [Tabs -> Nat] /\ \A u \in Tabs : tries'[u] <= MaxTries[topic]
  BY <1>2, <1>3 DEF TabsInv
<1>5. \A u \in Tabs : ok'[u] \subseteq ok[u] /\ (u = t => ok'[u] = {})
  BY <1>2 DEF TabsInv
<1>6. TabsInv'
  <2>1. \A u \in Tabs :
          /\ ok'[u] \subseteq sent'[u] /\ sent'[u] \subseteq picked'[u]
          /\ picked'[u] \subseteq DOMAIN parsed[u].tracks
          /\ stage'[u] = "idle" =>
               picked'[u] = {} /\ u \notin unmixed' /\ DOMAIN parsed[u].tracks = {}
    BY <1>1, <1>2 DEF TabsInv
  <2> QED BY <1>1, <1>2, <1>4, <2>1 DEF TabsInv
<1>7. CountedValid'
  BY <1>2, <1>5, SameRows DEF CountedValid
<1>8. ImportedWhole'
  <2>1. \A u \in unmixed' : \A k \in ok'[u] : u \in unmixed /\ k \in ok[u]
    BY <1>2, <1>5 DEF TabsInv
  <2> QED BY <1>2, <2>1, SameLanded
<1> QED BY <1>6, <1>7, <1>8

\* A single release stored under the id of an entry: its tab does not count.
LEMMA FormStep ==
  ASSUME ImportInv, NEW t \in Tabs, FormSaved(t)
  PROVE  ImportInv'
<1> USE DEF ImportInv
<1>1. PICK id \in FormIds :
        /\ \E row : catalog' = Stored(id, row)
        /\ unmixed' = {u \in unmixed : id \notin Counted(u)}
  BY DEF FormSaved
<1>2. /\ stage[t] = "form" /\ stage' = [stage EXCEPT ![t] = "told"]
      /\ UNCHANGED <<topic, parsed, picked, sent, ok, tries, books>>
  BY DEF FormSaved, StageIs
<1>3. TabsInv'
  BY <1>1, <1>2 DEF TabsInv
<1>4. CountedValid'
  BY <1>2 DEF CountedValid, Entry
<1>5. \A i \in DOMAIN catalog : i # id => i \in DOMAIN catalog' /\ catalog'[i] = catalog[i]
  BY <1>1 DEF Stored
<1>6. ASSUME NEW u \in unmixed', NEW j \in ok[u] PROVE Landed(u, Entry(u, j))'
  <2>1. Landed(u, Entry(u, j)) /\ TrackId(u, Entry(u, j)) # id
    BY <1>1, <1>6 DEF ImportedWhole, Counted
  <2>2. TrackId(u, Entry(u, j)) \in DOMAIN catalog
    BY <2>1 DEF Landed
  <2>3. /\ TrackId(u, Entry(u, j)) \in DOMAIN catalog'
        /\ catalog'[TrackId(u, Entry(u, j))] = catalog[TrackId(u, Entry(u, j))]
    BY <1>5, <2>1, <2>2
  <2> QED BY <1>2, <2>1, <2>3, StaysLanded
<1>7. ImportedWhole'
  BY <1>2, <1>6 DEF ImportedWhole
<1> QED BY <1>3, <1>4, <1>7

\* A track stored: its row is its own, and a row it replaces is an entry's of the
\* same magnet, or that of a tab that no longer counts.
LEMMA UpsertStep ==
  ASSUME ImportInv, NEW t \in Tabs, NEW k \in picked[t], UpsertOne(t, k)
  PROVE  ImportInv'
<1> USE DEF ImportInv
<1> DEFINE id == TrackId(t, Entry(t, k))
           row == Row(t, Entry(t, k))
<1>1. /\ stage[t] = "sending" /\ Valid(Entry(t, k))
      /\ catalog' = Stored(id, row)
      /\ ok' = [ok EXCEPT ![t] = @ \cup {k}] /\ sent' = [sent EXCEPT ![t] = @ \cup {k}]
      /\ unmixed' = {u \in unmixed : id \in Counted(u) => parsed[u].magnet = parsed[t].magnet}
      /\ UNCHANGED <<topic, stage, parsed, picked, tries, books>>
  BY DEF UpsertOne, Upcoming
<1>2. \A u \in Tabs :
        /\ ok'[u] \subseteq sent'[u] /\ sent'[u] \subseteq picked[u]
        /\ ok'[u] = ok[u] \/ (u = t /\ ok'[u] = ok[u] \cup {k})
  BY <1>1 DEF TabsInv
<1>3. TabsInv'
  BY <1>1, <1>2 DEF TabsInv
<1>4. \A u \in Tabs : \A j \in ok'[u] : Valid(Entry(u, j))
  BY <1>1, <1>2 DEF CountedValid
<1>5. CountedValid'
  BY <1>1, <1>4 DEF CountedValid, Entry
<1>6. /\ id \in DOMAIN catalog' /\ catalog'[id] = row
      /\ \A i \in DOMAIN catalog : i # id => i \in DOMAIN catalog' /\ catalog'[i] = catalog[i]
  BY <1>1 DEF Stored
<1>7. ASSUME NEW u \in unmixed', NEW j \in ok'[u] PROVE Landed(u, Entry(u, j))'
  <2> DEFINE e == Entry(u, j)
  <2>1. u \in Tabs /\ u \in unmixed /\ j \in picked[u] /\ Valid(e)
    BY <1>1, <1>2, <1>4, <1>7 DEF TabsInv
  <2>2. e' = e
    BY <1>1, SameRows
  <2>3. CASE TrackId(u, e) = id
    <3>1. parsed[t].magnet = parsed[u].magnet
      <4>1. CASE u = t
        BY <4>1
      <4>2. CASE u # t
        <5>1. id \in Counted(u)
          BY <1>2, <2>1, <2>3, <4>2 DEF Counted
        <5> QED BY <1>1, <1>7, <5>1
      <4> QED BY <4>1, <4>2
    <3>2. /\ row.magnet = parsed[u].magnet
          /\ row.file = e.fileIndex /\ row.artist = e.artist
          /\ Alone(u, e) => row = Row(u, e)
      BY <1>1, <2>1, <2>3, <3>1, OneRow
    <3>3. TrackId(u, e)' = id /\ (Row(u, e) = Row(u, e)') /\ (Alone(u, e)' <=> Alone(u, e))
      <4> HIDE DEF e, id
      <4>1. TrackId(u, e)' = TrackId(u, e) /\ Row(u, e)' = Row(u, e)
        BY <1>1, <2>2 DEF TrackId, Row
      <4>2. Alone(u, e)' <=> Alone(u, e)
        BY <1>1, <2>2 DEF Alone, TrackId, Entry
      <4> QED BY <2>3, <4>1, <4>2
    <3> HIDE DEF e, row, id
    <3>4. catalog'[TrackId(u, e)'] = row
      BY <1>6, <3>3
    <3> QED BY <1>1, <1>6, <2>2, <3>2, <3>3, <3>4 DEF Landed, e
  <2>4. CASE TrackId(u, e) # id
    <3>1. j \in ok[u]
      BY <1>2, <1>7, <2>1, <2>4
    <3>2. Landed(u, Entry(u, j))
      BY <2>1, <3>1 DEF ImportedWhole
    <3>3. TrackId(u, Entry(u, j)) \in DOMAIN catalog
      BY <3>2 DEF Landed
    <3>4. /\ TrackId(u, Entry(u, j)) \in DOMAIN catalog'
          /\ catalog'[TrackId(u, Entry(u, j))] = catalog[TrackId(u, Entry(u, j))]
      BY <1>6, <2>4, <3>3
    <3> QED BY <1>1, <3>2, <3>4, StaysLanded
  <2> QED BY <2>3, <2>4
<1>8. ImportedWhole'
  BY <1>7 DEF ImportedWhole
<1> QED BY <1>3, <1>5, <1>8

LEMMA StepImport == ImportInv /\ [Next]_vars => ImportInv'
<1> SUFFICES ASSUME ImportInv, [Next]_vars PROVE ImportInv'
  OBVIOUS
<1>1. ASSUME NEW t \in Tabs,
             \/ FetchFails(t) \/ Answered(t) \/ AnswerLost(t)
             \/ \E k \in picked[t] : UpsertFails(t, k)
      PROVE  ImportInv'
  <2>1. stage[t] # "idle" \/ FetchFails(t)
    BY <1>1 DEF Answered, AnswerLost, UpsertFails, Upcoming
  <2> QED BY <1>1, <2>1, QuietSteps
<1>2. CASE UNCHANGED vars
  <2>1. TabsInv'
    BY <1>2 DEF vars, ImportInv, TabsInv
  <2>2. CountedValid' /\ ImportedWhole'
    BY <1>2, SameRows, SameLanded DEF vars, ImportInv, CountedValid
  <2> QED BY <2>1, <2>2 DEF ImportInv
<1> QED
  BY <1>1, <1>2, FetchedStep, SubmitStep, FormStep, UpsertStep DEF Next

-----------------------------------------------------------------------------
\* What the page offers, sends and counts is of the list it was given, whatever
\* fails and however often it is tried; of any page, that list has two entries
\* at least, and each entry's file is the one before its number
\* (app.js:264-331, admin.go:169-192, rutracker.go:354-374).
THEOREM TypesHold == Spec => []ImportType
<1>1. ImportInv => ImportType
  <2> SUFFICES ASSUME ImportInv PROVE ImportType
    OBVIOUS
  <2>1. MaxTries[topic] \in Nat
    BY ImportAssumption DEF ImportInv, TabsInv
  <2>2. \A t \in Tabs : tries[t] \in 0 .. MaxTries[topic]
    BY <2>1 DEF ImportInv, TabsInv
  <2>3. \A t \in Tabs : \A k \in DOMAIN parsed[t].tracks :
          parsed[t].tracks[k].fileIndex = parsed[t].tracks[k].position - 1
    BY EntryFacts DEF ImportInv, TabsInv, ListOK
  <2> QED BY <2>2, <2>3 DEF ImportInv, TabsInv, ListOK, ImportType
<1> QED BY <1>1, InitImport, StepImport, PTL DEF Spec

\* An entry counted as imported has landed, whatever other tabs import and fail:
\* its id has a row with its topic's magnet, its file and an artist, because the
\* file follows from the number, which the id holds, and an entry without an
\* artist is refused; and unless slugify makes one slug of two titles, the row is
\* the entry's in every column (app.js:273-290, service/admin.go:92-130).
THEOREM ImportsArrive == Spec => []ImportedWhole
<1>1. ImportInv => ImportedWhole
  BY DEF ImportInv
<1> QED BY <1>1, InitImport, StepImport, PTL DEF Spec

-----------------------------------------------------------------------------
(* What a tab was given. *)

\* A tab's result is that of its page, and none before it was fetched.
Given ==
  /\ topic \in Topics
  /\ DOMAIN parsed = Tabs
  /\ \A t \in Tabs : parsed[t] = NoResult \/ parsed[t] = Parse(topic[t])

LEMMA StepGiven == Given /\ [Next]_vars => Given'
<1> SUFFICES ASSUME Given, [Next]_vars PROVE Given'
  OBVIOUS
<1>1. ASSUME NEW t \in Tabs, Fetched(t) PROVE Given'
  <2>1. topic' = topic /\ parsed' = [parsed EXCEPT ![t] = Parse(topic[t])]
    BY <1>1 DEF Fetched
  <2>2. parsed'[t] = Parse(topic[t]) /\ \A u \in Tabs \ {t} : parsed'[u] = parsed[u]
    BY <2>1 DEF Given
  <2>3. DOMAIN parsed' = Tabs
    BY <2>1 DEF Given
  <2> QED BY <2>1, <2>2, <2>3 DEF Given
<1>2. CASE UNCHANGED <<topic, parsed>>
  BY <1>2 DEF Given
<1>3. ASSUME NEW t \in Tabs,
             \/ FetchFails(t) \/ FormSaved(t) \/ Submit(t)
             \/ \E k \in picked[t] : UpsertOne(t, k) \/ UpsertFails(t, k)
             \/ Answered(t) \/ AnswerLost(t)
      PROVE  UNCHANGED <<topic, parsed>>
  BY <1>3 DEF FetchFails, FormSaved, Submit, UpsertOne, UpsertFails, Answered, AnswerLost
<1> QED BY <1>1, <1>2, <1>3 DEF Next, vars

\* What a tab offers is what its page lists: of an orderly list, whose texts are
\* not too long to be taken, every entry, in order, with its own number and
\* title, in whichever layout it is posted, and of any page nothing that jumps
\* ahead (rutracker.go:276-374,
\* audiobook.go:221-309).
THEOREM ListsAreRead == Spec => []ListsParsed
<1>1. Init => Given
  BY DEF Init, Given
<1>2. Given => ListsParsed
  <2> SUFFICES ASSUME Given, NEW t \in Tabs, parsed[t] # NoResult
               PROVE  ReadRight(topic[t], parsed[t].tracks)
    BY DEF ListsParsed
  <2>1. parsed[t] = Parse(topic[t]) /\ IsPage(topic[t])
    BY ImportAssumption DEF Given
  <2> QED BY <2>1, PagesReadRight
<1> QED BY <1>1, <1>2, StepGiven, PTL DEF Spec

-----------------------------------------------------------------------------
(* What BookMade comes to. *)

\* Nothing of a chapter list can be stored.
LEMMA ChaptersInvalid ==
  ASSUME NEW p, Parse(p) # NoResult, Parse(p).kind = "audiobook",
         NEW k \in DOMAIN Parse(p).tracks
  PROVE  ~Valid(Parse(p).tracks[k])
<1>1. p.magnet # ""
  BY Zenon DEF Parse
<1>2. Parse(p).kind = ClassifyKind(p)
  BY <1>1, Zenon DEF Parse
<1>3. Parse(p).tracks = ExtractChapters(p.body)
  BY <1>2, ParsedTracks
<1> DEFINE found == Found("audiobook", ChapterMatches(p.body))
           out == [j \in DOMAIN found |-> Chapter(found[j])]
<1>4. ExtractChapters(p.body) = ListOf(out)
  BY DEF ExtractChapters
<1>5. \A c : ~Valid(Chapter(c))
  BY DEF Valid, Chapter
<1>6. \A j \in DOMAIN out : ~Valid(out[j])
  BY <1>5
<1> HIDE DEF out
<1>7. ListOf(out) = <<>> \/ ListOf(out) = out
  BY DEF ListOf
<1>8. k \in DOMAIN ListOf(out) /\ DOMAIN <<>> = {}
  BY <1>3, <1>4
<1> QED BY <1>3, <1>4, <1>6, <1>7, <1>8

NoBook == books = {}

\* An audiobook never gets a playlist, nor any chapter into the catalog, for
\* every page, selection and number of tries: what the operator is told of the
\* run import_book is never true (audiobook.go:304, app.js:299-326,
\* service/admin.go:92).
THEOREM NoBookIsMade == Spec => []NoBook
<1>1. Init => NoBook
  BY DEF Init, NoBook
<1>2. ImportInv /\ Given /\ NoBook /\ [Next]_vars => NoBook'
  <2> SUFFICES ASSUME ImportInv, Given, NoBook, [Next]_vars PROVE NoBook'
    OBVIOUS
  <2>1. ASSUME NEW t \in Tabs, Answered(t) PROVE NoBook'
    <3>1. CASE parsed[t].kind = "audiobook" /\ ok[t] # {}
      <4>1. PICK k \in ok[t] : Valid(Entry(t, k)) /\ k \in DOMAIN parsed[t].tracks
        BY <3>1 DEF ImportInv, TabsInv, CountedValid
      <4>2. parsed[t] # NoResult
        <5>1. \A m, l : [kind |-> "error", magnet |-> m, tracks |-> l].kind # "audiobook"
          OBVIOUS
        <5> QED BY <3>1, <5>1, Zenon DEF NoResult
      <4>3. parsed[t] = Parse(topic[t])
        BY <4>2 DEF Given
      <4> QED BY <3>1, <4>1, <4>2, <4>3, ChaptersInvalid DEF Entry
    <3>2. CASE ~(parsed[t].kind = "audiobook" /\ ok[t] # {})
      BY <2>1, <3>2 DEF Answered, NoBook
    <3> QED BY <3>1, <3>2
  <2>2. CASE UNCHANGED books
    BY <2>2 DEF NoBook
  <2>3. ASSUME NEW t \in Tabs,
               \/ Fetched(t) \/ FetchFails(t) \/ FormSaved(t) \/ Submit(t)
               \/ \E k \in picked[t] : UpsertOne(t, k) \/ UpsertFails(t, k)
               \/ AnswerLost(t)
        PROVE  UNCHANGED books
    BY <2>3 DEF Fetched, FetchFails, FormSaved, Submit, UpsertOne, UpsertFails, AnswerLost
  <2> QED BY <2>1, <2>2, <2>3 DEF Next, vars
<1>3. Init => ImportInv /\ Given
  BY InitImport DEF Init, Given
<1> QED BY <1>1, <1>2, <1>3, StepImport, StepGiven, PTL DEF Spec
=============================================================================
