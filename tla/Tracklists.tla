----------------------------- MODULE Tracklists -----------------------------
(***************************************************************************)
(* What the importer reads off a topic page (rutracker.go, audiobook.go).  *)
(* A post body is a sequence of lines, a line a sequence of numbered       *)
(* items, "01. Artist - Title [7:12]"; text without numbers is prose.  An  *)
(* item's name is the text that follows its number, artist and title, but  *)
(* for the duration; how long a text is, only constants tell.              *)
(***************************************************************************)
EXTENDS Integers, Sequences, SequencesExt

CONSTANTS
  Names,       \* what follows a number
  NoText,      \* the name where nothing does
  LineFits(_), \* the line has 300 bytes at most
  TextsFit(_), \* trimmed of punctuation, the artist and the title in these names
               \* are not empty and have 120 and 200 bytes at most
  TitleFits(_) \* as a chapter's title, these names have 200 bytes at most

ASSUME TextsAssumption == NoText \in Names /\ ~TextsFit(<<NoText>>)

\* dash: the text reads "X - Y"; timed: it ends in "[m:ss]".
Items == [no : 0 .. 999, dash : BOOLEAN, timed : BOOLEAN, name : Names]

\* A line begins with its first item, with a word like "Chapter" before the
\* item's number, or with other text.
Lines == [lead : {"number", "word", "prose"}, items : Seq(Items)]

\* A number with nothing after it has its line to itself.  The sweep would read
\* "1." on a line of its own and a timed item on the next as one entry: such
\* pages are left out.
Apart(body) ==
  \A l \in DOMAIN body : \A k \in DOMAIN body[l].items :
    body[l].items[k].name = NoText =>
      /\ Len(body[l].items) = 1 /\ body[l].lead # "prose" /\ ~body[l].items[k].dash
      /\ body[l].lead = "number" =>
           \A m \in DOMAIN body : m >= l => \A j \in DOMAIN body[m].items : ~body[m].items[j].timed

\* The topic page.  A page without a magnet link has magnet "".
IsPage(p) ==
  /\ p.body \in Seq(Lines) /\ Apart(p.body)
  /\ p.crumb \in BOOLEAN      \* a link to an audiobook forum
  /\ p.word \in BOOLEAN       \* the title says audiobook
  /\ p.markers \in Nat        \* different labels of spoken content

-----------------------------------------------------------------------------
(* Matches: a number and a text, made of the names that follow the number. *)

NoMatch == [no |-> 0, name |-> <<>>]

\* The items from i to j, read as one entry: the number of the first.
Span(items, i, j) ==
  [no |-> items[i].no,
   name |-> IF i = j THEN <<items[i].name>>
            ELSE [k \in 1 .. j - i + 1 |-> items[i + k - 1].name]]

Whole(line) == Span(line.items, 1, Len(line.items))

Dashed(items, i, j) == \E k \in i .. j : items[k].dash

\* Lines that are blank or too long are not looked at.
Fitting(line) == line.items # <<>> /\ LineFits(line)

\* trackLinePattern: a line that is numbered and has a dash somewhere.
LineMatch(line) ==
  IF Fitting(line) /\ line.lead = "number" /\ Dashed(line.items, 1, Len(line.items))
    THEN Whole(line) ELSE NoMatch

\* chapterLinePattern: a number and a text, or a word and a number, with or
\* without a text.
ChapterMatch(line) ==
  IF /\ Fitting(line)
     /\ line.lead = "word" \/ (line.lead = "number" /\ Whole(line).name # <<NoText>>)
    THEN Whole(line) ELSE NoMatch

\* trackInlinePattern, if it ends with item k of a line: from the first number
\* after a duration up to the next duration.
InlineMatch(items, k) ==
  LET first == Max({0} \cup {j \in 1 .. k - 1 : items[j].timed}) + 1
  IN  IF items[k].timed /\ Dashed(items, first, k) THEN Span(items, first, k) ELSE NoMatch

LineMatches(body) == [l \in DOMAIN body |-> LineMatch(body[l])]

ChapterMatches(body) == [l \in DOMAIN body |-> ChapterMatch(body[l])]

InlineMatches(body) ==
  FlattenSeq([l \in DOMAIN body |->
                [k \in DOMAIN body[l].items |-> InlineMatch(body[l].items, k)]])

-----------------------------------------------------------------------------
(* The entries made of them. *)

LastPos(found) == IF found = <<>> THEN 0 ELSE Last(found).no

\* buildEntry: what passes is in range, does not jump ahead of the last, and
\* has an artist and a title that are not too long.
TrackFits(c, lastPos) ==
  /\ c.no \in 1 .. 500
  /\ lastPos > 0 => c.no <= lastPos + 5
  /\ TextsFit(c.name)

ChapterFits(c, lastPos) ==
  /\ c.no \in 1 .. 999
  /\ lastPos > 0 => c.no <= lastPos + 3
  /\ c.name = <<NoText>> \/ TitleFits(c.name)

Fits(kind, c, lastPos) ==
  IF kind = "audiobook" THEN ChapterFits(c, lastPos) ELSE TrackFits(c, lastPos)

\* The loop over the matches: those that pass, each held against the last that did.
Found(kind, matches) ==
  LET found[n \in 0 .. Len(matches)] ==
        IF n = 0 THEN <<>>
        ELSE LET out == found[n - 1] IN
             IF matches[n] # NoMatch /\ Fits(kind, matches[n], LastPos(out))
               THEN Append(out, matches[n]) ELSE out
  IN  found[Len(matches)]

\* The title stands for artist and title together; of the artist only whether
\* there is one is told apart.
Track(c) ==
  [position |-> c.no, fileIndex |-> c.no - 1, title |-> c.name, artist |-> "artist"]

\* The artist is left empty.  A chapter without a title is called by its number:
\* title <<>>.
Chapter(c) ==
  [position |-> c.no, fileIndex |-> c.no - 1, artist |-> "",
   title |-> IF c.name = <<NoText>> THEN <<>> ELSE c.name]

\* A list has two entries at least and starts at 1.
ListOf(out) == IF Len(out) < 2 \/ out[1].position # 1 THEN <<>> ELSE out

Tracks(matches) ==
  LET found == Found("music", matches)
  IN  ListOf([k \in DOMAIN found |-> Track(found[k])])

\* Mutant of ExtractTracklist: no sweep over jammed lines.
ExtractByLine(body) == Tracks(LineMatches(body))

\* Line by line first, then the sweep for lists jammed onto one line.
ExtractTracklist(body) ==
  IF Len(Tracks(LineMatches(body))) >= 2
    THEN Tracks(LineMatches(body)) ELSE Tracks(InlineMatches(body))

ExtractChapters(body) ==
  LET found == Found("audiobook", ChapterMatches(body))
  IN  ListOf([k \in DOMAIN found |-> Chapter(found[k])])

ClassifyKind(p) ==
  IF p.crumb \/ p.word \/ p.markers >= 2 THEN "audiobook" ELSE "music"

NoResult == [kind |-> "error", magnet |-> "", tracks |-> <<>>]

\* A page without a magnet link is an error.
Parse(p) ==
  IF p.magnet = "" THEN NoResult
  ELSE [kind |-> ClassifyKind(p), magnet |-> p.magnet,
        tracks |-> IF ClassifyKind(p) = "audiobook"
                     THEN ExtractChapters(p.body) ELSE ExtractTracklist(p.body)]

-----------------------------------------------------------------------------
(* What a reader of the page would say. *)

AllItems(body) == FlattenSeq([l \in DOMAIN body |-> body[l].items])

\* One entry a line, none of the lines too long.
OneEach(body, leads) ==
  \A l \in DOMAIN body :
    body[l].items # <<>> =>
      Len(body[l].items) = 1 /\ body[l].lead \in leads /\ LineFits(body[l])

\* In an audiobook a number that follows no word has a text.
Titled(body) ==
  \A l \in DOMAIN body : \A k \in DOMAIN body[l].items :
    body[l].lead # "word" => body[l].items[k].name # NoText

Jammed(body) ==
  \E l \in DOMAIN body :
    /\ body[l].items = AllItems(body)
    /\ \A k \in DOMAIN body[l].items : body[l].items[k].timed

\* A list as posters write it: numbered 1, 2, 3, ..., one entry a line, with
\* any lines of prose around, or all of it jammed onto one line with durations,
\* and no text longer than buildEntry and chapterEntryFromLine take.  buildEntry
\* takes no track beyond number 500.
Orderly(p) ==
  LET items == AllItems(p.body) IN
  /\ Len(items) >= 2
  /\ \A k \in DOMAIN items : items[k].no = k
  /\ IF ClassifyKind(p) = "audiobook"
       THEN /\ OneEach(p.body, {"number", "word"}) /\ Titled(p.body)
            /\ \A k \in DOMAIN items : items[k].name = NoText \/ TitleFits(<<items[k].name>>)
       ELSE /\ OneEach(p.body, {"number"}) \/ Jammed(p.body)
            /\ Len(items) <= 500
            /\ \A k \in DOMAIN items : items[k].dash /\ TextsFit(<<items[k].name>>)

\* Of any page, what is taken for a list starts at 1 and never jumps ahead.
NoJump(list) ==
  \A k \in DOMAIN list :
    list[k].position \in 1 .. (IF k = 1 THEN 1 ELSE list[k - 1].position + 5)

ReadRight(p, list) ==
  LET items == AllItems(p.body) IN
  /\ NoJump(list)
  /\ Orderly(p) =>
       /\ Len(list) = Len(items)
       /\ \A k \in DOMAIN items :
            /\ list[k].position = items[k].no
            /\ list[k].title = IF items[k].name = NoText THEN <<>> ELSE <<items[k].name>>

=============================================================================
