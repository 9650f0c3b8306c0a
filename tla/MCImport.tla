------------------------------ MODULE MCImport ------------------------------
(* Small instances of Import. *)
EXTENDS Import

CONSTANTS a, b, m1, m2

TwoTabs == {a, b}
OneTab  == {a}
TwoMagnets == {m1, m2}
\* "x" and "y" have one slug; of "dots" trimming leaves nothing; "long" is longer
\* than any text may be, and a line with "wide" is too long.
SomeNames == {"none", "dots", "x", "y", "z", "long", "wide"}

ShortLine(line) ==
  Len(line.items) <= 2 /\ \A k \in DOMAIN line.items : line.items[k].name \notin {"long", "wide"}
ShortTexts(names) == \A k \in DOMAIN names : names[k] \notin {"none", "dots", "long"}
ShortTitle(names) == \A k \in DOMAIN names : names[k] # "long"

LikeX(names) == [k \in DOMAIN names |-> IF names[k] = "y" THEN "x" ELSE names[k]]
TwoFormIds == {<<"r">>, <<"r", 1, <<"x">>>>}

Item(n, name)  == [no |-> n, dash |-> FALSE, timed |-> FALSE, name |-> name]
Dash(n, name)  == [Item(n, name) EXCEPT !.dash = TRUE]
Timed(n, name) == [Dash(n, name) EXCEPT !.timed = TRUE]
Numbered(item) == [lead |-> "number", items |-> <<item>>]
Word(item)     == [lead |-> "word", items |-> <<item>>]
Prose          == [lead |-> "prose", items |-> <<>>]
InProse(item)  == [lead |-> "prose", items |-> <<item>>]
Jam(items)     == [lead |-> "number", items |-> items]

\* Entries in and out of order, at the ends of the ranges and of the jumps
\* allowed, empty and too long, lists jammed onto a line, whole or in part, and
\* notes around them.
SomeLines ==
  {Numbered(Dash(n, "x")) : n \in {0, 1, 2, 3, 7, 8}}
  \cup {Numbered(Timed(1, "y")), Numbered(Timed(2, "z")), Numbered(Timed(2, "wide"))}
  \cup {Numbered(Item(n, "x")) : n \in {2, 5, 6}}
  \cup {Numbered(Item(1, "none")), Numbered(Dash(2, "dots")), Numbered(Dash(2, "long"))}
  \cup {Word(Item(1, "none")), Word(Item(2, "z")), Prose, InProse(Timed(2, "x"))}
  \cup {Jam(<<Timed(1, "x"), Timed(2, "y")>>), Jam(<<Dash(1, "x"), Timed(2, "y")>>),
         Jam(<<Timed(1, "x"), Timed(2, "wide"), Timed(3, "z")>>)}

Bodies == {body \in UNION {[1 .. n -> SomeLines] : n \in 1 .. 3} : Apart(body)}

Page(body, magnet, markers) ==
  [body |-> body, magnet |-> magnet, markers |-> markers, crumb |-> FALSE,
   word |-> FALSE, release |-> "r"]

Empty == Page(<<>>, "", 0)
Post(m, name) == Page(<<Numbered(Dash(1, name)), Numbered(Dash(2, "x"))>>, m, 0)
Single == Page(<<Prose>>, m1, 0)

\* What else of the release of the first tab's post the second tab imports: the
\* same post, one with another magnet, a corrected title or both, or a single
\* release, which the operator may give the id of a track.
Others == {Single} \cup {Post(m, name) : m \in {m1, m2}, name \in {"x", "y"}}

\* Any page, music or spoken, or a post and another of its release.
AnyTopics ==
  {[t \in Tabs |-> IF t = a THEN Page(body, m1, k) ELSE Empty] : body \in Bodies, k \in {1, 2}}
  \cup {[t \in Tabs |-> IF t = a THEN Post(m1, "x") ELSE page] : page \in Others}

\* Long lists are only parsed; the posts are tried twice.
AnyTries ==
  [pages \in AnyTopics |->
     IF pages[b] # Empty THEN 2 ELSE IF Len(pages[a].body) < 3 THEN 1 ELSE 0]

Book == Page(<<Numbered(Item(1, "x")), Word(Item(2, "none"))>>, m1, 2)
BookTopics == {[t \in Tabs |-> [Book EXCEPT !.crumb = c, !.word = w]] : c \in BOOLEAN, w \in BOOLEAN}
Once == [pages \in BookTopics |-> 1]

=============================================================================
