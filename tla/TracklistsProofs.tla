--------------------------- MODULE TracklistsProofs ---------------------------
(***************************************************************************)
(* What the importer finds on a page of any length: the loops of           *)
(* rutracker.go and audiobook.go, by induction on the matches they see.    *)
(***************************************************************************)
EXTENDS Tracklists, WellFoundedInduction, TLAPS

(* Induction and recursive functions. *)

\* A set that holds 0 and with every number the next one holds them all.
LEMMA SetInduction ==
  ASSUME NEW S, 0 \in S, \A n \in Nat : n \in S => n + 1 \in S
  PROVE  Nat \subseteq S
<1> SUFFICES ASSUME Nat \ S # {} PROVE FALSE
  OBVIOUS
<1> DEFINE Less == OpToRel(<, Nat)
<1>1. IsWellFoundedOn(Less, Nat)
  BY NatLessThanWellFounded
<1>2. \A x, y \in Nat : y < x => <<y, x>> \in Less
  BY DEF OpToRel
<1> HIDE DEF Less
<1>3. PICK x \in Nat \ S : \A y \in Nat \ S : <<y, x>> \notin Less
  BY <1>1, WFMin
<1>4. x # 0 /\ x - 1 \in Nat
  BY <1>3
<1>5. x - 1 \notin S
  <2>1. x = (x - 1) + 1
    BY <1>4
  <2> QED BY <1>3, <1>4, <2>1
<1>6. <<x - 1, x>> \in Less
  BY <1>2, <1>3, <1>4
<1> QED BY <1>3, <1>4, <1>5, <1>6

\* A loop of N steps on a state in X.
Runs(f, N, x0, step) == f[0] = x0 /\ \A n \in 1 .. N : f[n] = step[n][f[n - 1]]

\* There is a function that records its states.
LEMMA RunExists ==
  ASSUME NEW N \in Nat, NEW X, NEW x0 \in X, NEW step \in [1 .. N -> [X -> X]]
  PROVE  \E f \in [0 .. N -> X] : Runs(f, N, x0, step)
<1> USE DEF Runs
<1> DEFINE S == {m \in Nat : m <= N => \E f \in [0 .. m -> X] : Runs(f, m, x0, step)}
<1>1. 0 \in S
  <2> DEFINE f == [k \in 0 .. 0 |-> x0]
  <2>1. f \in [0 .. 0 -> X] /\ Runs(f, 0, x0, step)
    OBVIOUS
  <2> QED BY <2>1
<1>2. ASSUME NEW m \in Nat, m \in S PROVE m + 1 \in S
  <2> SUFFICES ASSUME m + 1 <= N PROVE \E f \in [0 .. m + 1 -> X] : Runs(f, m + 1, x0, step)
    OBVIOUS
  <2>1. PICK f \in [0 .. m -> X] : Runs(f, m, x0, step)
    BY <1>2
  <2> DEFINE g == [k \in 0 .. m + 1 |-> IF k = m + 1 THEN step[m + 1][f[m]] ELSE f[k]]
  <2>2. step[m + 1][f[m]] \in X
    OBVIOUS
  <2>3. g \in [0 .. m + 1 -> X]
    BY <2>2
  <2>4. g[m + 1] = step[m + 1][f[m]] /\ \A k \in 0 .. m : g[k] = f[k]
    OBVIOUS
  <2> HIDE DEF g
  <2>5. Runs(g, m + 1, x0, step)
    <3>1. g[0] = x0
      BY <2>1, <2>4
    <3>2. ASSUME NEW n \in 1 .. m + 1 PROVE g[n] = step[n][g[n - 1]]
      <4>1. CASE n = m + 1
        BY <4>1, <2>4
      <4>2. CASE n # m + 1
        BY <4>2, <2>1, <2>4
      <4> QED BY <4>1, <4>2
    <3> QED BY <3>1, <3>2
  <2> QED BY <2>3, <2>5
<1> HIDE DEF S
<1>3. N \in S
  BY <1>1, <1>2, SetInduction
<1> QED BY <1>3 DEF S

-----------------------------------------------------------------------------
(* The loop over the matches. *)

\* The list after each match.
Listed(f, kind, matches) ==
  /\ f[0] = <<>>
  /\ \A n \in 1 .. Len(matches) :
       f[n] = IF matches[n] # NoMatch /\ Fits(kind, matches[n], LastPos(f[n - 1]))
                THEN Append(f[n - 1], matches[n]) ELSE f[n - 1]

Looped(X, kind, matches) ==
  \E f \in [0 .. Len(matches) -> Seq(X)] :
    Listed(f, kind, matches) /\ Found(kind, matches) = f[Len(matches)]

LEMMA FoundByLoop ==
  ASSUME NEW X, NEW kind, NEW matches \in Seq(X)
  PROVE  Looped(X, kind, matches)
<1> DEFINE N == Len(matches)
           Passed(n, out) ==
             IF matches[n] # NoMatch /\ Fits(kind, matches[n], LastPos(out))
               THEN Append(out, matches[n]) ELSE out
           step == [n \in 1 .. N |-> [out \in Seq(X) |-> Passed(n, out)]]
           Body(g) == [n \in 0 .. N |-> IF n = 0 THEN <<>> ELSE Passed(n, g[n - 1])]
           found == CHOOSE g : g = Body(g)
<1>1. N \in Nat
  OBVIOUS
<1>2. \A n \in 1 .. N, out \in Seq(X) : Passed(n, out) \in Seq(X)
  OBVIOUS
<1>3. Found(kind, matches) = found[N]
  BY DEF Found
<1> HIDE DEF N, Passed
<1>4. step \in [1 .. N -> [Seq(X) -> Seq(X)]]
  BY <1>2
<1>5. \A n \in 1 .. N, out \in Seq(X) : step[n][out] = Passed(n, out)
  OBVIOUS
<1> HIDE DEF step
<1>6. PICK f \in [0 .. N -> Seq(X)] : Runs(f, N, <<>>, step)
  <2>1. <<>> \in Seq(X)
    OBVIOUS
  <2> QED BY <1>1, <1>4, <2>1, RunExists
<1>7. f[0] = <<>> /\ \A n \in 1 .. N : f[n] = Passed(n, f[n - 1])
  <2>1. f[0] = <<>> /\ \A n \in 1 .. N : f[n] = step[n][f[n - 1]]
    BY <1>6 DEF Runs
  <2>2. \A n \in 1 .. N : f[n - 1] \in Seq(X)
    BY <1>1
  <2> QED BY <1>5, <2>1, <2>2
<1>8. f = Body(f)
  BY <1>1, <1>7
<1>9. found = Body(found)
  BY <1>8
<1> HIDE DEF found
<1>10. found[0] = <<>> /\ \A n \in 1 .. N : found[n] = Passed(n, found[n - 1])
  BY <1>1, <1>9
<1>11. \A n \in 0 .. N : found[n] = f[n]
  <2> DEFINE S == {n \in Nat : n <= N => found[n] = f[n]}
  <2>1. 0 \in S
    BY <1>7, <1>10
  <2>2. ASSUME NEW n \in Nat, n \in S PROVE n + 1 \in S
    <3> SUFFICES ASSUME n + 1 <= N PROVE found[n + 1] = f[n + 1]
      OBVIOUS
    <3>1. found[n] = f[n] /\ n + 1 \in 1 .. N /\ (n + 1) - 1 = n
      BY <1>1, <2>2
    <3> QED BY <1>7, <1>10, <3>1
  <2> HIDE DEF S
  <2>3. Nat \subseteq S
    BY <2>1, <2>2, SetInduction
  <2> QED BY <1>1, <2>3 DEF S
<1>12. Found(kind, matches) = f[N]
  BY <1>1, <1>3, <1>11
<1> QED BY <1>7, <1>12 DEF N, Passed, Listed, Looped

\* What joins sequences, one after the other.
Joined(f, seqs) ==
  f[0] = <<>> /\ \A n \in 1 .. Len(seqs) : f[n] = f[n - 1] \o seqs[n]

LEMMA FlattenByLoop ==
  ASSUME NEW X, NEW seqs \in Seq(Seq(X))
  PROVE  \E f \in [0 .. Len(seqs) -> Seq(X)] :
           Joined(f, seqs) /\ FlattenSeq(seqs) = f[Len(seqs)]
<1> DEFINE N == Len(seqs)
           step == [n \in 1 .. N |-> [s \in Seq(X) |-> s \o seqs[n]]]
           Body(g) == [i \in 1 .. N |-> IF i = 1 THEN seqs[i] ELSE g[i - 1] \o seqs[i]]
           flatten == CHOOSE g : g = Body(g)
<1>1. N \in Nat /\ \A n \in 1 .. N : seqs[n] \in Seq(X)
  OBVIOUS
<1>2. FlattenSeq(seqs) = IF N = 0 THEN seqs ELSE flatten[N]
  BY DEF FlattenSeq
<1>3. N = 0 => seqs = <<>>
  OBVIOUS
<1>4. \A s \in Seq(X) : <<>> \o s = s
  OBVIOUS
<1> HIDE DEF N
<1>5. step \in [1 .. N -> [Seq(X) -> Seq(X)]]
  BY <1>1
<1>6. \A n \in 1 .. N, s \in Seq(X) : step[n][s] = s \o seqs[n]
  OBVIOUS
<1> HIDE DEF step
<1>7. PICK f \in [0 .. N -> Seq(X)] : Runs(f, N, <<>>, step)
  <2>1. <<>> \in Seq(X)
    OBVIOUS
  <2> QED BY <1>1, <1>5, <2>1, RunExists
<1>8. f[0] = <<>> /\ \A n \in 1 .. N : f[n] = f[n - 1] \o seqs[n]
  <2>1. f[0] = <<>> /\ \A n \in 1 .. N : f[n] = step[n][f[n - 1]]
    BY <1>7 DEF Runs
  <2>2. \A n \in 1 .. N : f[n - 1] \in Seq(X)
    BY <1>1
  <2> QED BY <1>6, <2>1, <2>2
<1>9. ASSUME N # 0 PROVE flatten[N] = f[N]
  <2>1. f[1] = seqs[1]
    <3>1. 1 \in 1 .. N /\ 1 - 1 = 0
      BY <1>1, <1>9
    <3>2. f[1] = f[0] \o seqs[1]
      BY <1>8, <3>1
    <3> QED BY <1>1, <1>4, <1>8, <3>1, <3>2
  <2> DEFINE g == [i \in 1 .. N |-> f[i]]
  <2>2. g = Body(g)
    <3>1. ASSUME NEW i \in 1 .. N
          PROVE  f[i] = IF i = 1 THEN seqs[i] ELSE g[i - 1] \o seqs[i]
      <4>1. i # 1 => i - 1 \in 1 .. N
        BY <1>1
      <4> QED BY <1>8, <2>1, <4>1
    <3> QED BY <3>1
  <2>3. flatten = Body(flatten)
    BY <2>2
  <2> HIDE DEF flatten, g
  <2>4. flatten[1] = seqs[1] /\ \A i \in 2 .. N : flatten[i] = flatten[i - 1] \o seqs[i]
    <3>1. 1 \in 1 .. N /\ \A i \in 2 .. N : i \in 1 .. N /\ i # 1
      BY <1>1, <1>9
    <3>2. \A i \in 1 .. N :
            flatten[i] = IF i = 1 THEN seqs[i] ELSE flatten[i - 1] \o seqs[i]
      BY <2>3
    <3> QED BY <3>1, <3>2
  <2> DEFINE S == {n \in Nat : n + 1 <= N => flatten[n + 1] = f[n + 1]}
  <2>5. 0 \in S
    BY <2>1, <2>4
  <2>6. ASSUME NEW n \in Nat, n \in S PROVE n + 1 \in S
    <3> SUFFICES ASSUME n + 2 <= N PROVE flatten[n + 2] = f[n + 2]
      OBVIOUS
    <3>1. flatten[n + 1] = f[n + 1] /\ n + 2 \in 1 .. N /\ n + 2 \in 2 .. N
          /\ (n + 2) - 1 = n + 1
      BY <1>1, <2>6
    <3>2. f[n + 2] = f[n + 1] \o seqs[n + 2]
      BY <1>8, <3>1
    <3>3. flatten[n + 2] = flatten[n + 1] \o seqs[n + 2]
      BY <2>4, <3>1
    <3> QED BY <3>1, <3>2, <3>3
  <2> HIDE DEF S
  <2>7. Nat \subseteq S
    BY <2>5, <2>6, SetInduction
  <2>8. N - 1 \in S
    BY <1>1, <1>9, <2>7
  <2> QED BY <1>1, <1>9, <2>8 DEF S
<1>10. FlattenSeq(seqs) = f[N]
  BY <1>1, <1>2, <1>3, <1>8, <1>9
<1> QED BY <1>8, <1>10 DEF N, Joined


-----------------------------------------------------------------------------
(* What the loop lets through. *)

\* Numbers in range that never jump ahead.
Climbs(out) ==
  \A k \in DOMAIN out :
    /\ out[k].no \in 1 .. 999
    /\ k > 1 => out[k].no <= out[k - 1].no + 5

LEMMA FitsBounds ==
  ASSUME NEW kind, NEW c, NEW last, Fits(kind, c, last)
  PROVE  c.no \in 1 .. 999 /\ (last \in 1 .. 999 => c.no <= last + 5)
<1>1. CASE ChapterFits(c, last)
  <2>1. c.no \in 1 .. 999 /\ (last > 0 => c.no <= last + 3)
    BY <1>1 DEF ChapterFits
  <2>2. ASSUME last \in 1 .. 999 PROVE c.no <= last + 5
    <3>1. c.no \in Int /\ last \in Int /\ last > 0
      BY <2>1, <2>2, SMTT(30)
    <3>2. c.no <= last + 3
      BY <2>1, <3>1
    <3> QED BY <3>1, <3>2
  <2> QED BY <2>1, <2>2
<1>2. CASE TrackFits(c, last)
  <2>1. c.no \in 1 .. 500 /\ (last > 0 => c.no <= last + 5)
    BY <1>2 DEF TrackFits
  <2> QED BY <2>1, SMTT(30)
<1> QED BY <1>1, <1>2 DEF Fits

LEMMA FitsNext ==
  ASSUME NEW kind, NEW c, NEW out, Fits(kind, c, LastPos(out))
  PROVE  /\ c.no \in 1 .. 999
         /\ LastPos(out) \in 1 .. 999 => c.no <= LastPos(out) + 5
<1> DEFINE last == LastPos(out)
<1>1. Fits(kind, c, last)
  OBVIOUS
<1> HIDE DEF last
<1>2. c.no \in 1 .. 999 /\ (last \in 1 .. 999 => c.no <= last + 5)
  BY <1>1, FitsBounds
<1> QED BY <1>2 DEF last

LEMMA FoundClimbs ==
  ASSUME NEW X, NEW kind, NEW matches \in Seq(X)
  PROVE  Found(kind, matches) \in Seq(X) /\ Climbs(Found(kind, matches))
<1> DEFINE N == Len(matches)
<1>1. PICK f \in [0 .. N -> Seq(X)] :
        Listed(f, kind, matches) /\ Found(kind, matches) = f[N]
  BY FoundByLoop, ZenonT(60) DEF Looped
<1>2. N \in Nat /\ \A n \in 1 .. N : matches[n] \in X
  OBVIOUS
<1> DEFINE S == {n \in Nat : n <= N => Climbs(f[n])}
<1>3. 0 \in S
  <2>1. f[0] = <<>>
    BY <1>1 DEF Listed
  <2>2. Climbs(<<>>)
    BY DEF Climbs
  <2> QED BY <2>1, <2>2
<1>4. ASSUME NEW n \in Nat, n \in S PROVE n + 1 \in S
  <2> SUFFICES ASSUME n + 1 <= N PROVE Climbs(f[n + 1])
    OBVIOUS
  <2> DEFINE out == f[n]
             c == matches[n + 1]
  <2>1. Climbs(out) /\ out \in Seq(X) /\ c \in X
    BY <1>2, <1>4
  <2>2. n + 1 \in 1 .. N /\ (n + 1) - 1 = n
    BY <1>2
  <2>3. f[n + 1] = IF c # NoMatch /\ Fits(kind, c, LastPos(out)) THEN Append(out, c) ELSE out
    BY <1>1, <2>2 DEF Listed
  <2> HIDE DEF out, c
  <2>4. ASSUME Fits(kind, c, LastPos(out)) PROVE Climbs(Append(out, c))
    <3>1. c.no \in 1 .. 999
      BY <2>4, FitsNext
    <3>2. ASSUME Len(out) > 0 PROVE c.no <= out[Len(out)].no + 5
      <4>1. LastPos(out) = out[Len(out)].no /\ out[Len(out)].no \in 1 .. 999
        <5>1. out # <<>> /\ Len(out) \in DOMAIN out
          BY <2>1, <3>2
        <5>2. out[Len(out)].no \in 1 .. 999
          BY <2>1, <5>1, ZenonT(60) DEF Climbs
        <5>3. LastPos(out) = out[Len(out)].no
          BY <5>1 DEF LastPos, Last
        <5> QED BY <5>2, <5>3
      <4>2. LastPos(out) \in 1 .. 999 => c.no <= LastPos(out) + 5
        BY <2>4, FitsNext
      <4> QED BY <4>1, <4>2
    <3> DEFINE more == Append(out, c)
    <3>3. /\ Len(out) \in Nat /\ Len(more) = Len(out) + 1 /\ more[Len(out) + 1] = c
          /\ DOMAIN more = 1 .. Len(out) + 1 /\ DOMAIN out = 1 .. Len(out)
          /\ \A k \in 1 .. Len(out) : more[k] = out[k]
      BY <2>1
    <3> HIDE DEF more
    <3>4. ASSUME NEW k \in DOMAIN more
          PROVE  more[k].no \in 1 .. 999 /\ (k > 1 => more[k].no <= more[k - 1].no + 5)
      <4>1. CASE k = Len(out) + 1
        BY <4>1, <3>1, <3>2, <3>3
      <4>2. CASE k # Len(out) + 1
        <5>1. k \in DOMAIN out /\ (k > 1 => k - 1 \in DOMAIN out)
          BY <4>2, <3>3
        <5>2. more[k] = out[k] /\ (k > 1 => more[k - 1] = out[k - 1])
          BY <5>1, <3>3
        <5>3. out[k].no \in 1 .. 999 /\ (k > 1 => out[k].no <= out[k - 1].no + 5)
          BY <5>1, <2>1 DEF Climbs
        <5> QED BY <5>2, <5>3
      <4> QED BY <4>1, <4>2
    <3> QED BY <3>4 DEF more, Climbs
  <2> QED BY <2>1, <2>3, <2>4
<1> HIDE DEF S
<1>5. N \in S
  BY <1>2, <1>3, <1>4, SetInduction
<1> QED BY <1>1, <1>2, <1>5 DEF S

\* Matches that are the entries in their order, with misses in between: count[n]
\* of the entries are among the first n matches.
Lists(matches, entries, count) ==
  /\ count \in [0 .. Len(matches) -> 0 .. Len(entries)]
  /\ count[0] = 0 /\ count[Len(matches)] = Len(entries)
  /\ \A n \in 1 .. Len(matches) :
       IF matches[n] = NoMatch THEN count[n] = count[n - 1]
       ELSE count[n] = count[n - 1] + 1 /\ matches[n] = entries[count[n]]

\* Entries numbered 1, 2, 3, ... are all let through.
LEMMA FoundInOrder ==
  ASSUME NEW X, NEW kind, NEW matches \in Seq(X), NEW entries \in Seq(X), NEW count,
         Lists(matches, entries, count),
         \A k \in DOMAIN entries : entries[k].no = k /\ Fits(kind, entries[k], k - 1)
  PROVE  Found(kind, matches) = entries
<1> DEFINE N == Len(matches)
           Upto(m) == [k \in 1 .. m |-> entries[k]]
<1>1. PICK f \in [0 .. N -> Seq(X)] :
        Listed(f, kind, matches) /\ Found(kind, matches) = f[N]
  <2>1. Looped(X, kind, matches)
    BY FoundByLoop
  <2> QED BY <2>1 DEF Looped
<1>2. N \in Nat /\ Len(entries) \in Nat /\ DOMAIN entries = 1 .. Len(entries)
  OBVIOUS
<1>3. \A m \in 0 .. Len(entries) : Upto(m) \in Seq(X) /\ Len(Upto(m)) = m
  OBVIOUS
<1>4. ASSUME NEW m \in 0 .. Len(entries) PROVE LastPos(Upto(m)) = m
  <2>1. CASE m = 0
    BY <2>1, <1>3 DEF LastPos
  <2>2. CASE m # 0
    <3>1. Upto(m) # <<>> /\ Last(Upto(m)) = entries[m]
      BY <2>2, <1>2, <1>3 DEF Last
    <3>2. entries[m].no = m
      BY <2>2, <1>2
    <3> QED BY <3>1, <3>2 DEF LastPos
  <2> QED BY <2>1, <2>2
<1>5. \A m \in 0 .. Len(entries) :
        m + 1 <= Len(entries) => Append(Upto(m), entries[m + 1]) = Upto(m + 1)
  BY <1>2, <1>3
<1> DEFINE S == {n \in Nat : n <= N => f[n] = Upto(count[n])}
<1>6. 0 \in S
  BY <1>1 DEF Listed, Lists
<1>7. ASSUME NEW n \in Nat, n \in S PROVE n + 1 \in S
  <2> SUFFICES ASSUME n + 1 <= N PROVE f[n + 1] = Upto(count[n + 1])
    OBVIOUS
  <2> DEFINE c == matches[n + 1]
             m == count[n]
  <2>1. n + 1 \in 1 .. N /\ (n + 1) - 1 = n /\ n \in 0 .. N /\ n + 1 \in 0 .. N
    BY <1>2
  <2>2. f[n] = Upto(m) /\ m \in 0 .. Len(entries) /\ count[n + 1] \in 0 .. Len(entries)
    <3>1. count \in [0 .. N -> 0 .. Len(entries)]
      BY DEF Lists
    <3>2. f[n] = Upto(m)
      BY <1>7, <2>1
    <3> QED BY <2>1, <3>1, <3>2
  <2>3. f[n + 1] = IF c # NoMatch /\ Fits(kind, c, LastPos(f[n])) THEN Append(f[n], c) ELSE f[n]
    BY <1>1, <2>1 DEF Listed
  <2>4. IF c = NoMatch THEN count[n + 1] = m
        ELSE count[n + 1] = m + 1 /\ c = entries[count[n + 1]]
    BY <2>1 DEF Lists
  <2>5. LastPos(f[n]) = m
    BY <1>4, <2>2
  <2> HIDE DEF c, m, Upto
  <2>6. CASE c = NoMatch
    BY <2>2, <2>3, <2>4, <2>6
  <2>7. CASE c # NoMatch
    <3>1. count[n + 1] = m + 1 /\ m + 1 <= Len(entries) /\ c = entries[m + 1]
      BY <1>2, <2>2, <2>4, <2>7
    <3>2. Fits(kind, c, m)
      <4>1. m + 1 \in DOMAIN entries /\ (m + 1) - 1 = m
        BY <1>2, <2>2, <3>1
      <4> QED BY <3>1, <4>1
    <3> QED BY <1>5, <2>2, <2>3, <2>5, <2>7, <3>1, <3>2
  <2> QED BY <2>6, <2>7
<1> HIDE DEF S
<1>8. N \in S
  BY <1>2, <1>6, <1>7, SetInduction
<1>9. Found(kind, matches) = Upto(Len(entries))
  BY <1>1, <1>2, <1>8 DEF S, Lists
<1>10. Upto(Len(entries)) = entries
  BY <1>2
<1> QED BY <1>9, <1>10


-----------------------------------------------------------------------------
(* All the items of a page. *)

\* The items of the first lines.
Gathered(all, body) ==
  /\ all \in [0 .. Len(body) -> Seq(Items)]
  /\ all[0] = <<>> /\ AllItems(body) = all[Len(body)]
  /\ \A n \in 1 .. Len(body) : all[n] = all[n - 1] \o body[n].items

LEMMA LinesTyped ==
  ASSUME NEW body \in Seq(Lines)
  PROVE  /\ Len(body) \in Nat /\ DOMAIN body = 1 .. Len(body)
         /\ \A l \in 1 .. Len(body) : body[l].items \in Seq(Items)
<1>1. Len(body) \in Nat /\ DOMAIN body = 1 .. Len(body)
  OBVIOUS
<1>2. \A l \in 1 .. Len(body) : body[l] \in Lines
  OBVIOUS
<1>3. \A line \in Lines : line.items \in Seq(Items)
  BY DEF Lines
<1> QED BY <1>1, <1>2, <1>3

LEMMA ItemsGathered ==
  ASSUME NEW body \in Seq(Lines)
  PROVE  \E all : Gathered(all, body)
<1> DEFINE seqs == [l \in DOMAIN body |-> body[l].items]
<1>1. seqs \in Seq(Seq(Items)) /\ Len(seqs) = Len(body)
  BY LinesTyped
<1>2. \A n \in 1 .. Len(body) : seqs[n] = body[n].items
  BY LinesTyped
<1>3. AllItems(body) = FlattenSeq(seqs)
  BY DEF AllItems
<1> HIDE DEF seqs
<1>4. PICK all \in [0 .. Len(seqs) -> Seq(Items)] :
        Joined(all, seqs) /\ FlattenSeq(seqs) = all[Len(seqs)]
  BY <1>1, FlattenByLoop
<1>5. Gathered(all, body)
  BY <1>1, <1>2, <1>3, <1>4 DEF Gathered, Joined
<1> QED BY <1>5

\* The items of the lines up to m come before those of the lines after m.
LEMMA GatheredGrows ==
  ASSUME NEW body \in Seq(Lines), NEW all, Gathered(all, body),
         NEW m \in 0 .. Len(body), NEW n \in m .. Len(body)
  PROVE  Len(all[m]) <= Len(all[n]) /\ \A k \in 1 .. Len(all[m]) : all[n][k] = all[m][k]
<1> DEFINE N == Len(body)
           Before(i, j) ==
             Len(all[i]) <= Len(all[j]) /\ \A k \in 1 .. Len(all[i]) : all[j][k] = all[i][k]
           S == {d \in Nat : m + d <= N => Before(m, m + d)}
<1>1. N \in Nat /\ \A i \in 0 .. N : all[i] \in Seq(Items) /\ Len(all[i]) \in Nat
  BY LinesTyped, SMTT(30) DEF Gathered
<1>2. 0 \in S
  BY <1>1
<1>3. ASSUME NEW d \in Nat, d \in S PROVE d + 1 \in S
  <2> SUFFICES ASSUME m + (d + 1) <= N PROVE Before(m, m + (d + 1))
    OBVIOUS
  <2>1. Before(m, m + d)
    BY <1>1, <1>3
  <2> DEFINE i == m + d
  <2>2. /\ i + 1 \in 1 .. N /\ (i + 1) - 1 = i /\ m + (d + 1) = i + 1 /\ i \in 0 .. N
    BY <1>1
  <2> HIDE DEF i
  <2>3. all[i + 1] = all[i] \o body[i + 1].items
    BY <2>2 DEF Gathered
  <2>4. all[i] \in Seq(Items) /\ body[i + 1].items \in Seq(Items)
    BY <1>1, <2>2, LinesTyped
  <2>5. Len(all[i]) <= Len(all[i + 1]) /\ \A k \in 1 .. Len(all[i]) : all[i + 1][k] = all[i][k]
    <3> DEFINE s == all[i]
               t == body[i + 1].items
    <3>1. s \in Seq(Items) /\ t \in Seq(Items)
      BY <2>4
    <3> HIDE DEF s, t
    <3>2. Len(s) <= Len(s \o t) /\ \A k \in 1 .. Len(s) : (s \o t)[k] = s[k]
      BY <3>1
    <3> QED BY <2>3, <3>2 DEF s, t
  <2>6. Before(m, i)
    BY <2>1 DEF i
  <2>7. Len(all[m]) \in Nat /\ Len(all[i]) \in Nat /\ Len(all[i + 1]) \in Nat
    BY <1>1, <2>2
  <2>8. Before(m, i + 1)
    BY <2>5, <2>6, <2>7
  <2> QED BY <2>2, <2>8
<1> HIDE DEF S, Before
<1>4. n - m \in S
  <2>1. Nat \subseteq S
    BY <1>2, <1>3, SetInduction
  <2>2. n - m \in Nat
    BY <1>1
  <2> QED BY <2>1, <2>2
<1>5. Before(m, n)
  <2>1. m + (n - m) = n /\ n <= N
    BY <1>1
  <2> QED BY <1>4, <2>1 DEF S
<1> QED BY <1>5 DEF Before

\* If one line has them all, the others have none.
LEMMA OneLineHasAll ==
  ASSUME NEW body \in Seq(Lines), NEW d \in DOMAIN body, body[d].items = AllItems(body),
         NEW l \in DOMAIN body, l # d
  PROVE  body[l].items = <<>>
<1> SUFFICES ASSUME body[l].items # <<>> PROVE FALSE
  OBVIOUS
<1>1. PICK all : Gathered(all, body)
  BY ItemsGathered
<1> DEFINE N == Len(body)
<1>2. N \in Nat /\ d \in 1 .. N /\ l \in 1 .. N
  BY LinesTyped
<1>3. \A i \in 0 .. N : Len(all[i]) \in Nat
  BY DEF Gathered
<1>4. ASSUME NEW i \in 1 .. N
      PROVE  Len(all[i]) = Len(all[i - 1]) + Len(body[i].items) /\ Len(body[i].items) \in Nat
  <2> DEFINE s == all[i - 1]
             t == body[i].items
  <2>1. all[i] = s \o t
    BY <1>1 DEF Gathered
  <2>2. i - 1 \in 0 .. N
    BY <1>2
  <2>3. s \in Seq(Items) /\ t \in Seq(Items)
    BY <1>1, <2>2, LinesTyped DEF Gathered
  <2> HIDE DEF s, t
  <2>4. Len(s \o t) = Len(s) + Len(t) /\ Len(t) \in Nat
    BY <2>3
  <2> QED BY <2>1, <2>4 DEF s, t
<1>5. ASSUME NEW i \in 0 .. N, NEW j \in i .. N PROVE Len(all[i]) <= Len(all[j])
  BY <1>1, <1>5, GatheredGrows
<1>6. Len(all[N]) = Len(body[d].items)
  BY <1>1 DEF Gathered
<1>7. Len(body[l].items) > 0
  BY <1>2, LinesTyped
<1>8. \A a, b, i, j, x, y \in Nat :
         b = a + x /\ j = i + y /\ b <= i /\ j <= y => ~(x > 0)
  OBVIOUS
<1>9. \A a, b, i, j, x, y \in Nat :
         b = a + x /\ j = i + y /\ j <= a /\ b <= y => ~(x > 0)
  OBVIOUS
<1> HIDE DEF N
<1>10. CASE l < d
  <2>1. l - 1 \in 0 .. N /\ d - 1 \in 0 .. N /\ l \in 0 .. N /\ d \in 0 .. N /\ d - 1 \in l .. N
        /\ N \in d .. N
    BY <1>2, <1>10
  <2>2. Len(all[l]) <= Len(all[d - 1]) /\ Len(all[d]) <= Len(all[N])
    BY <1>5, <2>1
  <2>3. /\ Len(all[l]) = Len(all[l - 1]) + Len(body[l].items)
        /\ Len(all[d]) = Len(all[d - 1]) + Len(body[d].items)
        /\ Len(body[l].items) \in Nat /\ Len(body[d].items) \in Nat
    BY <1>2, <1>4
  <2>4. /\ Len(all[l]) \in Nat /\ Len(all[l - 1]) \in Nat
        /\ Len(all[d]) \in Nat /\ Len(all[d - 1]) \in Nat
    BY <1>3, <2>1
  <2>5. Len(all[d]) <= Len(body[d].items)
    BY <1>6, <2>2
  <2> QED BY <1>7, <1>8, <2>2, <2>3, <2>4, <2>5, Zenon
<1>11. CASE d < l
  <2>1. l - 1 \in 0 .. N /\ d - 1 \in 0 .. N /\ l \in 0 .. N /\ d \in 0 .. N /\ l - 1 \in d .. N
        /\ N \in l .. N
    BY <1>2, <1>11
  <2>2. Len(all[d]) <= Len(all[l - 1]) /\ Len(all[l]) <= Len(all[N])
    BY <1>5, <2>1
  <2>3. /\ Len(all[l]) = Len(all[l - 1]) + Len(body[l].items)
        /\ Len(all[d]) = Len(all[d - 1]) + Len(body[d].items)
        /\ Len(body[l].items) \in Nat /\ Len(body[d].items) \in Nat
    BY <1>2, <1>4
  <2>4. /\ Len(all[l]) \in Nat /\ Len(all[l - 1]) \in Nat
        /\ Len(all[d]) \in Nat /\ Len(all[d - 1]) \in Nat
    BY <1>3, <2>1
  <2>5. Len(all[l]) <= Len(body[d].items)
    BY <1>6, <2>2
  <2> QED BY <1>7, <2>2, <2>3, <2>4, <2>5, <1>9, Zenon
<1> QED BY <1>2, <1>10, <1>11


-----------------------------------------------------------------------------
(* Orderly pages. *)

\* An entry for each item.
Entries(items) == [k \in DOMAIN items |-> Span(items, k, k)]

\* Every match there is of a page, and none.
Matches == [no : 0 .. 999, name : Seq(Names)]

LEMMA SpanOfOne ==
  ASSUME NEW items \in Seq(Items), NEW k \in DOMAIN items
  PROVE  /\ Span(items, k, k) = [no |-> items[k].no, name |-> <<items[k].name>>]
         /\ Span(items, k, k) \in Matches
         /\ items[k].no # 0 => Span(items, k, k) # NoMatch
<1>1. items[k] \in Items
  OBVIOUS
<1>2. items[k].no \in 0 .. 999 /\ items[k].name \in Names
  BY <1>1 DEF Items
<1>3. Span(items, k, k) = [no |-> items[k].no, name |-> <<items[k].name>>]
  BY DEF Span
<1>4. <<items[k].name>> \in Seq(Names)
  BY <1>2
<1>5. Span(items, k, k) \in Matches
  BY <1>2, <1>3, <1>4 DEF Matches
<1>6. Span(items, k, k).no = items[k].no /\ NoMatch.no = 0
  BY <1>3 DEF NoMatch
<1> QED BY <1>3, <1>5, <1>6

LEMMA NoMatchIsOne == NoMatch \in Matches
  BY DEF NoMatch, Matches

LEMMA EntriesTyped ==
  ASSUME NEW items \in Seq(Items)
  PROVE  /\ Entries(items) \in Seq(Matches) /\ Len(Entries(items)) = Len(items)
         /\ \A k \in DOMAIN items :
              Entries(items)[k] = [no |-> items[k].no, name |-> <<items[k].name>>]
  BY SpanOfOne DEF Entries

LEMMA EntryFields ==
  ASSUME NEW items \in Seq(Items), NEW k \in DOMAIN items
  PROVE  /\ Entries(items)[k].no = items[k].no
         /\ Entries(items)[k].name = <<items[k].name>>
         /\ items[k].no \in 0 .. 999
<1> DEFINE n == items[k].no
           m == <<items[k].name>>
<1>1. Entries(items)[k] = [no |-> n, name |-> m]
  BY EntriesTyped
<1>2. items[k] \in Items
  OBVIOUS
<1>3. n \in 0 .. 999
  BY <1>2 DEF Items
<1> HIDE DEF n, m
<1>4. Entries(items)[k].no = n /\ Entries(items)[k].name = m
  BY <1>1
<1> QED BY <1>3, <1>4 DEF n, m

\* One entry a line: the matches of the lines list them.
LEMMA LinesInOrder ==
  ASSUME NEW body \in Seq(Lines), NEW kind, NEW matches \in Seq(Matches),
         Len(matches) = Len(body),
         \A l \in DOMAIN body : body[l].items # <<>> => Len(body[l].items) = 1,
         \A l \in DOMAIN body :
           matches[l] = IF body[l].items = <<>> THEN NoMatch ELSE Whole(body[l]),
         \A k \in DOMAIN AllItems(body) :
           AllItems(body)[k].no = k /\ Fits(kind, Entries(AllItems(body))[k], k - 1)
  PROVE  Found(kind, matches) = Entries(AllItems(body))
<1> DEFINE N == Len(body)
           items == AllItems(body)
           entries == Entries(items)
<1>1. PICK all : Gathered(all, body)
  BY ItemsGathered
<1>2. /\ N \in Nat /\ DOMAIN body = 1 .. N /\ items = all[N] /\ all[0] = <<>>
      /\ \A n \in 0 .. N : all[n] \in Seq(Items)
  BY <1>1, LinesTyped DEF Gathered
<1>3. items \in Seq(Items) /\ DOMAIN items = 1 .. Len(items)
  BY <1>2
<1>4. /\ entries \in Seq(Matches) /\ Len(entries) = Len(items) /\ DOMAIN entries = DOMAIN items
      /\ \A k \in DOMAIN items :
           entries[k] = [no |-> items[k].no, name |-> <<items[k].name>>]
  BY <1>3, EntriesTyped
<1> DEFINE count == [n \in 0 .. N |-> Len(all[n])]
<1>5. ASSUME NEW n \in 0 .. N
      PROVE  /\ Len(all[n]) \in 0 .. Len(items)
             /\ \A k \in 1 .. Len(all[n]) : items[k] = all[n][k]
  <2>1. N \in n .. N
    BY <1>2
  <2>2. Len(all[n]) <= Len(all[N]) /\ \A k \in 1 .. Len(all[n]) : all[N][k] = all[n][k]
    BY <1>1, <2>1, GatheredGrows
  <2>3. Len(all[n]) \in Nat
    BY <1>2
  <2> QED BY <1>2, <2>2, <2>3
<1>6. ASSUME NEW n \in 1 .. N
      PROVE  IF matches[n] = NoMatch THEN count[n] = count[n - 1]
             ELSE count[n] = count[n - 1] + 1 /\ matches[n] = entries[count[n]]
  <2>1. n - 1 \in 0 .. N /\ n \in 0 .. N /\ n \in DOMAIN body
    BY <1>2
  <2> DEFINE before == all[n - 1]
             line == body[n].items
  <2>2. /\ all[n] = before \o line /\ before \in Seq(Items) /\ line \in Seq(Items)
        /\ matches[n] = IF line = <<>> THEN NoMatch ELSE Whole(body[n])
        /\ line # <<>> => Len(line) = 1
    BY <1>1, <1>2, <2>1, LinesTyped DEF Gathered
  <2>3. count[n] = Len(all[n]) /\ count[n - 1] = Len(before)
    BY <2>1
  <2>4. Whole(body[n]) = Span(line, 1, Len(line))
    BY DEF Whole
  <2> HIDE DEF before, line, count, entries
  <2>5. CASE line = <<>>
    <3>1. all[n] = before
      BY <2>2, <2>5
    <3> QED BY <2>2, <2>3, <2>5, <3>1
  <2>6. CASE line # <<>>
    <3>1. /\ Len(all[n]) = Len(before) + 1 /\ Len(before) \in Nat
          /\ all[n][Len(before) + 1] = line[1]
      <4>1. Len(before \o line) = Len(before) + 1 /\ Len(before) \in Nat
        <5>1. Len(line) = 1 /\ before \in Seq(Items) /\ line \in Seq(Items)
          BY <2>2, <2>6
        <5>2. \A s, t \in Seq(Items) : Len(s \o t) = Len(s) + Len(t) /\ Len(s) \in Nat
          OBVIOUS
        <5>3. Len(before \o line) = Len(before) + Len(line) /\ Len(before) \in Nat
          BY <5>1, <5>2, Zenon
        <5> QED BY <5>1, <5>3
      <4>2. (before \o line)[Len(before) + 1] = line[1]
        BY <2>2, <2>6
      <4> QED BY <2>2, <4>1, <4>2
    <3> DEFINE k == Len(all[n])
    <3>2. items[k] = line[1] /\ k \in DOMAIN items
      <4>1. k \in 1 .. Len(all[n]) /\ k \in 1 .. Len(items)
        BY <1>5, <2>1, <3>1
      <4>2. items[k] = all[n][k]
        BY <1>5, <2>1, <4>1
      <4> QED BY <1>3, <3>1, <4>1, <4>2
    <3>3. matches[n] = Span(line, 1, 1) /\ 1 \in DOMAIN line
      <4>1. Len(line) = 1 /\ 1 \in DOMAIN line
        BY <2>2, <2>6
      <4> QED BY <2>2, <2>4, <2>6, <4>1
    <3>4. matches[n] = [no |-> items[k].no, name |-> <<items[k].name>>]
      BY <2>2, <3>2, <3>3, SpanOfOne
    <3>5. matches[n] = entries[k]
      BY <1>4, <3>2, <3>4
    <3>6. items[k].no # 0
      BY <1>3, <3>1, <3>2
    <3>7. matches[n] # NoMatch
      BY <2>2, <3>2, <3>3, <3>6, SpanOfOne
    <3> QED BY <2>3, <3>1, <3>5, <3>7
  <2> QED BY <2>5, <2>6
<1>7. Lists(matches, entries, count)
  <2>1. count \in [0 .. N -> 0 .. Len(items)]
    BY <1>5
  <2>2. count[0] = 0 /\ count[N] = Len(items)
    BY <1>2
  <2> HIDE DEF count, entries, items, N
  <2>3. Len(matches) = N
    BY DEF N
  <2> QED BY <1>4, <1>6, <2>1, <2>2, <2>3 DEF Lists
<1>8. \A k \in DOMAIN entries : entries[k].no = k /\ Fits(kind, entries[k], k - 1)
  <2> HIDE DEF entries
  <2>1. \A k \in DOMAIN items : entries[k].no = items[k].no
    BY <1>4
  <2> QED BY <1>4, <2>1 DEF entries
<1> HIDE DEF count, entries
<1> QED BY <1>4, <1>7, <1>8, FoundInOrder DEF entries


\* All on one line with durations: each match ends with the item it begins with.
LEMMA InlineMatchOfTimed ==
  ASSUME NEW items \in Seq(Items), NEW k \in DOMAIN items,
         \A j \in DOMAIN items : items[j].timed /\ items[j].dash
  PROVE  InlineMatch(items, k) = Span(items, k, k)
<1>1. k \in 1 .. Len(items) /\ Len(items) \in Nat /\ DOMAIN items = 1 .. Len(items)
  OBVIOUS
<1> DEFINE ends == {0} \cup {j \in 1 .. k - 1 : items[j].timed}
<1>2. ends = 0 .. k - 1
  BY <1>1
<1> HIDE DEF ends
<1>3. Max(ends) = k - 1
  <2>1. k - 1 \in ends /\ \A y \in ends : k - 1 >= y
    BY <1>1, <1>2
  <2>2. \A x \in ends : x >= k - 1 => x = k - 1
    BY <1>1, <1>2
  <2> QED BY <2>1, <2>2 DEF Max
<1>4. Max(ends) + 1 = k
  BY <1>1, <1>3
<1>5. Dashed(items, k, k)
  BY <1>1 DEF Dashed
<1> QED BY <1>4, <1>5 DEF InlineMatch, ends

LEMMA InlineMatchesOfJammed ==
  ASSUME NEW body \in Seq(Lines), NEW d \in DOMAIN body, body[d].items = AllItems(body),
         \A j \in DOMAIN AllItems(body) : AllItems(body)[j].timed /\ AllItems(body)[j].dash
  PROVE  InlineMatches(body) = Entries(AllItems(body))
<1> DEFINE N == Len(body)
           items == AllItems(body)
           row(l) == [k \in DOMAIN body[l].items |-> InlineMatch(body[l].items, k)]
           rows == [l \in DOMAIN body |-> row(l)]
<1>1. /\ N \in Nat /\ DOMAIN body = 1 .. N /\ d \in 1 .. N
      /\ \A l \in 1 .. N : body[l].items \in Seq(Items)
  BY LinesTyped
<1>2. items \in Seq(Items)
  BY <1>1
<1>3. row(d) = Entries(items)
  BY <1>2, InlineMatchOfTimed DEF Entries
<1>4. ASSUME NEW l \in 1 .. N, l # d PROVE row(l) = <<>>
  <2>1. body[l].items = <<>>
    BY <1>1, <1>4, OneLineHasAll
  <2> QED BY <2>1
<1>5. \A l \in 1 .. N : row(l) \in Seq(Matches)
  <2>1. Entries(items) \in Seq(Matches) /\ <<>> \in Seq(Matches)
    BY <1>2, EntriesTyped
  <2> QED BY <1>3, <1>4, <2>1
<1>6. InlineMatches(body) = FlattenSeq(rows)
  BY DEF InlineMatches
<1> HIDE DEF items, row
<1>7. rows \in Seq(Seq(Matches)) /\ Len(rows) = N /\ \A l \in 1 .. N : rows[l] = row(l)
  BY <1>1, <1>5
<1> HIDE DEF rows, N
<1>8. PICK f \in [0 .. N -> Seq(Matches)] : Joined(f, rows) /\ FlattenSeq(rows) = f[N]
  BY <1>7, FlattenByLoop
<1> DEFINE S == {n \in Nat : n <= N => f[n] = IF n < d THEN <<>> ELSE Entries(items)}
<1>9. 0 \in S
  BY <1>1, <1>8 DEF Joined
<1>10. ASSUME NEW n \in Nat, n \in S PROVE n + 1 \in S
  <2> SUFFICES ASSUME n + 1 <= N
               PROVE f[n + 1] = IF n + 1 < d THEN <<>> ELSE Entries(items)
    OBVIOUS
  <2>1. n + 1 \in 1 .. N /\ (n + 1) - 1 = n /\ n <= N
    BY <1>1
  <2>2. f[n + 1] = f[n] \o row(n + 1)
    BY <1>7, <1>8, <2>1 DEF Joined
  <2>3. f[n] = IF n < d THEN <<>> ELSE Entries(items)
    BY <1>10, <2>1
  <2>4. \A s \in Seq(Matches) : <<>> \o s = s /\ s \o <<>> = s
    OBVIOUS
  <2>5. Entries(items) \in Seq(Matches)
    BY <1>2, EntriesTyped
  <2>6. CASE n + 1 < d
    <3>1. row(n + 1) = <<>> /\ n < d
      BY <1>1, <1>4, <2>1, <2>6
    <3> QED BY <2>2, <2>3, <2>6, <3>1
  <2>7. CASE n + 1 = d
    <3>1. f[n] = <<>> /\ row(n + 1) = Entries(items)
      BY <1>1, <1>3, <2>3, <2>7
    <3>2. ~(n + 1 < d)
      BY <1>1, <2>7
    <3> QED BY <2>2, <2>4, <2>5, <3>1, <3>2
  <2>8. CASE n + 1 > d
    <3>1. row(n + 1) = <<>> /\ ~(n < d) /\ ~(n + 1 < d)
      BY <1>1, <1>4, <2>1, <2>8
    <3>2. f[n] = Entries(items)
      BY <2>3, <3>1
    <3>3. f[n + 1] = Entries(items)
      BY <2>2, <2>4, <2>5, <3>1, <3>2, Zenon
    <3> QED BY <3>1, <3>3
  <2>9. n + 1 < d \/ n + 1 = d \/ n + 1 > d
    BY <1>1
  <2> QED BY <2>6, <2>7, <2>8, <2>9
<1> HIDE DEF S
<1>11. N \in S
  <2>1. Nat \subseteq S
    BY <1>9, <1>10, SetInduction
  <2> QED BY <1>1, <2>1
<1>12. f[N] = Entries(items)
  BY <1>1, <1>11 DEF S
<1> QED BY <1>6, <1>8, <1>12 DEF items

LEMMA JammedInOrder ==
  ASSUME NEW items \in Seq(Items), NEW kind,
         \A k \in DOMAIN items : items[k].no = k /\ Fits(kind, Entries(items)[k], k - 1)
  PROVE  Found(kind, Entries(items)) = Entries(items)
<1> DEFINE entries == Entries(items)
           count == [n \in 0 .. Len(entries) |-> n]
<1>1. /\ entries \in Seq(Matches) /\ Len(entries) = Len(items)
      /\ \A k \in DOMAIN items : entries[k] = [no |-> items[k].no, name |-> <<items[k].name>>]
  BY EntriesTyped
<1> HIDE DEF entries
<1>2. DOMAIN entries = DOMAIN items /\ DOMAIN entries = 1 .. Len(entries) /\ Len(entries) \in Nat
  BY <1>1
<1>3. \A k \in DOMAIN entries : entries[k].no = k /\ Fits(kind, entries[k], k - 1)
  <2>1. ASSUME NEW k \in DOMAIN items PROVE entries[k].no = items[k].no
    <3>1. entries[k] = [no |-> items[k].no, name |-> <<items[k].name>>]
      BY <1>1
    <3> QED BY <3>1
  <2> QED BY <1>2, <2>1 DEF entries
<1>4. \A k \in DOMAIN entries : entries[k] # NoMatch
  <2>1. NoMatch.no = 0
    BY DEF NoMatch
  <2>2. \A k \in DOMAIN entries : k # 0
    BY <1>2
  <2> QED BY <1>3, <2>1, <2>2
<1>5. Lists(entries, entries, count)
  BY <1>2, <1>4 DEF Lists
<1> HIDE DEF count
<1> QED BY <1>1, <1>3, <1>5, FoundInOrder DEF entries

\* One line that matches is not a list.
LEMMA OneMatch ==
  ASSUME NEW X, NEW kind, NEW matches \in Seq(X), NEW d \in Nat,
         \A n \in DOMAIN matches : n # d => matches[n] = NoMatch
  PROVE  Found(kind, matches) \in Seq(X) /\ Len(Found(kind, matches)) <= 1
<1> DEFINE N == Len(matches)
<1>1. PICK f \in [0 .. N -> Seq(X)] :
        Listed(f, kind, matches) /\ Found(kind, matches) = f[N]
  <2>1. Looped(X, kind, matches)
    BY FoundByLoop
  <2> QED BY <2>1 DEF Looped
<1>2. N \in Nat /\ DOMAIN matches = 1 .. N /\ \A n \in 1 .. N : matches[n] \in X
  OBVIOUS
<1> DEFINE S == {n \in Nat : n <= N => (n < d => f[n] = <<>>) /\ Len(f[n]) <= 1}
<1>3. 0 \in S
  BY <1>1 DEF Listed
<1>4. ASSUME NEW n \in Nat, n \in S PROVE n + 1 \in S
  <2> SUFFICES ASSUME n + 1 <= N PROVE (n + 1 < d => f[n + 1] = <<>>) /\ Len(f[n + 1]) <= 1
    OBVIOUS
  <2>1. n + 1 \in 1 .. N /\ (n + 1) - 1 = n /\ n <= N /\ n \in 0 .. N
    BY <1>2
  <2>2. (n < d => f[n] = <<>>) /\ Len(f[n]) <= 1 /\ f[n] \in Seq(X)
    BY <1>4, <2>1
  <2>3. f[n + 1] = IF matches[n + 1] # NoMatch /\ Fits(kind, matches[n + 1], LastPos(f[n]))
                     THEN Append(f[n], matches[n + 1]) ELSE f[n]
    BY <1>1, <2>1 DEF Listed
  <2>4. CASE n + 1 # d
    <3>1. f[n + 1] = f[n]
      BY <1>2, <2>1, <2>3, <2>4
    <3>2. n + 1 < d => n < d
      OBVIOUS
    <3> QED BY <2>2, <3>1, <3>2
  <2>5. CASE n + 1 = d
    <3>1. f[n] = <<>> /\ ~(n + 1 < d)
      BY <2>2, <2>5
    <3>2. Len(Append(<<>>, matches[n + 1])) = 1 /\ Len(<<>>) = 0
      OBVIOUS
    <3> QED BY <2>3, <3>1, <3>2
  <2> QED BY <2>4, <2>5
<1> HIDE DEF S
<1>5. Nat \subseteq S
  BY <1>3, <1>4, SetInduction
<1> QED BY <1>1, <1>2, <1>5 DEF S


-----------------------------------------------------------------------------
(* The lists made of a page. *)

NextTo(a, b) == a \in 1 .. b + 5

LEMMA UpToFiveMore == \A a, b : a \in 1 .. 999 /\ b \in 1 .. 999 /\ a <= b + 5 => NextTo(a, b)
  BY DEF NextTo

LEMMA ClimbsAt ==
  ASSUME NEW found, Climbs(found), NEW k \in DOMAIN found, k - 1 \in DOMAIN found, k > 1
  PROVE  found[k].no \in 1 .. found[k - 1].no + 5
<1>1. found[k - 1].no \in 1 .. 999
  BY ZenonT(60) DEF Climbs
<1>2. found[k].no \in 1 .. 999 /\ found[k].no <= found[k - 1].no + 5
  BY DEF Climbs
<1>3. NextTo(found[k].no, found[k - 1].no)
  BY <1>1, <1>2, UpToFiveMore, ZenonT(60)
<1> QED BY <1>3 DEF NextTo

\* What is found becomes a list that starts at 1 and does not jump.
LEMMA ListNoJump ==
  ASSUME NEW X, NEW found \in Seq(X), Climbs(found), NEW out,
         DOMAIN out = DOMAIN found, Len(out) = Len(found),
         \A k \in DOMAIN found : out[k].position = found[k].no
  PROVE  NoJump(ListOf(out))
<1>1. CASE Len(out) < 2 \/ out[1].position # 1
  <2>1. ListOf(out) = <<>>
    BY <1>1 DEF ListOf
  <2> QED BY <2>1 DEF NoJump
<1>2. CASE ~(Len(out) < 2 \/ out[1].position # 1)
  <2>1. ListOf(out) = out
    BY <1>2 DEF ListOf
  <2>2. DOMAIN out = 1 .. Len(found) /\ Len(found) \in Nat
    OBVIOUS
  <2>3. ASSUME NEW k \in DOMAIN out
        PROVE  out[k].position \in 1 .. (IF k = 1 THEN 1 ELSE out[k - 1].position + 5)
    <3>1. CASE k = 1
      BY <1>2, <3>1
    <3>2. CASE k # 1
      <4>1. k - 1 \in DOMAIN found /\ k \in DOMAIN found /\ k > 1
        BY <2>2, <2>3, <3>2
      <4>2. out[k].position = found[k].no /\ out[k - 1].position = found[k - 1].no
        BY <4>1
      <4>3. found[k].no \in 1 .. found[k - 1].no + 5
        BY <4>1, ClimbsAt
      <4> QED BY <3>2, <4>2, <4>3
    <3> QED BY <3>1, <3>2
  <2> QED BY <2>1, <2>3 DEF NoJump
<1> QED BY <1>1, <1>2

LEMMA TracksNoJump ==
  ASSUME NEW X, NEW matches \in Seq(X)
  PROVE  NoJump(Tracks(matches))
<1> DEFINE found == Found("music", matches)
           out == [k \in DOMAIN found |-> Track(found[k])]
<1>1. found \in Seq(X) /\ Climbs(found)
  BY FoundClimbs
<1> HIDE DEF found
<1>2. DOMAIN out = DOMAIN found /\ Len(out) = Len(found)
  BY <1>1
<1>3. \A k \in DOMAIN found : out[k].position = found[k].no
  BY DEF Track
<1> HIDE DEF out
<1>4. NoJump(ListOf(out))
  BY <1>1, <1>2, <1>3, ListNoJump
<1> QED BY <1>4 DEF Tracks, out, found

LEMMA ChaptersNoJump ==
  ASSUME NEW body \in Seq(Lines)
  PROVE  NoJump(ExtractChapters(body))
<1> DEFINE X == {ChapterMatch(body[l]) : l \in DOMAIN body}
           matches == ChapterMatches(body)
           found == Found("audiobook", matches)
           out == [k \in DOMAIN found |-> Chapter(found[k])]
<1>1. matches \in Seq(X)
  BY LinesTyped DEF ChapterMatches
<1> HIDE DEF matches, X
<1>2. found \in Seq(X) /\ Climbs(found)
  BY <1>1, FoundClimbs
<1> HIDE DEF found
<1>3. DOMAIN out = DOMAIN found /\ Len(out) = Len(found)
  BY <1>2
<1>4. \A k \in DOMAIN found : out[k].position = found[k].no
  BY DEF Chapter
<1> HIDE DEF out
<1>5. NoJump(ListOf(out))
  BY <1>2, <1>3, <1>4, ListNoJump
<1> QED BY <1>5 DEF ExtractChapters, out, found, matches

\* The matches of a page are a sequence, whatever they are of.
LEMMA MatchesAreSequences ==
  ASSUME NEW body \in Seq(Lines)
  PROVE  \E X : LineMatches(body) \in Seq(X) /\ InlineMatches(body) \in Seq(X)
<1> DEFINE row(l) == [k \in DOMAIN body[l].items |-> InlineMatch(body[l].items, k)]
           rows == [l \in DOMAIN body |-> row(l)]
           X == {LineMatch(body[l]) : l \in DOMAIN body}
                \cup UNION {{InlineMatch(body[l].items, k) : k \in DOMAIN body[l].items} :
                              l \in DOMAIN body}
<1>1. /\ Len(body) \in Nat /\ DOMAIN body = 1 .. Len(body)
      /\ \A l \in DOMAIN body : body[l].items \in Seq(Items)
  BY LinesTyped
<1>2. LineMatches(body) \in Seq(X)
  <2>1. \A l \in DOMAIN body : LineMatch(body[l]) \in X
    OBVIOUS
  <2> HIDE DEF X
  <2> QED BY <1>1, <2>1 DEF LineMatches
<1>3. \A l \in DOMAIN body : row(l) \in Seq(X)
  <2> SUFFICES ASSUME NEW l \in DOMAIN body PROVE row(l) \in Seq(X)
    OBVIOUS
  <2>1. \A k \in DOMAIN body[l].items : InlineMatch(body[l].items, k) \in X
    OBVIOUS
  <2>2. DOMAIN body[l].items = 1 .. Len(body[l].items) /\ Len(body[l].items) \in Nat
    BY <1>1
  <2> HIDE DEF X
  <2> QED BY <2>1, <2>2
<1> HIDE DEF X, row
<1>4. rows \in Seq(Seq(X))
  BY <1>1, <1>3
<1>5. InlineMatches(body) = FlattenSeq(rows)
  BY DEF InlineMatches, row
<1> HIDE DEF rows
<1>6. PICK f \in [0 .. Len(rows) -> Seq(X)] : FlattenSeq(rows) = f[Len(rows)]
  BY <1>4, FlattenByLoop
<1>7. Len(rows) \in 0 .. Len(rows)
  BY <1>4
<1> QED BY <1>2, <1>5, <1>6, <1>7

LEMMA TracklistNoJump ==
  ASSUME NEW body \in Seq(Lines)
  PROVE  NoJump(ExtractTracklist(body))
<1>1. PICK X : LineMatches(body) \in Seq(X) /\ InlineMatches(body) \in Seq(X)
  BY MatchesAreSequences
<1> QED BY <1>1, TracksNoJump DEF ExtractTracklist


\* Every item of the list, with its number and its own name.
Reads(list, items) ==
  /\ Len(list) = Len(items)
  /\ \A k \in DOMAIN items :
       /\ list[k].position = items[k].no
       /\ list[k].title = IF items[k].name = NoText THEN <<>> ELSE <<items[k].name>>

InOrder(items) == Len(items) >= 2 /\ \A k \in DOMAIN items : items[k].no = k

LEMMA TracksRead ==
  ASSUME NEW items \in Seq(Items), InOrder(items), \A k \in DOMAIN items : items[k].name # NoText,
         NEW matches, Found("music", matches) = Entries(items)
  PROVE  Len(Tracks(matches)) >= 2 /\ Reads(Tracks(matches), items)
<1> DEFINE entries == Entries(items)
           out == [k \in DOMAIN entries |-> Track(entries[k])]
<1>1. /\ entries \in Seq(Matches) /\ Len(entries) = Len(items)
      /\ \A k \in DOMAIN items : entries[k] = [no |-> items[k].no, name |-> <<items[k].name>>]
  BY EntriesTyped
<1>2. Tracks(matches) = ListOf(out)
  BY DEF Tracks
<1> HIDE DEF entries
<1>3. Len(out) = Len(items) /\ DOMAIN entries = DOMAIN items /\ Len(items) \in Nat
  BY <1>1
<1>4. \A k \in DOMAIN items : out[k].position = items[k].no /\ out[k].title = <<items[k].name>>
  <2> SUFFICES ASSUME NEW k \in DOMAIN items
               PROVE out[k].position = items[k].no /\ out[k].title = <<items[k].name>>
    OBVIOUS
  <2>1. out[k] = Track(entries[k])
    BY <1>3
  <2>2. entries[k].no = items[k].no /\ entries[k].name = <<items[k].name>>
    BY EntryFields DEF entries
  <2> QED BY <2>1, <2>2, SMTT(30) DEF Track
<1> HIDE DEF out
<1>5. out[1].position = 1
  <2>1. 1 \in DOMAIN items
    BY DEF InOrder
  <2> QED BY <1>4, <2>1 DEF InOrder
<1>6. ListOf(out) = out
  <2>1. ~(Len(out) < 2)
    BY <1>3 DEF InOrder
  <2> QED BY <1>5, <2>1 DEF ListOf
<1> QED BY <1>2, <1>3, <1>4, <1>6 DEF Reads, InOrder

LEMMA ChapterFields ==
  ASSUME NEW c
  PROVE  /\ Chapter(c).position = c.no
         /\ Chapter(c).title = IF c.name = <<NoText>> THEN <<>> ELSE c.name
<1> DEFINE title == IF c.name = <<NoText>> THEN <<>> ELSE c.name
           file == c.no - 1
           nobody == ""
<1>1. Chapter(c) = [position |-> c.no, fileIndex |-> file, artist |-> nobody, title |-> title]
  BY Zenon DEF Chapter
<1> HIDE DEF title, file, nobody
<1>2. Chapter(c).position = c.no
  BY <1>1
<1>3. Chapter(c).title = title
  BY <1>1
<1> QED BY <1>2, <1>3 DEF title

LEMMA ChaptersRead ==
  ASSUME NEW items \in Seq(Items), InOrder(items),
         NEW body, Found("audiobook", ChapterMatches(body)) = Entries(items)
  PROVE  Reads(ExtractChapters(body), items)
<1> DEFINE entries == Entries(items)
           out == [k \in DOMAIN entries |-> Chapter(entries[k])]
<1>1. /\ entries \in Seq(Matches) /\ Len(entries) = Len(items)
      /\ \A k \in DOMAIN items : entries[k] = [no |-> items[k].no, name |-> <<items[k].name>>]
  BY EntriesTyped
<1>2. ExtractChapters(body) = ListOf(out)
  BY DEF ExtractChapters
<1> HIDE DEF entries
<1>3. Len(out) = Len(items) /\ DOMAIN entries = DOMAIN items /\ Len(items) \in Nat
  BY <1>1
<1>4. \A k \in DOMAIN items :
        /\ out[k].position = items[k].no
        /\ out[k].title = IF items[k].name = NoText THEN <<>> ELSE <<items[k].name>>
  <2> SUFFICES ASSUME NEW k \in DOMAIN items
               PROVE  /\ out[k].position = items[k].no
                      /\ out[k].title = IF items[k].name = NoText THEN <<>> ELSE <<items[k].name>>
    OBVIOUS
  <2>1. out[k] = Chapter(entries[k])
    BY <1>3
  <2>2. entries[k].no = items[k].no /\ entries[k].name = <<items[k].name>>
    BY EntryFields DEF entries
  <2>3. <<items[k].name>> = <<NoText>> <=> items[k].name = NoText
    OBVIOUS
  <2>4. /\ out[k].position = entries[k].no
        /\ out[k].title = IF entries[k].name = <<NoText>> THEN <<>> ELSE entries[k].name
    BY <2>1, ChapterFields, Zenon
  <2> QED BY <2>2, <2>3, <2>4, Zenon
<1> HIDE DEF out
<1>5. out[1].position = 1
  <2>1. 1 \in DOMAIN items
    BY DEF InOrder
  <2> QED BY <1>4, <2>1 DEF InOrder
<1>6. ListOf(out) = out
  <2>1. ~(Len(out) < 2)
    BY <1>3 DEF InOrder
  <2> QED BY <1>5, <2>1 DEF ListOf
<1> QED BY <1>2, <1>3, <1>4, <1>6 DEF Reads

LEMMA NextNumber ==
  /\ \A k : k \in 0 .. 999 /\ k # 0 => k \in 1 .. 999 /\ k <= (k - 1) + 3
  /\ \A k : k \in 0 .. 999 /\ k # 0 /\ k <= 500 => k \in 1 .. 500 /\ k <= (k - 1) + 5
  BY SMTT(30)

\* Numbered in order, no entry is too far from the one before it.
LEMMA EntriesFit ==
  ASSUME NEW items \in Seq(Items), InOrder(items), NEW k \in DOMAIN items
  PROVE  /\ items[k].name = NoText \/ TitleFits(<<items[k].name>>) =>
              Fits("audiobook", Entries(items)[k], k - 1)
         /\ k <= 500 /\ TextsFit(<<items[k].name>>) => Fits("music", Entries(items)[k], k - 1)
<1>1. Entries(items)[k].no = k /\ Entries(items)[k].name = <<items[k].name>>
  BY EntryFields DEF InOrder
<1>2. k \in 0 .. 999 /\ k # 0
  <2>1. items[k].no \in 0 .. 999 /\ items[k].no = k
    BY EntryFields DEF InOrder
  <2>2. k # 0
    OBVIOUS
  <2>3. k \in 0 .. 999
    BY <2>1
  <2> QED BY <2>2, <2>3
<1>3. ASSUME items[k].name = NoText \/ TitleFits(<<items[k].name>>)
      PROVE  ChapterFits(Entries(items)[k], k - 1)
  <2>1. k \in 1 .. 999 /\ k <= (k - 1) + 3
    BY <1>2, NextNumber, ZenonT(60)
  <2> QED BY <1>1, <1>3, <2>1, ZenonT(60) DEF ChapterFits
<1>4. ASSUME k <= 500, TextsFit(<<items[k].name>>) PROVE TrackFits(Entries(items)[k], k - 1)
  <2>1. k \in 1 .. 500 /\ k <= (k - 1) + 5
    BY <1>2, <1>4, NextNumber, ZenonT(60)
  <2> QED BY <1>1, <1>4, <2>1, Zenon DEF TrackFits
<1> QED BY <1>3, <1>4 DEF Fits

\* The item of a line is among the items of the page.
LEMMA ItemOfLine ==
  ASSUME NEW body \in Seq(Lines), NEW l \in DOMAIN body, Len(body[l].items) = 1
  PROVE  \E k \in DOMAIN AllItems(body) : AllItems(body)[k] = body[l].items[1]
<1>1. PICK all : Gathered(all, body)
  BY ItemsGathered
<1> DEFINE N == Len(body)
           s == all[l - 1]
           t == body[l].items
<1>2. N \in Nat /\ l \in 1 .. N /\ l - 1 \in 0 .. N /\ N \in l .. N /\ l \in 0 .. N
  BY LinesTyped
<1>3. all[l] = s \o t /\ s \in Seq(Items) /\ t \in Seq(Items)
  BY <1>1, <1>2, LinesTyped DEF Gathered
<1>4. /\ Len(all[l]) <= Len(all[N]) /\ \A k \in 1 .. Len(all[l]) : all[N][k] = all[l][k]
      /\ all[N] = AllItems(body) /\ all[N] \in Seq(Items)
  <2>1. Len(all[l]) <= Len(all[N]) /\ \A k \in 1 .. Len(all[l]) : all[N][k] = all[l][k]
    BY <1>1, <1>2, GatheredGrows
  <2>2. all[N] = AllItems(body) /\ all[N] \in Seq(Items)
    <3>1. all \in [0 .. N -> Seq(Items)] /\ AllItems(body) = all[N] /\ N \in 0 .. N
      BY <1>1, <1>2 DEF Gathered
    <3> QED BY <3>1
  <2> QED BY <2>1, <2>2
<1> HIDE DEF s, N
<1>5. \A u, v \in Seq(Items) :
        /\ Len(u) \in Nat /\ Len(u \o v) = Len(u) + Len(v)
        /\ Len(v) = 1 => (u \o v)[Len(u) + 1] = v[1]
  OBVIOUS
<1>6. Len(t) = 1
  OBVIOUS
<1> HIDE DEF t
<1>7. /\ Len(s) \in Nat /\ Len(all[l]) = Len(s) + Len(t) /\ all[l][Len(s) + 1] = t[1]
  BY <1>3, <1>5, <1>6, Zenon
<1>8. Len(s) + 1 \in 1 .. Len(all[l]) /\ Len(s) + 1 \in DOMAIN all[N]
  BY <1>4, <1>6, <1>7
<1> QED BY <1>4, <1>7, <1>8 DEF t


\* A list with one entry a line matches line by line.
LEMMA LineMatchesOfOneEach ==
  ASSUME NEW body \in Seq(Lines), OneEach(body, {"number"}),
         \A k \in DOMAIN AllItems(body) : AllItems(body)[k].dash
  PROVE  /\ LineMatches(body) \in Seq(Matches) /\ Len(LineMatches(body)) = Len(body)
         /\ \A l \in DOMAIN body :
              LineMatches(body)[l] = IF body[l].items = <<>> THEN NoMatch ELSE Whole(body[l])
<1>1. /\ Len(body) \in Nat /\ DOMAIN body = 1 .. Len(body)
      /\ \A l \in DOMAIN body : body[l].items \in Seq(Items)
  BY LinesTyped
<1>2. ASSUME NEW l \in DOMAIN body
      PROVE  /\ LineMatch(body[l]) = IF body[l].items = <<>> THEN NoMatch ELSE Whole(body[l])
             /\ LineMatch(body[l]) \in Matches
  <2>1. CASE body[l].items = <<>>
    BY <2>1, NoMatchIsOne DEF LineMatch, Fitting
  <2>2. CASE body[l].items # <<>>
    <3> DEFINE line == body[l]
    <3>1. Len(line.items) = 1 /\ line.lead = "number" /\ LineFits(line)
      BY <2>2 DEF OneEach
    <3>2. Dashed(line.items, 1, Len(line.items))
      <4>1. line.items[1].dash
        BY <3>1, ItemOfLine
      <4> QED BY <3>1, <4>1 DEF Dashed
    <3>3. Fitting(line)
      BY <2>2, <3>1 DEF Fitting
    <3>4. LineMatch(line) = Whole(line)
      BY <3>1, <3>2, <3>3 DEF LineMatch
    <3>5. Whole(line) \in Matches
      <4>1. 1 \in DOMAIN line.items /\ line.items \in Seq(Items)
        BY <1>1, <3>1
      <4> QED BY <3>1, <4>1, SpanOfOne DEF Whole
    <3> QED BY <2>2, <3>4, <3>5
  <2> QED BY <2>1, <2>2
<1> QED BY <1>1, <1>2 DEF LineMatches

LEMMA ChapterMatchesOfOneEach ==
  ASSUME NEW body \in Seq(Lines), OneEach(body, {"number", "word"}), Titled(body)
  PROVE  /\ ChapterMatches(body) \in Seq(Matches) /\ Len(ChapterMatches(body)) = Len(body)
         /\ \A l \in DOMAIN body :
              ChapterMatches(body)[l] = IF body[l].items = <<>> THEN NoMatch ELSE Whole(body[l])
<1>1. /\ Len(body) \in Nat /\ DOMAIN body = 1 .. Len(body)
      /\ \A l \in DOMAIN body : body[l].items \in Seq(Items)
  BY LinesTyped
<1>2. ASSUME NEW l \in DOMAIN body
      PROVE  /\ ChapterMatch(body[l]) = IF body[l].items = <<>> THEN NoMatch ELSE Whole(body[l])
             /\ ChapterMatch(body[l]) \in Matches
  <2>1. CASE body[l].items = <<>>
    BY <2>1, NoMatchIsOne DEF ChapterMatch, Fitting
  <2>2. CASE body[l].items # <<>>
    <3> DEFINE line == body[l]
    <3>1. Len(line.items) = 1 /\ line.lead \in {"number", "word"} /\ LineFits(line)
      BY <2>2 DEF OneEach
    <3>2. Fitting(line)
      BY <2>2, <3>1 DEF Fitting
    <3>3. 1 \in DOMAIN line.items /\ line.items \in Seq(Items)
      BY <1>1, <3>1
    <3>4. Whole(line) = Span(line.items, 1, 1)
      BY <3>1 DEF Whole
    <3>5. line.lead = "word" \/ (line.lead = "number" /\ Whole(line).name # <<NoText>>)
      <4>1. line.lead # "word" => line.items[1].name # NoText
        BY <3>3 DEF Titled
      <4>2. Whole(line).name = <<line.items[1].name>>
        <5> DEFINE no == line.items[1].no
                   name == <<line.items[1].name>>
        <5>1. Whole(line) = [no |-> no, name |-> name]
          BY <3>3, <3>4, SpanOfOne
        <5> HIDE DEF no, name
        <5>2. Whole(line).name = name
          BY <5>1
        <5> QED BY <5>2 DEF name
      <4>3. line.items[1].name # NoText => <<line.items[1].name>> # <<NoText>>
        OBVIOUS
      <4> QED BY <3>1, <4>1, <4>2, <4>3, Zenon
    <3>6. ChapterMatch(line) = Whole(line)
      BY <3>2, <3>5 DEF ChapterMatch
    <3>7. Whole(line) \in Matches
      BY <3>3, <3>4, SpanOfOne
    <3> QED BY <2>2, <3>6, <3>7
  <2> QED BY <2>1, <2>2
<1> QED BY <1>1, <1>2 DEF ChapterMatches

LEMMA AllItemsTyped ==
  ASSUME NEW body \in Seq(Lines)
  PROVE  AllItems(body) \in Seq(Items)
<1>1. PICK all : Gathered(all, body)
  BY ItemsGathered
<1>2. Len(body) \in 0 .. Len(body)
  BY LinesTyped
<1> QED BY <1>1, <1>2 DEF Gathered

LEMMA AudiobookRead ==
  ASSUME NEW p, IsPage(p), Orderly(p), ClassifyKind(p) = "audiobook"
  PROVE  Reads(ExtractChapters(p.body), AllItems(p.body))
<1> DEFINE items == AllItems(p.body)
           body == p.body
<1>1. body \in Seq(Lines)
  BY DEF IsPage
<1>2. /\ InOrder(items) /\ OneEach(body, {"number", "word"}) /\ Titled(body)
      /\ \A k \in DOMAIN items : items[k].name = NoText \/ TitleFits(<<items[k].name>>)
  BY DEF Orderly, InOrder
<1>3. items \in Seq(Items)
  BY <1>1, AllItemsTyped
<1>4. \A k \in DOMAIN items : items[k].no = k /\ Fits("audiobook", Entries(items)[k], k - 1)
  BY <1>2, <1>3, EntriesFit DEF InOrder
<1>5. \A l \in DOMAIN body : body[l].items # <<>> => Len(body[l].items) = 1
  BY <1>2 DEF OneEach
<1> HIDE DEF body
<1>6. /\ ChapterMatches(body) \in Seq(Matches) /\ Len(ChapterMatches(body)) = Len(body)
      /\ \A l \in DOMAIN body :
           ChapterMatches(body)[l] = IF body[l].items = <<>> THEN NoMatch ELSE Whole(body[l])
  BY <1>1, <1>2, ChapterMatchesOfOneEach
<1>7. items = AllItems(body)
  BY DEF body
<1> HIDE DEF items
<1>8. Found("audiobook", ChapterMatches(body)) = Entries(items)
  BY <1>1, <1>4, <1>5, <1>6, <1>7, LinesInOrder
<1>9. Reads(ExtractChapters(body), items)
  BY <1>2, <1>3, <1>8, ChaptersRead
<1> QED BY <1>9 DEF body, items

LEMMA MusicRead ==
  ASSUME NEW p, IsPage(p), Orderly(p), ClassifyKind(p) # "audiobook"
  PROVE  Reads(ExtractTracklist(p.body), AllItems(p.body))
<1> DEFINE items == AllItems(p.body)
           body == p.body
<1>1. body \in Seq(Lines)
  BY DEF IsPage
<1>2. /\ InOrder(items) /\ Len(items) <= 500
      /\ \A k \in DOMAIN items : items[k].dash /\ TextsFit(<<items[k].name>>)
      /\ OneEach(body, {"number"}) \/ Jammed(body)
  BY DEF Orderly, InOrder
<1>3. /\ items \in Seq(Items)
      /\ \A k \in DOMAIN items : items[k].name # NoText
  BY <1>1, <1>2, AllItemsTyped, TextsAssumption
<1>4. \A k \in DOMAIN items : items[k].no = k /\ Fits("music", Entries(items)[k], k - 1)
  <2>1. \A k \in DOMAIN items : k <= 500
    BY <1>2, <1>3
  <2> QED BY <1>2, <1>3, <2>1, EntriesFit DEF InOrder
<1> HIDE DEF body
<1>5. items = AllItems(body)
  BY DEF body
<1> HIDE DEF items
<1>6. CASE OneEach(body, {"number"})
  <2>1. /\ LineMatches(body) \in Seq(Matches) /\ Len(LineMatches(body)) = Len(body)
        /\ \A l \in DOMAIN body :
             LineMatches(body)[l] = IF body[l].items = <<>> THEN NoMatch ELSE Whole(body[l])
    BY <1>1, <1>2, <1>5, <1>6, LineMatchesOfOneEach
  <2>2. \A l \in DOMAIN body : body[l].items # <<>> => Len(body[l].items) = 1
    BY <1>6 DEF OneEach
  <2>3. Found("music", LineMatches(body)) = Entries(items)
    BY <1>1, <1>4, <1>5, <2>1, <2>2, LinesInOrder
  <2>4. Len(Tracks(LineMatches(body))) >= 2 /\ Reads(Tracks(LineMatches(body)), items)
    BY <1>2, <1>3, <2>3, TracksRead
  <2>5. ExtractTracklist(body) = Tracks(LineMatches(body))
    BY <2>4 DEF ExtractTracklist
  <2> QED BY <2>4, <2>5 DEF body, items
<1>7. CASE Jammed(body)
  <2>1. PICK d \in DOMAIN body :
          body[d].items = items /\ \A k \in DOMAIN items : items[k].timed
    BY <1>5, <1>7 DEF Jammed
  <2>2. InlineMatches(body) = Entries(items)
    BY <1>1, <1>2, <1>5, <2>1, InlineMatchesOfJammed
  <2>3. Found("music", InlineMatches(body)) = Entries(items)
    BY <1>3, <1>4, <2>2, JammedInOrder
  <2>4. Reads(Tracks(InlineMatches(body)), items)
    BY <1>2, <1>3, <2>3, TracksRead
  <2>5. ~(Len(Tracks(LineMatches(body))) >= 2)
    <3>1. PICK X : LineMatches(body) \in Seq(X)
      BY <1>1, MatchesAreSequences
    <3>2. /\ Len(body) \in Nat /\ DOMAIN body = 1 .. Len(body) /\ d \in Nat
          /\ DOMAIN LineMatches(body) = DOMAIN body
      BY <1>1, LinesTyped DEF LineMatches
    <3>3. \A l \in DOMAIN LineMatches(body) : l # d => LineMatches(body)[l] = NoMatch
      <4> SUFFICES ASSUME NEW l \in DOMAIN body, l # d PROVE LineMatches(body)[l] = NoMatch
        BY <3>2
      <4>1. body[l].items = <<>>
        BY <1>1, <1>5, <2>1, OneLineHasAll
      <4> QED BY <4>1 DEF LineMatches, LineMatch, Fitting
    <3> DEFINE found == Found("music", LineMatches(body))
               out == [k \in DOMAIN found |-> Track(found[k])]
    <3>4. found \in Seq(X) /\ Len(found) <= 1
      BY <3>1, <3>2, <3>3, OneMatch
    <3>5. Tracks(LineMatches(body)) = ListOf(out)
      BY DEF Tracks
    <3> HIDE DEF found
    <3>6. Len(out) = Len(found) /\ Len(found) \in Nat
      BY <3>4
    <3> HIDE DEF out
    <3>7. ListOf(out) = <<>>
      BY <3>4, <3>6 DEF ListOf
    <3>8. Len(<<>>) = 0 /\ ~(0 >= 2)
      OBVIOUS
    <3> QED BY <3>5, <3>7, <3>8
  <2>6. ExtractTracklist(body) = Tracks(InlineMatches(body))
    BY <2>5 DEF ExtractTracklist
  <2> QED BY <2>4, <2>6 DEF body, items
<1> QED BY <1>2, <1>6, <1>7

LEMMA ParsedTracks ==
  ASSUME NEW p, Parse(p) # NoResult
  PROVE  Parse(p).tracks = IF ClassifyKind(p) = "audiobook"
                             THEN ExtractChapters(p.body) ELSE ExtractTracklist(p.body)
<1>1. p.magnet # ""
  BY Zenon DEF Parse
<1> QED BY <1>1, Zenon DEF Parse

\* Of any page of any length: no list jumps ahead, and an orderly list is found
\* whole, in order, each entry with its number and its name, in one layout or the
\* other: neither the checks of buildEntry and chapterEntryFromLine nor the limits
\* on lines cost it an entry (rutracker.go:276-374, audiobook.go:221-309).
THEOREM PagesReadRight ==
  \A p : IsPage(p) /\ Parse(p) # NoResult => ReadRight(p, Parse(p).tracks)
<1> SUFFICES ASSUME NEW p, IsPage(p), Parse(p) # NoResult
             PROVE ReadRight(p, Parse(p).tracks)
  OBVIOUS
<1> DEFINE list == Parse(p).tracks
<1>1. p.body \in Seq(Lines)
  BY DEF IsPage
<1>2. NoJump(list)
  BY <1>1, ParsedTracks, TracklistNoJump, ChaptersNoJump
<1>3. ASSUME Orderly(p) PROVE Reads(list, AllItems(p.body))
  BY <1>3, ParsedTracks, AudiobookRead, MusicRead
<1> HIDE DEF list
<1>4. ReadRight(p, list)
  BY <1>2, <1>3 DEF ReadRight, Reads
<1> QED BY <1>4 DEF list

=============================================================================
