---------------------------- MODULE RequestsProofs ----------------------------
(***************************************************************************)
(* The shared connection, the pages and the waiting of Requests, for every *)
(* number of requests, every length of lists and every timeout.            *)
(***************************************************************************)
EXTENDS Requests, FiniteSetTheorems, SequenceTheorems, TLAPS

(* The programs of the handlers. *)

\* The steps of handlers that take the connection for one statement only.
Alone == {"read", "exec", "row", "links", "drop"} \cup Upstreams \cup ({"local"} \cap Providers)

\* The steps that are taken while the connection is held.
Inside == {"each", "close", "put", "clear", "link", "commit"}

Steps == Alone \cup Inside \cup {"open", "begin"}

\* t is what is left of the playlist transaction.
LeftOfUpsert(t) ==
  /\ Len(t) <= ListLen + 4
  /\ \A i \in 1 .. Len(t) :
       LET n == Len(t) + 1 - i IN \* steps left, this one included
       /\ n = ListLen + 4 => t[i] = "begin"
       /\ n = ListLen + 3 => t[i] = "put"
       /\ n = ListLen + 2 => t[i] = "clear"
       /\ n \in 2 .. ListLen + 1 => t[i] = "link"
       /\ n = 1 => t[i] = "commit"

\* t is what may be left to do for a request of kind k.
Fits(k, t) ==
  /\ t \in Seq(Steps)
  /\ k = "none" => t = <<>>
  /\ k = "upsert" => LeftOfUpsert(t)
  /\ k \in Listings =>
       t \in {<<>>, <<"close">>, <<"each", "close">>, <<"open">>, <<"read", "open">>}
  /\ k \notin Listings \cup {"upsert"} => \A i \in 1 .. Len(t) : t[i] \in Alone
  /\ k = "search" => \A i \in 1 .. Len(t) : t[i] \in Providers

\* The next step of t is taken inside the connection.
IsInside(t) == t # <<>> /\ Head(t) \in Inside

\* Concatenation: what comes first keeps its place.
LEMMA Concat ==
  ASSUME NEW S, NEW a \in Seq(S), NEW b \in Seq(S)
  PROVE  /\ a \o b \in Seq(S)
         /\ Len(a) \in Nat /\ Len(b) \in Nat
         /\ Len(a \o b) = Len(a) + Len(b)
         /\ \A i \in 1 .. Len(a) : (a \o b)[i] = a[i]
         /\ \A i \in 1 .. Len(b) : (a \o b)[Len(a) + i] = b[i]
<1>0. Len(a) \in Nat /\ Len(b) \in Nat
  OBVIOUS
<1>1. /\ a \o b \in Seq(S)
      /\ Len(a \o b) = Len(a) + Len(b)
      /\ \A i \in 1 .. Len(a) + Len(b) : (a \o b)[i] = IF i <= Len(a) THEN a[i] ELSE b[i - Len(a)]
  BY ConcatProperties
<1>2. ASSUME NEW i \in 1 .. Len(a) PROVE (a \o b)[i] = a[i]
  BY <1>0, <1>1
<1>3. ASSUME NEW i \in 1 .. Len(b) PROVE (a \o b)[Len(a) + i] = b[i]
  <2> DEFINE m == Len(a)
             n == Len(b)
  <2>1. m + i \in 1 .. m + n /\ ~(m + i <= m) /\ (m + i) - m = i
    BY <1>0
  <2> QED BY <1>1, <2>1
<1> QED BY <1>0, <1>1, <1>2, <1>3

LEMMA UpsertProgram ==
  /\ UpsertPlaylist \in Seq(Steps) /\ LeftOfUpsert(UpsertPlaylist)
  /\ Len(UpsertPlaylist) = ListLen + 4
<1> DEFINE L == [i \in 1 .. ListLen |-> "link"]
           B == <<"begin", "put", "clear">>
           C == <<"commit">>
<1>0. ListLen \in Nat
  BY RequestsAssumption
<1>1. L \in Seq(Steps) /\ Len(L) = ListLen /\ \A i \in 1 .. ListLen : L[i] = "link"
  BY <1>0 DEF Steps, Inside
<1>2. B \in Seq(Steps) /\ Len(B) = 3 /\ B[1] = "begin" /\ B[2] = "put" /\ B[3] = "clear"
  BY DEF Steps, Inside
<1>3. C \in Seq(Steps) /\ Len(C) = 1 /\ C[1] = "commit"
  BY DEF Steps, Inside
<1> HIDE DEF L, B, C
<1> DEFINE BL == B \o L
           U == BL \o C
<1>4. /\ BL \in Seq(Steps) /\ Len(BL) = Len(B) + Len(L)
      /\ \A i \in 1 .. Len(B) : BL[i] = B[i]
      /\ \A i \in 1 .. Len(L) : BL[Len(B) + i] = L[i]
  <2>1. B \in Seq(Steps) /\ L \in Seq(Steps)
    BY <1>1, <1>2
  <2> QED BY <2>1, Concat
<1> HIDE DEF BL
<1>5. /\ BL \in Seq(Steps) /\ Len(BL) = 3 + ListLen
      /\ \A i \in 1 .. 3 : BL[i] = B[i]
      /\ \A i \in 1 .. ListLen : BL[3 + i] = L[i]
  BY <1>1, <1>2, <1>4
<1>6. /\ U \in Seq(Steps) /\ Len(U) = Len(BL) + Len(C)
      /\ \A i \in 1 .. Len(BL) : U[i] = BL[i]
      /\ \A i \in 1 .. Len(C) : U[Len(BL) + i] = C[i]
  <2>1. BL \in Seq(Steps) /\ C \in Seq(Steps)
    BY <1>3, <1>5
  <2> QED BY <2>1, Concat
<1> HIDE DEF U
<1>7. /\ U \in Seq(Steps) /\ Len(U) = (3 + ListLen) + 1
      /\ \A i \in 1 .. 3 + ListLen : U[i] = BL[i]
      /\ \A i \in 1 .. 1 : U[(3 + ListLen) + i] = C[i]
  BY <1>3, <1>5, <1>6
<1>8. /\ U[1] = "begin" /\ U[2] = "put" /\ U[3] = "clear" /\ U[ListLen + 4] = "commit"
  <2>1. 1 \in 1 .. 3 + ListLen /\ 2 \in 1 .. 3 + ListLen /\ 3 \in 1 .. 3 + ListLen
        /\ (3 + ListLen) + 1 = ListLen + 4
    BY <1>0
  <2> QED BY <1>2, <1>3, <1>5, <1>7, <2>1
<1>9. ASSUME NEW i \in 4 .. ListLen + 3 PROVE U[i] = "link"
  <2>1. i - 3 \in 1 .. ListLen /\ 3 + (i - 3) = i /\ i \in 1 .. 3 + ListLen
    BY <1>0
  <2> QED BY <1>1, <1>5, <1>7, <2>1
<1>10. LeftOfUpsert(U)
  <2>1. Len(U) = ListLen + 4
    BY <1>0, <1>7
  <2> SUFFICES ASSUME NEW i \in 1 .. ListLen + 4
               PROVE  LET n == ListLen + 4 + 1 - i IN
                      /\ n = ListLen + 4 => U[i] = "begin"
                      /\ n = ListLen + 3 => U[i] = "put"
                      /\ n = ListLen + 2 => U[i] = "clear"
                      /\ n \in 2 .. ListLen + 1 => U[i] = "link"
                      /\ n = 1 => U[i] = "commit"
    BY <1>0, <2>1 DEF LeftOfUpsert
  <2> QED BY <1>0, <1>8, <1>9
<1>11. UpsertPlaylist = U
  BY DEF UpsertPlaylist, U, BL, L, B, C
<1> QED BY <1>0, <1>7, <1>10, <1>11

LEMMA ExportProgram == ExportSeed = <<"read", "open">>
<1> DEFINE R == <<"read">>
           O == <<"open">>
           E == <<"read", "open">>
<1>1. R \in Seq(Steps) /\ Len(R) = 1 /\ R[1] = "read"
  BY DEF Steps, Alone
<1>2. O \in Seq(Steps) /\ Len(O) = 1 /\ O[1] = "open"
  BY DEF Steps
<1>3. E \in Seq(Steps) /\ Len(E) = 2 /\ E[1] = "read" /\ E[2] = "open"
  BY DEF Steps, Alone
<1> HIDE DEF R, O, E
<1> DEFINE X == R \o O
<1>4. /\ X \in Seq(Steps) /\ Len(X) = Len(R) + Len(O)
      /\ \A i \in 1 .. Len(R) : X[i] = R[i]
      /\ \A i \in 1 .. Len(O) : X[Len(R) + i] = O[i]
  BY <1>1, <1>2, Concat
<1> HIDE DEF X
<1>5. Len(X) = 2 /\ X[1] = "read" /\ X[2] = "open"
  BY <1>1, <1>2, <1>4
<1>6. Len(X) = Len(E) /\ \A i \in 1 .. Len(X) : X[i] = E[i]
  BY <1>3, <1>5
<1>7. X = E
  BY <1>3, <1>4, <1>6, SeqEqual
<1> QED BY <1>7 DEF ExportSeed, AdminListTracks, ListPlaylists, X, R, O, E

LEMMA ProvidersFinite == IsFiniteSet(Providers)
<1>1. IsFiniteSet({"local"}) /\ IsFiniteSet({"ia"}) /\ IsFiniteSet({"jamendo"})
  BY FS_Singleton
<1>2. IsFiniteSet({"local"} \cup {"ia"})
  BY <1>1, FS_Union
<1>3. IsFiniteSet(({"local"} \cup {"ia"}) \cup {"jamendo"})
  BY <1>1, <1>2, FS_Union
<1>4. Providers \subseteq ({"local"} \cup {"ia"}) \cup {"jamendo"}
  BY RequestsAssumption
<1> QED BY <1>3, <1>4, FS_Subset

\* What a request begins with is what its kind may have left to do.
LEMMA Programs ==
  ASSUME NEW k \in DOMAIN Handlers, NEW p \in Handlers[k]
  PROVE  Fits(k, p)
<1> USE RequestsAssumption
<1>1. k \in {"featured", "trending", "getLocal", "getForeign", "search", "play", "page",
             "stats", "listTracks", "upsertTrack", "deleteTrack", "bulk", "list",
             "upsert", "remove", "export", "import"}
  BY DEF Handlers
<1>2. CASE k = "upsert"
  <2>1. p = UpsertPlaylist
    BY <1>2 DEF Handlers
  <2> QED BY <1>2, <2>1, UpsertProgram DEF Fits, Listings
<1>3. CASE k \in Listings
  <2>1. p \in {<<"open">>, <<"read", "open">>}
    BY <1>3, ExportProgram DEF Handlers, ListPlaylists, Listings
  <2>2. <<"open">> \in Seq(Steps) /\ <<"read", "open">> \in Seq(Steps)
    BY DEF Steps, Alone
  <2> QED BY <1>3, <2>1, <2>2 DEF Fits, Listings
<1>4. CASE k \notin Listings \cup {"upsert"}
  <2> SUFFICES /\ p \in Seq(Alone)
               /\ k = "search" => \A i \in 1 .. Len(p) : p[i] \in Providers
    <3>1. ASSUME p \in Seq(Alone) PROVE p \in Seq(Steps) /\ \A i \in 1 .. Len(p) : p[i] \in Alone
      BY <3>1, SeqMonotonic, ElementOfSeq DEF Steps
    <3>2. k # "none"
      BY <1>1
    <3> QED BY <1>4, <3>1, <3>2 DEF Fits
  <2>1. CASE k = "search"
    <3>1. p \in [1 .. Cardinality(Providers) -> Providers]
      BY <2>1 DEF Handlers, Search
    <3>2. Providers \subseteq Alone
      BY DEF Alone, Upstreams
    <3>3. Cardinality(Providers) \in Nat
      BY ProvidersFinite, FS_CardinalityType
    <3>4. p \in [1 .. Cardinality(Providers) -> Alone]
      BY <3>1, <3>2
    <3>5. p \in Seq(Alone) /\ p \in Seq(Providers)
      BY <3>1, <3>3, <3>4, SeqDef
    <3> QED BY <3>5, ElementOfSeq
  <2>2. CASE k = "bulk"
    <3>1. p = [i \in 1 .. BulkSize |-> "exec"]
      BY <2>2 DEF Handlers, BulkTracks
    <3>2. p \in Seq(Alone)
      BY <3>1 DEF Alone
    <3> QED BY <2>2, <3>2
  <2>3. CASE k = "getForeign"
    <3>1. \E u \in Providers : p = <<u>>
      BY <2>3 DEF Handlers, GetForeign
    <3>2. p \in Seq(Alone)
      BY <3>1 DEF Alone, Upstreams
    <3> QED BY <2>3, <3>2
  <2>4. CASE k \notin {"search", "bulk", "getForeign"}
    <3>1. p \in {<<"read">>, <<"exec">>, <<"drop">>, <<"row", "links">>, <<"rutracker">>,
                 <<"read", "read", "read", "read">>}
      BY <1>1, <1>4, <2>4 DEF Listings, Handlers, Featured, Trending, GetLocal, RecordPlay,
        PlaylistTracks, AdminStats, AdminListTracks, UpsertTrack, DeleteTrack,
        DeletePlaylist, ImportRutracker
    <3>2. /\ <<"read">> \in Seq(Alone) /\ <<"exec">> \in Seq(Alone)
          /\ <<"drop">> \in Seq(Alone) /\ <<"rutracker">> \in Seq(Alone)
      BY DEF Alone, Upstreams
    <3>3. <<"row", "links">> \in Seq(Alone) /\ <<"read", "read", "read", "read">> \in Seq(Alone)
      BY DEF Alone, Upstreams
    <3>4. p \in Seq(Alone)
      BY <3>1, <3>2, <3>3
    <3> QED BY <2>4, <3>4
  <2> QED BY <2>1, <2>2, <2>3, <2>4
<1> QED BY <1>2, <1>3, <1>4

LEMMA FitsEmpty == \A k : Fits(k, <<>>)
  BY RequestsAssumption DEF Fits, LeftOfUpsert

\* A sequence with something in it, and what follows its head.
LEMMA HeadAndTail ==
  ASSUME NEW S, NEW t \in Seq(S), t # <<>>
  PROVE  /\ Len(t) \in Nat \ {0}
         /\ Head(t) = t[1] /\ Head(t) \in S
         /\ Tail(t) \in Seq(S)
         /\ Len(Tail(t)) = Len(t) - 1
         /\ \A i \in 1 .. Len(t) - 1 : Tail(t)[i] = t[i + 1]
         /\ Tail(t) = <<>> <=> Len(t) = 1
         /\ Tail(t) # <<>> => Head(Tail(t)) = t[2]
<1>1. Len(t) \in Nat \ {0} /\ Head(t) = t[1] /\ Tail(t) \in Seq(S)
      /\ Len(Tail(t)) = Len(t) - 1
  BY EmptySeq
<1>2. \A i \in 1 .. Len(t) - 1 : Tail(t)[i] = t[i + 1]
  BY HeadTailProperties, <1>1
<1>3. Tail(t) = <<>> <=> Len(t) = 1
  <2> DEFINE u == Tail(t)
  <2>1. u \in Seq(S) /\ (u = <<>> <=> Len(u) = 0)
    <3>1. u \in Seq(S) 
      BY <1>1
    <3> HIDE DEF u
    <3> QED BY <3>1, EmptySeq
  <2> QED BY <1>1, <2>1
<1>4. Tail(t) # <<>> => Head(Tail(t)) = t[2]
  <2>1. Tail(t) # <<>> => Len(Tail(t)) > 0 /\ Head(Tail(t)) = Tail(t)[1]
    BY <1>1, <1>3
  <2> QED BY <1>1, <1>2, <2>1
<1> QED BY <1>1, <1>2, <1>3, <1>4

\* What is left of a listing, spelt out.
LEMMA ListingTails ==
  /\ Tail(<<"close">>) = <<>>
  /\ Tail(<<"each", "close">>) = <<"close">>
  /\ Tail(<<"open">>) = <<>>
  /\ Tail(<<"read", "open">>) = <<"open">>
  /\ Head(<<"close">>) = "close"
  /\ Head(<<"each", "close">>) = "each"
  /\ Head(<<"open">>) = "open"
  /\ Head(<<"read", "open">>) = "read"
  OBVIOUS

\* Taking a step leaves something the kind may have left to do.
LEMMA FitsTail ==
  ASSUME NEW k, NEW t, Fits(k, t), t # <<>>
  PROVE  Fits(k, Tail(t))
<1>1. /\ Len(t) \in Nat \ {0} /\ Tail(t) \in Seq(Steps) /\ Len(Tail(t)) = Len(t) - 1
      /\ \A i \in 1 .. Len(t) - 1 : Tail(t)[i] = t[i + 1]
  BY HeadAndTail DEF Fits
<1>2. k = "upsert" => LeftOfUpsert(Tail(t))
  <2> SUFFICES ASSUME LeftOfUpsert(t) PROVE LeftOfUpsert(Tail(t))
    BY DEF Fits
  <2> DEFINE m == Len(t) - 1
             u == Tail(t)
  <2>1. m \in Nat /\ Len(t) = m + 1 /\ Len(u) = m /\ \A i \in 1 .. m : u[i] = t[i + 1]
    BY <1>1
  <2> HIDE DEF m, u
  <2>2. ListLen \in Nat /\ m <= ListLen + 4
    BY <2>1, RequestsAssumption DEF LeftOfUpsert
  <2> SUFFICES ASSUME NEW i \in 1 .. m
               PROVE  LET n == m + 1 - i IN
                      /\ n = ListLen + 4 => u[i] = "begin"
                      /\ n = ListLen + 3 => u[i] = "put"
                      /\ n = ListLen + 2 => u[i] = "clear"
                      /\ n \in 2 .. ListLen + 1 => u[i] = "link"
                      /\ n = 1 => u[i] = "commit"
    BY <2>1, <2>2 DEF LeftOfUpsert, u
  <2>3. i + 1 \in 1 .. Len(t) /\ Len(t) + 1 - (i + 1) = m + 1 - i /\ u[i] = t[i + 1]
    BY <2>1
  <2> QED BY <2>1, <2>2, <2>3 DEF LeftOfUpsert
<1>3. k \in Listings => Tail(t) \in {<<>>, <<"close">>, <<"open">>}
  BY ListingTails DEF Fits
<1>4. k \notin Listings \cup {"upsert"} => \A i \in 1 .. Len(Tail(t)) : Tail(t)[i] \in Alone
  BY <1>1 DEF Fits
<1> QED BY <1>1, <1>2, <1>3, <1>4 DEF Fits

\* What the next step tells of the kind, and of the step after it.
LEMMA NextStep ==
  ASSUME NEW k, NEW t, Fits(k, t), t # <<>>
  PROVE  /\ Head(t) \in Steps
         /\ k = "upsert" <=> Head(t) \in {"begin", "put", "clear", "link", "commit"}
         /\ k \in Listings /\ IsInside(t) => Head(t) \in {"each", "close"}
         /\ Head(t) \in {"open", "each", "close"} => k \in Listings
         /\ Head(t) \in {"open", "close", "commit"} => Tail(t) = <<>>
         /\ Head(t) \in {"begin", "put", "clear", "link"} => IsInside(Tail(t))
         /\ Head(t) \in Alone => ~IsInside(Tail(t))
         /\ Head(t) = "each" => Tail(t) = <<"close">>
<1>1. /\ Len(t) \in Nat \ {0} /\ Head(t) = t[1] /\ Head(t) \in Steps
      /\ Tail(t) = <<>> <=> Len(t) = 1
      /\ Tail(t) # <<>> => Head(Tail(t)) = t[2]
  BY HeadAndTail DEF Fits
<1> USE DEF Alone, Inside, Upstreams, Listings, IsInside
<1>2. CASE k = "upsert"
  <2>1. LeftOfUpsert(t) /\ Len(t) \in 1 .. ListLen + 4
    BY <1>1, <1>2 DEF Fits, LeftOfUpsert
  <2>2. /\ Len(t) = ListLen + 4 => t[1] = "begin"
        /\ Len(t) = ListLen + 3 => t[1] = "put"
        /\ Len(t) = ListLen + 2 => t[1] = "clear"
        /\ Len(t) \in 2 .. ListLen + 1 => t[1] = "link"
        /\ Len(t) = 1 => t[1] = "commit"
    <3>1. 1 \in 1 .. Len(t) /\ Len(t) + 1 - 1 = Len(t)
      BY <2>1, RequestsAssumption
    <3> QED BY <2>1, <3>1 DEF LeftOfUpsert
  <2>3. ASSUME Len(t) > 1 PROVE t[2] \in {"put", "clear", "link", "commit"}
    <3>1. Len(t) + 1 - 2 \in 1 .. ListLen + 3 /\ 2 \in 1 .. Len(t) /\ ListLen \in Nat
      BY <2>1, <2>3, RequestsAssumption
    <3> DEFINE n == Len(t) + 1 - 2
    <3>2. /\ n = ListLen + 3 => t[2] = "put"
          /\ n = ListLen + 2 => t[2] = "clear"
          /\ n \in 2 .. ListLen + 1 => t[2] = "link"
          /\ n = 1 => t[2] = "commit"
      BY <2>1, <3>1 DEF LeftOfUpsert
    <3> HIDE DEF n
    <3>3. n \in 1 .. ListLen + 3
      BY <3>1 DEF n
    <3> QED BY <3>1, <3>2, <3>3
  <2> DEFINE n == Len(t)
  <2>4. n \in 1 .. ListLen + 4 /\ ListLen \in Nat
    BY <2>1, RequestsAssumption
  <2>5. /\ n = ListLen + 4 => t[1] = "begin"
        /\ n = ListLen + 3 => t[1] = "put"
        /\ n = ListLen + 2 => t[1] = "clear"
        /\ n \in 2 .. ListLen + 1 => t[1] = "link"
        /\ n = 1 => t[1] = "commit"
    BY <2>2
  <2> HIDE DEF n
  <2>6. t[1] \in {"begin", "put", "clear", "link", "commit"} /\ (t[1] = "commit" <=> n = 1)
    <3>1. n = 1 \/ n \in 2 .. ListLen + 1 \/ n = ListLen + 2 \/ n = ListLen + 3 \/ n = ListLen + 4
      BY <2>4
    <3>2. n \in 2 .. ListLen + 1 \/ n = ListLen + 2 \/ n = ListLen + 3 \/ n = ListLen + 4 => n # 1
      BY <2>4
    <3> QED BY <2>5, <3>1, <3>2
  <2>7. n # 1 => n > 1
    BY <2>4
  <2> QED BY <1>1, <1>2, <2>3, <2>6, <2>7 DEF n
<1>3. CASE k \in Listings
  <2>1. t \in {<<"close">>, <<"each", "close">>, <<"open">>, <<"read", "open">>}
    BY <1>3 DEF Fits
  <2> QED BY <1>3, <2>1, <1>1, ListingTails
<1>4. CASE k \notin Listings \cup {"upsert"}
  <2>1. \A i \in 1 .. Len(t) : t[i] \in Alone
    BY <1>4 DEF Fits
  <2>2. Head(t) \in Alone /\ (Len(t) > 1 => t[2] \in Alone)
    BY <1>1, <2>1
  <2> QED BY <1>1, <1>4, <2>2
<1> QED BY <1>2, <1>3, <1>4

-----------------------------------------------------------------------------
(* The inductive invariant. *)

\* Every function has its domain, and what is left to do fits the kind.
Shape ==
  /\ TypeOK
  /\ todo \in [Requests -> Seq(Steps)]
  /\ \A r \in Requests : Fits(kind[r], todo[r])

\* The holder is the one request that is inside the connection.
HolderInside == \A r \in Requests : IsInside(todo[r]) <=> holder = r

\* ls is empty, or the list of one writer who was answered with success by a.
WholeBy(ls, a) ==
  ls = {} \/ \E w \in Writers : ls = Full(w) /\ (w = Seed \/ a[w] = "ok")

\* The playlist is whole; inside a transaction what it is rolled back to is,
\* and what stands there is as far as the holder has come.
ListsWhole ==
  IF holder # Nobody /\ kind[holder] = "upsert"
    THEN /\ WholeBy(saved.links, answer)
         /\ Len(todo[holder]) <= ListLen + 1 =>
              links = {holder} \X (0 .. ListLen - Len(todo[holder]))
    ELSE WholeBy(links, answer)

ShownWhole == \A r \in Requests : WholeBy(shown[r], answer)

Slow(r) == {u \in Upstreams : spent[r][u] > 0}

\* A search has the local results, or comes to them, or was held up.
LocalToCome ==
  \A r \in Requests :
    kind[r] = "search" /\ answer[r] \in {"pending", "ok"} /\ "local" \in Providers =>
      \/ "local" \in found[r]
      \/ \E i \in 1 .. Len(todo[r]) : todo[r][i] = "local"
      \/ Cardinality(Slow(r)) > 1
      \/ AListingStalled

\* Where the age of a search comes from, and who has none.
TimeSpent ==
  \A r \in Requests :
    /\ answer[r] = "idle" => age[r] = 0 /\ \A u \in Upstreams : spent[r][u] = 0
    /\ \A u \in Upstreams : spent[r][u] <= Timeout[u]
    /\ kind[r] = "search" =>
         /\ \A u \in Upstreams \ Providers : spent[r][u] = 0
         /\ AListingStalled \/ age[r] <= spent[r]["ia"] + spent[r]["jamendo"]

IInv == /\ Shape /\ HolderInside /\ ListsWhole /\ ShownWhole
        /\ OnlyListingsStall /\ LocalToCome /\ TimeSpent

-----------------------------------------------------------------------------
(* The state as a whole keeps its shape. *)

\* What is left of a playlist transaction tells how far it is.
LEMMA UpsertLength ==
  ASSUME NEW t, Fits("upsert", t), t # <<>>
  PROVE  /\ Len(t) \in 1 .. ListLen + 4
         /\ Head(t) = "begin" => Len(t) = ListLen + 4
         /\ Head(t) = "put" => Len(t) = ListLen + 3
         /\ Head(t) = "clear" => Len(t) = ListLen + 2
         /\ Head(t) = "link" => Len(t) \in 2 .. ListLen + 1
         /\ Head(t) = "commit" => Len(t) = 1
<1> DEFINE n == Len(t)
<1>1. n \in Nat \ {0} /\ Head(t) = t[1] /\ ListLen \in Nat
  BY HeadAndTail, RequestsAssumption DEF Fits
<1>2. n <= ListLen + 4
  BY DEF Fits, LeftOfUpsert
<1>3. /\ n = ListLen + 4 => t[1] = "begin"
      /\ n = ListLen + 3 => t[1] = "put"
      /\ n = ListLen + 2 => t[1] = "clear"
      /\ n \in 2 .. ListLen + 1 => t[1] = "link"
      /\ n = 1 => t[1] = "commit"
  BY <1>1 DEF Fits, LeftOfUpsert
<1> HIDE DEF n
<1>4. n = 1 \/ n \in 2 .. ListLen + 1 \/ n = ListLen + 2 \/ n = ListLen + 3 \/ n = ListLen + 4
  BY <1>1, <1>2
<1>5. n \in 1 .. ListLen + 4
  BY <1>1, <1>2
<1> QED BY <1>1, <1>3, <1>4, <1>5 DEF n

\* What is left to do once the result set of the playlists is open.
LEMMA OpenedProgram ==
  /\ <<"each">> \o <<"close">> \o <<>> = <<"each", "close">>
  /\ <<>> \o <<"close">> \o <<>> = <<"close">>
<1> DEFINE E == <<"each">>
           C == <<"close">>
           EC == <<"each", "close">>
<1>1. E \in Seq(Steps) /\ Len(E) = 1 /\ E[1] = "each"
  BY DEF Steps, Inside
<1>2. C \in Seq(Steps) /\ Len(C) = 1 /\ C[1] = "close"
  BY DEF Steps, Inside
<1>3. EC \in Seq(Steps) /\ Len(EC) = 2 /\ EC[1] = "each" /\ EC[2] = "close"
  BY DEF Steps, Inside
<1> HIDE DEF E, C, EC
<1> DEFINE X == E \o C
<1>4. /\ X \in Seq(Steps) /\ Len(X) = Len(E) + Len(C)
      /\ \A i \in 1 .. Len(E) : X[i] = E[i]
      /\ \A i \in 1 .. Len(C) : X[Len(E) + i] = C[i]
  BY <1>1, <1>2, Concat
<1>5. <<>> \o C = C
  BY <1>2, ConcatEmptySeq
<1> HIDE DEF X
<1>6. Len(X) = 2 /\ X[1] = "each" /\ X[2] = "close"
  BY <1>1, <1>2, <1>4
<1>7. Len(X) = Len(EC) /\ \A i \in 1 .. Len(X) : X[i] = EC[i]
  BY <1>3, <1>6
<1>8. X = EC
  BY <1>3, <1>4, <1>7, SeqEqual
<1>9. X \o <<>> = X /\ C \o <<>> = C
  BY <1>2, <1>4, ConcatEmptySeq
<1> QED BY <1>5, <1>8, <1>9 DEF X, E, C, EC

\* Request r alone has gone on, or has been answered.
GoesOn(r) ==
  /\ todo' \in [Requests -> Seq(Steps)]
  /\ answer' \in [Requests -> Answers]
  /\ \A q \in Requests \ {r} : todo'[q] = todo[q] /\ answer'[q] = answer[q]
  /\ Fits(kind[r], todo'[r])
  /\ answer'[r] # "idle" /\ (answer'[r] = "pending" <=> todo'[r] # <<>>)
  /\ todo[r] # <<>> /\ answer[r] = "pending"

LEMMA Proceeded ==
  ASSUME Shape, NEW r \in Requests, todo[r] # <<>>,
         NEW rest, Fits(kind[r], rest), Proceed(r, rest)
  PROVE  /\ GoesOn(r) /\ todo'[r] = rest
         /\ answer'[r] = IF rest = <<>> THEN "ok" ELSE "pending"
<1>1. answer[r] = "pending" /\ rest \in Seq(Steps) /\ answer \in [Requests -> Answers]
      /\ todo \in [Requests -> Seq(Steps)]
  BY DEF Shape, TypeOK, Fits
<1>2. todo' = [todo EXCEPT ![r] = rest]
  BY DEF Proceed
<1>3. answer' = [answer EXCEPT ![r] = IF rest = <<>> THEN "ok" ELSE "pending"]
  BY <1>1 DEF Proceed
<1> QED BY <1>1, <1>2, <1>3 DEF GoesOn, Answers

LEMMA Returned ==
  ASSUME Shape, NEW r \in Requests, todo[r] # <<>>,
         NEW a \in Answers \ {"idle", "pending"}, Return(r, a)
  PROVE  GoesOn(r) /\ todo'[r] = <<>> /\ answer'[r] = a
<1>1. answer[r] = "pending" /\ <<>> \in Seq(Steps) /\ answer \in [Requests -> Answers]
      /\ todo \in [Requests -> Seq(Steps)]
  BY EmptySeq DEF Shape, TypeOK
<1> QED BY <1>1, FitsEmpty DEF GoesOn, Return

\* Taking the next step.
LEMMA Tails ==
  ASSUME Shape, NEW r \in Requests, NEW s, At(r, s)
  PROVE  /\ todo[r] # <<>> /\ Head(todo[r]) = s /\ answer[r] = "pending"
         /\ Fits(kind[r], todo[r]) /\ Fits(kind[r], Tail(todo[r]))
  BY FitsTail DEF Shape, TypeOK, At

LEMMA Took ==
  ASSUME Shape, NEW r \in Requests, NEW s, At(r, s), Proceed(r, Tail(todo[r]))
  PROVE  /\ GoesOn(r) /\ todo'[r] = Tail(todo[r])
         /\ answer'[r] = IF todo'[r] = <<>> THEN "ok" ELSE "pending"
  BY Tails, Proceeded


\* The shape of the rest, whoever moves.
LEMMA Moves ==
  ASSUME Shape, NEW r \in Requests, Step(r)
  PROVE  GoesOn(r) /\ UNCHANGED <<kind, age, spent>>
<1> USE DEF seen, list
<1>1. CASE Statement(r)
  BY <1>1, Took DEF Statement
<1>2. CASE SearchLocal(r)
  BY <1>2, Took DEF SearchLocal
<1>3. CASE ReadRow(r)
  <2>1. At(r, "row") /\ (Proceed(r, Tail(todo[r])) \/ Return(r, "missing"))
    BY <1>3 DEF ReadRow
  <2> QED BY <1>3, <2>1, Took, Tails, Returned DEF ReadRow, Answers
<1>4. CASE ReadLinks(r)
  BY <1>4, Took DEF ReadLinks
<1>5. CASE Drop(r)
  <2>1. At(r, "drop") /\ (Proceed(r, Tail(todo[r])) \/ Return(r, "missing"))
    BY <1>5 DEF Drop
  <2> QED BY <1>5, <2>1, Took, Tails, Returned DEF Drop, Answers
<1>6. CASE NotFound(r)
  <2>1. (\E s : At(r, s)) /\ Return(r, "missing")
    BY <1>6 DEF NotFound
  <2> QED BY <1>6, <2>1, Tails, Returned DEF NotFound, Answers
<1>7. CASE Open(r)
  <2>1. At(r, "open")
    BY <1>7 DEF Open
  <2>2. todo[r] # <<>> /\ kind[r] \in Listings /\ Tail(todo[r]) = <<>>
    BY <2>1, Tails, NextStep
  <2>3. Proceed(r, <<"each", "close">>) \/ Proceed(r, <<"close">>)
    BY <1>7, <2>2, OpenedProgram DEF Open
  <2>4. <<"each", "close">> \in Seq(Steps) /\ <<"close">> \in Seq(Steps)
    BY DEF Steps, Inside
  <2>5. kind[r] # "none" /\ kind[r] # "upsert" /\ kind[r] # "search"
    BY <2>2 DEF Listings
  <2>6. Fits(kind[r], <<"each", "close">>) /\ Fits(kind[r], <<"close">>)
    BY <2>2, <2>4, <2>5 DEF Fits
  <2> QED BY <1>7, <2>2, <2>3, <2>6, Proceeded DEF Open
<1>8. CASE Close(r)
  BY <1>8, Took DEF Close
<1>9. CASE Begin(r)
  BY <1>9, Took DEF Begin
<1>10. CASE Put(r)
  BY <1>10, Took DEF Put
<1>11. CASE Clear(r)
  BY <1>11, Took DEF Clear
<1>12. CASE Link(r)
  BY <1>12, Took DEF Link
<1>13. CASE Commit(r)
  BY <1>13, Took DEF Commit
<1>14. CASE WriteFails(r)
  <2>1. (\E s : At(r, s)) /\ (Proceed(r, Tail(todo[r])) \/ Return(r, "failed"))
    BY <1>14 DEF WriteFails
  <2> QED BY <1>14, <2>1, Took, Tails, Returned DEF WriteFails, Answers
<1>15. CASE Replies(r)
  BY <1>15, Took DEF Replies
<1>16. CASE UpstreamFails(r)
  <2>1. (\E s : At(r, s)) /\ (Proceed(r, Tail(todo[r])) \/ Return(r, "failed"))
    BY <1>16 DEF UpstreamFails
  <2> QED BY <1>16, <2>1, Took, Tails, Returned DEF UpstreamFails, Answers
<1>17. CASE Expire(r)
  <2>1. todo[r] # <<>> /\ (Return(r, "ok") \/ Return(r, "late"))
    BY <1>17 DEF Expire, Shape, TypeOK
  <2> QED BY <1>17, <2>1, Returned DEF Expire, Answers
<1> QED BY <1>1, <1>2, <1>3, <1>4, <1>5, <1>6, <1>7, <1>8, <1>9, <1>10, <1>11, <1>12,
           <1>13, <1>14, <1>15, <1>16, <1>17 DEF Step

\* How the connection changes hands: r leaves it alone, takes it or gives it back.
HandOver(r) ==
  \/ holder' = holder /\ (IsInside(todo'[r]) <=> IsInside(todo[r]))
  \/ holder = Nobody /\ holder' = r /\ IsInside(todo'[r])
  \/ holder = r /\ holder' = Nobody /\ ~IsInside(todo'[r])

LEMMA HolderMoves ==
  ASSUME Shape, HolderInside, NEW r \in Requests, Step(r)
  PROVE  HandOver(r)
<1> USE DEF seen, list
<1>0. IsInside(todo[r]) <=> holder = r
  BY DEF HolderInside
<1>a. ~IsInside(<<>>) /\ Nobody # r
  BY RequestsAssumption DEF IsInside
<1>b. ASSUME NEW s, At(r, s), Proceed(r, Tail(todo[r])), s \in Alone, holder' = holder
      PROVE  HandOver(r)
  <2>1. ~IsInside(todo[r])
    BY <1>b, Tails DEF IsInside, Alone, Inside, Upstreams
  <2>2. ~IsInside(todo'[r])
    BY <1>b, Tails, NextStep, Took
  <2> QED BY <1>b, <2>1, <2>2 DEF HandOver
<1>c. ASSUME NEW s, At(r, s), Return(r, "missing") \/ Return(r, "failed"),
             s \in Alone, holder' = holder
      PROVE  HandOver(r)
  <2>1. ~IsInside(todo[r])
    BY <1>c, Tails DEF IsInside, Alone, Inside, Upstreams
  <2>2. todo'[r] = <<>>
    BY <1>c, Tails, Returned DEF Answers
  <2> QED BY <1>a, <1>c, <2>1, <2>2 DEF HandOver
<1>d. ASSUME NEW s, At(r, s), Proceed(r, Tail(todo[r])), s \in {"put", "clear", "link"},
             holder' = holder
      PROVE  HandOver(r)
  <2>1. IsInside(todo[r])
    BY <1>d, Tails DEF IsInside, Inside
  <2>2. IsInside(todo'[r])
    BY <1>d, Tails, NextStep, Took
  <2> QED BY <1>d, <2>1, <2>2 DEF HandOver
<1>e. ASSUME NEW s, At(r, s), Proceed(r, Tail(todo[r])), s \in {"close", "commit"},
             holder' = Nobody
      PROVE  HandOver(r)
  <2>1. IsInside(todo[r])
    BY <1>e, Tails DEF IsInside, Inside
  <2>2. todo'[r] = <<>>
    <3>1. todo'[r] = Tail(todo[r]) /\ todo[r] # <<>> /\ Head(todo[r]) = s
      BY <1>e, Tails, Took
    <3>2. Fits(kind[r], todo[r])
      BY <1>e, Tails
    <3> QED BY <1>e, <3>1, <3>2, NextStep
  <2> QED BY <1>0, <1>a, <1>e, <2>1, <2>2 DEF HandOver
<1>f. ASSUME todo'[r] = <<>>, holder' = IF holder = r THEN Nobody ELSE holder
      PROVE  HandOver(r)
  BY <1>0, <1>a, <1>f DEF HandOver
<1>1. CASE Statement(r)
  <2>1. PICK s \in {"read", "exec", "each"} : At(r, s)
    BY <1>1 DEF Statement
  <2>2. s # "each"
    BY <1>0, <1>1, <1>a, <2>1, Tails DEF Statement, IsInside, Inside
  <2> QED BY <1>1, <1>b, <2>1, <2>2 DEF Statement, Alone
<1>2. CASE SearchLocal(r)
  <2>1. At(r, "local")
    BY <1>2 DEF SearchLocal
  <2>2. "local" \in Alone
    BY <2>1, Tails, NextStep DEF Steps, Inside
  <2> QED BY <1>2, <1>b, <2>2 DEF SearchLocal
<1>3. CASE ReadRow(r)
  BY <1>3, <1>b, <1>c DEF ReadRow, Alone
<1>4. CASE ReadLinks(r)
  BY <1>4, <1>b DEF ReadLinks, Alone
<1>5. CASE Drop(r)
  BY <1>5, <1>b, <1>c DEF Drop, Alone
<1>6. CASE NotFound(r)
  BY <1>6, <1>c DEF NotFound, Alone
<1>7. CASE Open(r)
  <2>1. At(r, "open")
    BY <1>7 DEF Open
  <2>2. Tail(todo[r]) = <<>>
    BY <2>1, Tails, NextStep
  <2>3. todo' = [todo EXCEPT ![r] = <<"each", "close">>] \/ todo' = [todo EXCEPT ![r] = <<"close">>]
    BY <1>7, <2>2, OpenedProgram DEF Open, Proceed
  <2>4. todo'[r] = <<"each", "close">> \/ todo'[r] = <<"close">>
    BY <2>3 DEF Shape
  <2>5. IsInside(<<"each", "close">>) /\ IsInside(<<"close">>)
    BY ListingTails DEF IsInside, Inside
  <2> QED BY <1>7, <2>4, <2>5 DEF HandOver, Open
<1>8. CASE Close(r)
  BY <1>8, <1>e DEF Close
<1>9. CASE Begin(r)
  <2>1. IsInside(todo'[r])
    BY <1>9, Tails, NextStep, Took DEF Begin
  <2> QED BY <1>9, <2>1 DEF Begin, HandOver
<1>10. CASE Put(r)
  BY <1>10, <1>d DEF Put
<1>11. CASE Clear(r)
  BY <1>11, <1>d DEF Clear
<1>12. CASE Link(r)
  BY <1>12, <1>d DEF Link
<1>13. CASE Commit(r)
  BY <1>13, <1>e DEF Commit
<1>14. CASE WriteFails(r)
  <2>1. PICK s \in {"exec", "begin", "put", "clear", "link", "commit"} : At(r, s)
    BY <1>14 DEF WriteFails
  <2>2. CASE kind[r] \in Tolerant
    <3>1. s = "exec"
      BY <2>1, <2>2, Tails, NextStep DEF Tolerant
    <3>2. ~IsInside(todo[r])
      BY <2>1, <3>1, Tails DEF IsInside, Inside
    <3> QED BY <1>0, <1>14, <1>b, <2>1, <2>2, <3>1, <3>2 DEF WriteFails, Release, Alone
  <2>3. CASE kind[r] \notin Tolerant
    <3>1. todo'[r] = <<>>
      BY <1>14, <2>1, <2>3, Tails, Returned DEF WriteFails, Answers
    <3> QED BY <1>14, <1>f, <3>1 DEF WriteFails, Release
  <2> QED BY <2>2, <2>3
<1>15. CASE Replies(r)
  BY <1>15, <1>b DEF Replies, Alone
<1>16. CASE UpstreamFails(r)
  BY <1>16, <1>b, <1>c DEF UpstreamFails, Alone
<1>17. CASE Expire(r)
  <2>1. todo[r] # <<>> /\ (Return(r, "ok") \/ Return(r, "late"))
    BY <1>17 DEF Expire, Shape, TypeOK
  <2>2. todo'[r] = <<>>
    BY <2>1, Returned DEF Answers
  <2> QED BY <1>17, <1>f, <2>2 DEF Expire, Release
<1> QED BY <1>1, <1>2, <1>3, <1>4, <1>5, <1>6, <1>7, <1>8, <1>9, <1>10, <1>11, <1>12,
           <1>13, <1>14, <1>15, <1>16, <1>17 DEF Step

LEMMA HolderKept ==
  ASSUME Shape, HolderInside, NEW r \in Requests, GoesOn(r), HandOver(r)
  PROVE  HolderInside' /\ holder' \in Requests \cup {Nobody}
<1>1. holder \in Requests \cup {Nobody} /\ Nobody \notin Requests
  BY RequestsAssumption DEF Shape, TypeOK
<1>2. \A q \in Requests \ {r} : IsInside(todo'[q]) <=> holder = q
  BY DEF GoesOn, HolderInside
<1>3. IsInside(todo[r]) <=> holder = r
  BY DEF HolderInside
<1>4. HolderInside' <=> \A q \in Requests : IsInside(todo'[q]) <=> holder' = q
  BY DEF HolderInside, IsInside
<1> QED BY <1>1, <1>2, <1>3, <1>4 DEF HandOver


-----------------------------------------------------------------------------
(* The playlist and the pages. *)

\* A list stays whole as long as nobody's success is taken back.
LEMMA WholeStays ==
  ASSUME NEW ls, NEW a, NEW b, \A w \in Requests : a[w] = "ok" => b[w] = "ok", WholeBy(ls, a)
  PROVE  WholeBy(ls, b)
  BY DEF WholeBy, Writers

LEMMA FullLists ==
  /\ \A w \in Writers : Full(w) \subseteq AllLinks
  /\ \A ls, a : WholeBy(ls, a) => ls \subseteq AllLinks
  BY DEF Full, AllLinks, WholeBy

\* The links a transaction has put in so far, and how many they are.
LEMMA LinksSoFar ==
  ASSUME NEW r \in Requests, NEW m \in 0 .. ListLen
  PROVE  /\ Cardinality({r} \X (0 .. m - 1)) = m
         /\ {r} \X (0 .. m - 1) \cup {<<r, m>>} = {r} \X (0 .. m)
         /\ m = ListLen => {r} \X (0 .. m - 1) = Full(r)
         /\ {r} \X (0 .. m - 1) \subseteq AllLinks
<1>1. m \in Nat /\ ListLen \in Nat
  BY RequestsAssumption
<1>2. IsFiniteSet(0 .. m - 1) /\ Cardinality(0 .. m - 1) = m
  BY <1>1, FS_Interval
<1>3. IsFiniteSet({r}) /\ Cardinality({r}) = 1
  BY FS_Singleton
<1>4. Cardinality({r} \X (0 .. m - 1)) = 1 * m
  BY <1>2, <1>3, FS_Product, ZenonT(60)
<1>5. {r} \X (0 .. m - 1) \cup {<<r, m>>} = {r} \X (0 .. m)
  BY <1>1
<1>6. {r} \X (0 .. m - 1) \subseteq AllLinks
  BY <1>1 DEF AllLinks, Writers
<1> QED BY <1>1, <1>4, <1>5, <1>6 DEF Full

\* The statement leaves the playlist alone, and r is not the holder.
LEMMA ListsAside ==
  ASSUME Shape, HolderInside, ListsWhole, NEW r \in Requests, GoesOn(r),
         holder # r, UNCHANGED <<holder, kind, list>>
  PROVE  ListsWhole'
<1>1. \A w \in Requests : answer[w] = "ok" => answer'[w] = "ok"
  BY DEF GoesOn
<1>2. holder # Nobody => todo'[holder] = todo[holder]
  BY DEF GoesOn, Shape, TypeOK
<1>3. \A ls : WholeBy(ls, answer) => WholeBy(ls, answer')
  BY <1>1, WholeStays
<1>4. links' = links /\ saved' = saved
  BY DEF list
<1> HIDE DEF GoesOn
<1> QED BY <1>2, <1>3, <1>4 DEF ListsWhole

LEMMA ListsMove ==
  ASSUME Shape, HolderInside, ListsWhole, NEW r \in Requests, Step(r)
  PROVE  /\ ListsWhole'
         /\ exists' \in BOOLEAN /\ links' \subseteq AllLinks
         /\ saved' \in [exists : BOOLEAN, links : SUBSET AllLinks]
<1>0. GoesOn(r) /\ HandOver(r) /\ kind' = kind
  BY Moves, HolderMoves
<1>a. /\ \A w \in Requests : answer[w] = "ok" => answer'[w] = "ok"
      /\ \A ls : WholeBy(ls, answer) => WholeBy(ls, answer')
  BY <1>0, WholeStays DEF GoesOn
<1>b. IsInside(todo[r]) <=> holder = r
  BY DEF HolderInside
<1>c. /\ exists \in BOOLEAN /\ links \subseteq AllLinks
      /\ saved \in [exists : BOOLEAN, links : SUBSET AllLinks]
      /\ saved.links \subseteq AllLinks /\ saved.exists \in BOOLEAN
  BY DEF Shape, TypeOK
<1>d. Nobody # r /\ ListLen \in Nat
  BY RequestsAssumption
<1>e. Fits(kind[r], todo[r]) /\ todo[r] # <<>> /\ todo' \in [Requests -> Seq(Steps)]
  BY <1>0 DEF Shape, GoesOn
<1>f. ASSUME holder # r, UNCHANGED <<holder, list>>
      PROVE  ListsWhole' /\ UNCHANGED <<exists, links, saved>>
  BY <1>0, <1>f, ListsAside DEF list
<1> HIDE DEF GoesOn
<1>g. CASE UNCHANGED <<holder, list>> /\ holder # r
  BY <1>c, <1>f, <1>g
<1>h. CASE /\ holder = r /\ holder' = Nobody /\ saved' = saved
           /\ IF kind[r] = "upsert" THEN exists' = saved.exists /\ links' = saved.links
                                    ELSE UNCHANGED <<exists, links>>
  <2>1. WholeBy(links', answer)
    BY <1>d, <1>h DEF ListsWhole
  <2>2. ListsWhole'
    BY <1>a, <1>h, <2>1 DEF ListsWhole
  <2> QED BY <1>c, <1>h, <2>2
<1>i. CASE Release(r)
  <2>1. CASE holder = r
    BY <1>h, <1>i, <2>1 DEF Release
  <2>2. CASE holder # r
    BY <1>g, <1>i, <2>2 DEF Release, list
  <2> QED BY <2>1, <2>2
<1>1. CASE Statement(r) \/ SearchLocal(r) \/ ReadRow(r) \/ ReadLinks(r) \/ NotFound(r)
  <2>1. holder # r
    <3>1. CASE holder = Nobody
      BY <1>d, <3>1
    <3>2. CASE NotFound(r) /\ \E u \in Upstreams : At(r, u)
      BY <1>b, <3>2, Tails DEF IsInside, Inside, Upstreams
    <3> QED BY <1>1, <3>1, <3>2 DEF Statement, SearchLocal, ReadRow, ReadLinks, NotFound
  <2>2. UNCHANGED <<holder, list>>
    BY <1>1 DEF Statement, SearchLocal, ReadRow, ReadLinks, NotFound
  <2> QED BY <1>g, <2>1, <2>2
<1>2. CASE Drop(r)
  <2>1. exists' = FALSE /\ links' = {} /\ saved' = saved /\ holder' = Nobody
    BY <1>2 DEF Drop
  <2>2. ListsWhole'
    BY <2>1 DEF ListsWhole, WholeBy
  <2> QED BY <1>c, <2>1, <2>2
<1>3. CASE Open(r)
  <2>1. At(r, "open") /\ holder = Nobody /\ holder' = r /\ UNCHANGED <<exists, links, saved>>
    BY <1>3 DEF Open, list
  <2>2. kind[r] # "upsert"
    BY <2>1, Tails, NextStep DEF Listings
  <2>3. WholeBy(links, answer)
    BY <2>1 DEF ListsWhole
  <2> QED BY <1>0, <1>a, <1>c, <2>1, <2>2, <2>3 DEF ListsWhole
<1>4. CASE Close(r)
  <2>1. At(r, "close") /\ holder' = Nobody /\ UNCHANGED <<exists, links, saved>>
    BY <1>4 DEF Close, list
  <2>2. holder = r /\ kind[r] # "upsert"
    BY <1>b, <2>1, Tails, NextStep DEF Listings, IsInside, Inside
  <2> QED BY <1>h, <2>1, <2>2
<1>5. CASE Begin(r)
  <2>1. At(r, "begin") /\ holder = Nobody /\ holder' = r /\ UNCHANGED <<exists, links>>
        /\ saved' = [exists |-> exists, links |-> links]
    BY <1>5 DEF Begin
  <2>2. kind[r] = "upsert" /\ Head(todo[r]) = "begin"
    BY <2>1, Tails, NextStep
  <2>3. todo'[r] = Tail(todo[r]) /\ Len(todo[r]) = ListLen + 4
    BY <1>5, <1>e, <2>2, Took, UpsertLength DEF Begin
  <2>4. Len(todo'[r]) = ListLen + 3
    BY <1>d, <1>e, <2>3, HeadAndTail DEF Fits
  <2>5. WholeBy(links, answer)
    BY <2>1 DEF ListsWhole
  <2>6. WholeBy(saved'.links, answer')
    BY <1>a, <2>1, <2>5
  <2>7. ~(Len(todo'[r]) <= ListLen + 1)
    BY <1>d, <2>4
  <2>8. ListsWhole'
    BY <1>0, <1>d, <2>1, <2>2, <2>6, <2>7 DEF ListsWhole
  <2> QED BY <1>c, <2>1, <2>8
<1>6. CASE Put(r) \/ Clear(r) \/ Link(r)
  <2>1. PICK s \in {"put", "clear", "link"} :
          At(r, s) /\ Proceed(r, Tail(todo[r]))
    BY <1>6 DEF Put, Clear, Link
  <2>2. kind[r] = "upsert" /\ Head(todo[r]) = s /\ holder = r
    BY <1>b, <2>1, Tails, NextStep DEF IsInside, Inside
  <2>3. todo'[r] = Tail(todo[r])
    BY <2>1, Took
  <2>4. holder' = r /\ saved' = saved
    BY <1>6, <2>2 DEF Put, Clear, Link
  <2>5. WholeBy(saved.links, answer)
        /\ (Len(todo[r]) <= ListLen + 1 => links = {r} \X (0 .. ListLen - Len(todo[r])))
    BY <1>d, <2>2 DEF ListsWhole
  <2>6. Len(todo[r]) \in Nat \ {0} /\ Len(todo'[r]) = Len(todo[r]) - 1
    BY <1>e, <2>3, HeadAndTail DEF Fits
  <2>7. ASSUME Len(todo'[r]) <= ListLen + 1 => links' = {r} \X (0 .. ListLen - Len(todo'[r]))
        PROVE  ListsWhole'
    BY <1>0, <1>a, <1>d, <2>2, <2>4, <2>5, <2>7 DEF ListsWhole
  <2>8. CASE Put(r)
    <3>1. s = "put"
      BY <2>2, <2>8, Tails DEF Put
    <3>2. Len(todo[r]) = ListLen + 3
      BY <1>e, <2>2, <3>1, UpsertLength
    <3>3. ~(Len(todo'[r]) <= ListLen + 1)
      BY <1>d, <2>6, <3>2
    <3> QED BY <1>c, <2>4, <2>7, <2>8, <3>3 DEF Put
  <2>9. CASE Clear(r)
    <3>1. s = "clear"
      BY <2>2, <2>9, Tails DEF Clear
    <3>2. Len(todo[r]) = ListLen + 2
      BY <1>e, <2>2, <3>1, UpsertLength
    <3>3. ListLen - Len(todo'[r]) = -1
      BY <1>d, <2>6, <3>2
    <3>4. {r} \X (0 .. -1) = {}
      OBVIOUS
    <3>5. links' = {} /\ exists' = exists
      BY <2>9 DEF Clear
    <3> QED BY <1>c, <2>4, <2>7, <3>3, <3>4, <3>5
  <2>10. CASE Link(r)
    <3>1. s = "link"
      BY <2>2, <2>10, Tails DEF Link
    <3>2. Len(todo[r]) \in 2 .. ListLen + 1
      BY <1>e, <2>2, <3>1, UpsertLength
    <3> DEFINE m == ListLen + 1 - Len(todo[r])
    <3>3. m \in 0 .. ListLen /\ m + 1 \in 0 .. ListLen /\ ListLen - Len(todo[r]) = m - 1
          /\ ListLen - Len(todo'[r]) = m /\ (m + 1) - 1 = m
      BY <1>d, <2>6, <3>2
    <3>4. links = {r} \X (0 .. m - 1)
      <4>1. Len(todo[r]) <= ListLen + 1
        BY <1>d, <3>2
      <4> QED BY <2>5, <3>3, <4>1
    <3> HIDE DEF m
    <3>5. links' = {r} \X (0 .. m) /\ exists' = exists
      BY <2>10, <3>3, <3>4, LinksSoFar DEF Link
    <3>6. links' \subseteq AllLinks
      BY <3>3, <3>5, LinksSoFar
    <3> QED BY <1>c, <2>4, <2>7, <3>3, <3>5, <3>6
  <2> QED BY <1>6, <2>8, <2>9, <2>10
<1>7. CASE Commit(r)
  <2>1. At(r, "commit") /\ holder' = Nobody /\ UNCHANGED <<exists, links, saved>>
    BY <1>7 DEF Commit, list
  <2>2. kind[r] = "upsert" /\ Head(todo[r]) = "commit" /\ holder = r
    BY <1>b, <2>1, Tails, NextStep DEF IsInside, Inside
  <2>3. Len(todo[r]) = 1 /\ Tail(todo[r]) = <<>>
    BY <1>e, <2>2, UpsertLength, NextStep
  <2>4. answer'[r] = "ok"
    BY <1>7, <2>1, <2>3, Took DEF Commit
  <2>5. links = {r} \X (0 .. ListLen - 1)
    BY <1>d, <2>2, <2>3 DEF ListsWhole
  <2>6. WholeBy(links, answer')
    BY <2>4, <2>5 DEF WholeBy, Full, Writers
  <2> QED BY <1>c, <2>1, <2>6 DEF ListsWhole
<1>8. CASE WriteFails(r) \/ Expire(r)
  BY <1>8, <1>i DEF WriteFails, Expire
<1>9. CASE Replies(r) \/ UpstreamFails(r)
  <2>1. holder # r /\ UNCHANGED <<holder, list>>
    BY <1>9, <1>b, Tails DEF Replies, UpstreamFails, IsInside, Inside, Upstreams
  <2> QED BY <1>g, <2>1
<1> QED BY <1>1, <1>2, <1>3, <1>4, <1>5, <1>6, <1>7, <1>8, <1>9 DEF Step

LEMMA ShownMoves ==
  ASSUME Shape, HolderInside, ListsWhole, ShownWhole, NEW r \in Requests, Step(r)
  PROVE  ShownWhole' /\ shown' \in [Requests -> SUBSET AllLinks]
<1>1. GoesOn(r)
  BY Moves
<1>2. \A ls : WholeBy(ls, answer) => WholeBy(ls, answer')
  BY <1>1, WholeStays DEF GoesOn
<1>3. shown \in [Requests -> SUBSET AllLinks] /\ links \subseteq AllLinks
  BY DEF Shape, TypeOK
<1>4. CASE ReadLinks(r)
  <2>1. holder = Nobody /\ shown' = [shown EXCEPT ![r] = links]
    BY <1>4 DEF ReadLinks
  <2>2. WholeBy(links, answer)
    BY <2>1 DEF ListsWhole
  <2> QED BY <1>2, <1>3, <2>1, <2>2 DEF ShownWhole
<1>5. CASE ~ReadLinks(r)
  <2>1. shown' = shown
    BY <1>5 DEF Step, Statement, SearchLocal, ReadRow, Drop, NotFound, Open, Close, Begin, Put,
      Clear, Link, Commit, WriteFails, Replies, UpstreamFails, Expire, seen
  <2> QED BY <1>2, <1>3, <2>1 DEF ShownWhole
<1> QED BY <1>4, <1>5


-----------------------------------------------------------------------------
(* Searches, and the passing of time. *)

\* A search goes through every provider.
LEMMA LocalInSearch ==
  ASSUME NEW p \in Search, "local" \in Providers
  PROVE  \E i \in 1 .. Len(p) : p[i] = "local"
<1> DEFINE n == Cardinality(Providers)
<1>1. n \in Nat /\ IsFiniteSet(Providers)
  BY ProvidersFinite, FS_CardinalityType
<1>2. p \in [1 .. n -> Providers] /\ \A i, j \in 1 .. n : p[i] = p[j] => i = j
  BY DEF Search
<1>3. Cardinality(1 .. n) = n
  BY <1>1, FS_Interval
<1> HIDE DEF n
<1>4. p \in Injection(1 .. n, Providers)
  BY <1>2 DEF Injection, IsInjective
<1>5. p \in Surjection(1 .. n, Providers)
  BY <1>1, <1>3, <1>4, FS_Injection DEF n
<1>6. \E i \in 1 .. n : p[i] = "local"
  BY <1>5 DEF Surjection
<1>7. Len(p) = n
  BY <1>1, <1>2
<1> QED BY <1>6, <1>7

\* Without a listing in the way, a search is only late for two slow upstreams.
LEMMA TwoSlow ==
  ASSUME Shape, TimeSpent, NEW r \in Requests, kind[r] = "search",
         age[r] = Deadline, ~AListingStalled
  PROVE  Cardinality(Slow(r)) > 1
<1> DEFINE a == spent[r]["ia"]
           b == spent[r]["jamendo"]
<1>1. a \in Nat /\ b \in Nat /\ Deadline \in Nat \ {0}
  BY RequestsAssumption DEF Shape, TypeOK, Upstreams
<1>2. Deadline <= a + b
  BY DEF TimeSpent
<1>3. \A u \in {"ia", "jamendo"} : spent[r][u] < Deadline
  <2> SUFFICES ASSUME NEW u \in {"ia", "jamendo"} PROVE spent[r][u] < Deadline
    OBVIOUS
  <2>1. u \in Upstreams /\ spent[r][u] \in Nat /\ Timeout[u] \in Nat
    BY RequestsAssumption DEF Shape, TypeOK, Upstreams
  <2>2. CASE u \in Providers
    BY <1>1, <2>1, <2>2, RequestsAssumption DEF TimeSpent
  <2>3. CASE u \notin Providers
    BY <1>1, <2>1, <2>3 DEF TimeSpent
  <2> QED BY <2>2, <2>3
<1>4. a < Deadline /\ b < Deadline
  BY <1>3
<1> HIDE DEF a, b
<1>5. a > 0 /\ b > 0
  BY <1>1, <1>2, <1>4
<1>6. {"ia"} \cup {"jamendo"} \in SUBSET Slow(r)
  BY <1>5 DEF Slow, Upstreams, a, b
<1>7. IsFiniteSet({"ia"}) /\ IsFiniteSet({"jamendo"}) /\ IsFiniteSet({"rutracker"})
      /\ Cardinality({"ia"}) = 1 /\ Cardinality({"jamendo"}) = 1
  BY FS_Singleton
<1>8. IsFiniteSet({"ia"} \cup {"jamendo"}) /\ Cardinality({"ia"} \cup {"jamendo"}) = 2
  <2>1. {"ia"} \cap {"jamendo"} = {}
    OBVIOUS
  <2> QED BY <1>7, <2>1, FS_Union, FS_EmptySet
<1>9. IsFiniteSet(({"ia"} \cup {"jamendo"}) \cup {"rutracker"})
  BY <1>7, <1>8, FS_Union
<1>10. Slow(r) \in SUBSET (({"ia"} \cup {"jamendo"}) \cup {"rutracker"})
  BY DEF Slow, Upstreams
<1>11. IsFiniteSet(Slow(r))
  BY <1>9, <1>10, FS_Subset
<1>12. Cardinality({"ia"} \cup {"jamendo"}) <= Cardinality(Slow(r)) /\ Cardinality(Slow(r)) \in Nat
  BY <1>6, <1>11, FS_Subset, FS_CardinalityType
<1> QED BY <1>8, <1>12

\* A local part that is still to come is not skipped by another step.
LEMMA LocalKept ==
  ASSUME NEW k, NEW t, Fits(k, t), t # <<>>, Head(t) # "local",
         \E i \in 1 .. Len(t) : t[i] = "local"
  PROVE  \E i \in 1 .. Len(Tail(t)) : Tail(t)[i] = "local"
<1> DEFINE m == Len(t) - 1
           u == Tail(t)
<1>1. /\ m \in Nat /\ Len(t) = m + 1 /\ Len(u) = m /\ Head(t) = t[1]
      /\ \A i \in 1 .. m : u[i] = t[i + 1]
  BY HeadAndTail DEF Fits
<1>2. PICK i \in 1 .. m + 1 : t[i] = "local"
  BY <1>1
<1>3. i # 1
  BY <1>1, <1>2
<1> HIDE DEF m, u
<1>4. i - 1 \in 1 .. m /\ (i - 1) + 1 = i
  BY <1>1, <1>2, <1>3
<1>5. u[i - 1] = t[i] /\ i - 1 \in 1 .. Len(u)
  BY <1>1, <1>4
<1> QED BY <1>2, <1>5 DEF u

\* The next step of a search is one of its providers.
LEMMA SearchStep ==
  ASSUME Shape, NEW r \in Requests, kind[r] = "search", NEW s, At(r, s)
  PROVE  s \in Providers /\ s \in {"local", "ia", "jamendo"}
<1>1. todo[r] # <<>> /\ Head(todo[r]) = s /\ Fits("search", todo[r])
  BY Tails
<1>2. Len(todo[r]) \in Nat \ {0} /\ s = todo[r][1]
  BY <1>1, HeadAndTail DEF Fits
<1>3. s \in Providers
  BY <1>1, <1>2 DEF Fits
<1> QED BY <1>3, RequestsAssumption

LEMMA SearchMoves ==
  ASSUME Shape, LocalToCome, TimeSpent, NEW r \in Requests, Step(r)
  PROVE  LocalToCome' /\ found' \in [Requests -> SUBSET Providers]
<1>1. GoesOn(r) /\ UNCHANGED <<kind, age, spent>>
  BY Moves
<1>2. found \in [Requests -> SUBSET Providers]
  BY DEF Shape, TypeOK
<1>3. /\ found' \in [Requests -> SUBSET Providers]
      /\ \A q \in Requests : found[q] \subseteq found'[q]
  <2>1. CASE SearchLocal(r)
    <3>1. "local" \in Providers
      BY <2>1, Tails, NextStep DEF SearchLocal, Steps, Alone, Inside, Upstreams
    <3> QED BY <1>2, <2>1, <3>1 DEF SearchLocal
  <2>2. CASE Replies(r)
    BY <1>2, <2>2 DEF Replies
  <2>3. CASE ~(SearchLocal(r) \/ Replies(r))
    <3>1. found' = found
      BY <2>3 DEF Step, Statement, ReadRow, ReadLinks, Drop, NotFound, Open, Close, Begin, Put,
        Clear, Link, Commit, WriteFails, UpstreamFails, Expire, seen
    <3> QED BY <1>2, <3>1
  <2> QED BY <2>1, <2>2, <2>3
<1>4. AListingStalled' <=> AListingStalled
  BY <1>1 DEF AListingStalled, Stalled
<1>5. \A q \in Requests : Slow(q)' = Slow(q)
  BY <1>1 DEF Slow
<1> SUFFICES ASSUME NEW q \in Requests, kind[q] = "search", answer'[q] \in {"pending", "ok"},
                    "local" \in Providers, Cardinality(Slow(q)) > 1 => FALSE, ~AListingStalled
             PROVE  \/ "local" \in found'[q]
                    \/ \E i \in 1 .. Len(todo'[q]) : todo'[q][i] = "local"
  BY <1>1, <1>3, <1>4, <1>5 DEF LocalToCome
<1>6. CASE q # r
  BY <1>1, <1>3, <1>6 DEF LocalToCome, GoesOn
<1>7. CASE q = r
  <2>1. "local" \in found[r] \/ \E i \in 1 .. Len(todo[r]) : todo[r][i] = "local"
    BY <1>1, <1>7 DEF LocalToCome, GoesOn
  <2>2. CASE "local" \in found[r]
    BY <1>3, <1>7, <2>2
  <2>3. CASE \E i \in 1 .. Len(todo[r]) : todo[r][i] = "local"
    <3>1. CASE SearchLocal(r)
      BY <1>2, <1>7, <3>1 DEF SearchLocal
    <3>2. CASE Expire(r)
      BY <1>7, <3>2, TwoSlow DEF Expire
    <3>3. CASE Replies(r) \/ UpstreamFails(r)
      <4>1. PICK u \in Upstreams : At(r, u)
        BY <3>3 DEF Replies, UpstreamFails
      <4>2. todo'[r] = Tail(todo[r])
        BY <1>7, <3>3, <4>1, Took DEF Replies, UpstreamFails, Tolerant
      <4> QED BY <1>7, <2>3, <4>1, <4>2, Tails, LocalKept DEF Upstreams
    <3>4. CASE ~(SearchLocal(r) \/ Expire(r) \/ Replies(r) \/ UpstreamFails(r))
      <4>1. \/ \E s \in {"read", "exec", "each", "row", "links", "drop", "open", "close",
                        "begin", "put", "clear", "link", "commit"} : At(r, s)
            \/ NotFound(r)
        BY <3>4 DEF Step, Statement, ReadRow, ReadLinks, Drop, Open, Close, Begin, Put, Clear,
          Link, Commit, WriteFails
      <4>2. ~NotFound(r)
        BY <1>7 DEF NotFound
      <4> QED BY <1>7, <4>1, <4>2, SearchStep
    <3> QED BY <3>1, <3>2, <3>3, <3>4
  <2> QED BY <2>1, <2>2, <2>3
<1> QED BY <1>6, <1>7


LEMMA Arrivals ==
  ASSUME IInv, NEW r \in Requests, Arrive(r)
  PROVE  IInv'
<1> USE DEF seen, list
<1>1. PICK k \in Kinds[r] :
        /\ kind' = [kind EXCEPT ![r] = k]
        /\ \E p \in Handlers[k] :
             /\ todo' = [todo EXCEPT ![r] = p]
             /\ answer' = [answer EXCEPT ![r] = IF p = <<>> THEN "ok" ELSE "pending"]
  BY DEF Arrive
<1>2. PICK p \in Handlers[k] :
             /\ todo' = [todo EXCEPT ![r] = p]
             /\ answer' = [answer EXCEPT ![r] = IF p = <<>> THEN "ok" ELSE "pending"]
  BY <1>1
<1>3. k \in DOMAIN Handlers /\ Fits(k, p) /\ p \in Seq(Steps)
  BY KindsAssumption, Programs DEF Fits
<1>4. /\ answer[r] = "idle" /\ todo[r] = <<>>
      /\ UNCHANGED <<holder, age, spent, found, shown, exists, links, saved>>
      /\ Shape /\ TypeOK
  BY DEF Arrive, IInv, Shape, TypeOK
<1>5. /\ \A q \in Requests \ {r} : todo'[q] = todo[q] /\ answer'[q] = answer[q] /\ kind'[q] = kind[q]
      /\ todo'[r] = p /\ kind'[r] = k /\ answer'[r] = IF p = <<>> THEN "ok" ELSE "pending"
      /\ answer' \in [Requests -> Answers]
      /\ kind' \in [Requests -> DOMAIN Handlers \cup {"none"}]
      /\ todo' \in [Requests -> Seq(Steps)]
  BY <1>1, <1>2, <1>3, <1>4 DEF Shape, TypeOK, Answers
<1>6. TypeOK'
  BY <1>4, <1>5 DEF TypeOK
<1>7. Shape'
  BY <1>3, <1>4, <1>5, <1>6 DEF Shape
<1>8. ~IsInside(p) /\ ~IsInside(<<>>)
  <2>1. CASE p = <<>>
    BY <2>1 DEF IsInside
  <2>2. CASE p # <<>>
    <3>1. CASE k = "upsert"
      <4>1. p = UpsertPlaylist /\ Len(p) = ListLen + 4
        BY <3>1, UpsertProgram DEF Handlers
      <4>2. ListLen \in Nat
        BY RequestsAssumption
      <4>3. Len(p) \notin 2 .. ListLen + 1 /\ Len(p) # 1 /\ Len(p) # ListLen + 2 /\ Len(p) # ListLen + 3
        BY <4>1, <4>2
      <4>4. Head(p) = "begin"
        BY <1>3, <2>2, <3>1, <4>3, UpsertLength, NextStep
      <4> QED BY <4>4 DEF IsInside, Inside
    <3>2. CASE k \in Listings
      <4>1. p \in {<<"open">>, <<"read", "open">>}
        BY <3>2, ExportProgram DEF Handlers, ListPlaylists, Listings
      <4> QED BY <4>1, ListingTails DEF IsInside, Inside
    <3>3. CASE k \notin Listings \cup {"upsert"}
      <4>1. Head(p) \notin {"begin", "put", "clear", "link", "commit", "open", "each", "close"}
        BY <1>3, <2>2, <3>3, NextStep
      <4> QED BY <4>1 DEF IsInside, Inside
    <3> QED BY <3>1, <3>2, <3>3
  <2> QED BY <2>1, <2>2 DEF IsInside
<1>9. HolderInside'
  <2>1. \A q \in Requests : IsInside(todo'[q]) <=> IsInside(todo[q])
    BY <1>4, <1>5, <1>8
  <2>2. \A q \in Requests : IsInside(todo[q]) <=> holder = q
    BY DEF IInv, HolderInside
  <2>3. HolderInside' <=> \A q \in Requests : IsInside(todo'[q]) <=> holder' = q
    BY DEF HolderInside, IsInside
  <2> QED BY <1>4, <2>1, <2>2, <2>3
<1>10. /\ \A ls : WholeBy(ls, answer) => WholeBy(ls, answer')
       /\ holder # r
  <2>1. holder # r
    BY <1>4, <1>8 DEF IInv, HolderInside
  <2> QED BY <1>4, <1>5, <2>1, WholeStays
<1>11. ListsWhole'
  <2>1. holder # Nobody => holder \in Requests \ {r}
    BY <1>4, <1>10 DEF TypeOK
  <2>2. ListsWhole
    BY DEF IInv
  <2> QED BY <1>4, <1>5, <1>10, <2>1, <2>2 DEF ListsWhole
<1>12. ShownWhole'
  BY <1>4, <1>10 DEF IInv, ShownWhole
<1>13. age[r] = 0 /\ age \in [Requests -> Nat]
  BY <1>4, RequestsAssumption DEF IInv, TimeSpent, TypeOK
<1>14. AListingStalled => AListingStalled'
  <2> SUFFICES ASSUME NEW q \in Requests, kind[q] \in Listings, age[q] > 0
               PROVE  kind'[q] \in Listings /\ age'[q] > 0
    BY DEF AListingStalled, Stalled
  <2>1. q # r
    BY <1>13
  <2> QED BY <1>4, <1>5, <2>1
<1>15. OnlyListingsStall'
  BY <1>4, <1>14 DEF IInv, OnlyListingsStall, Stalled
<1>16. LocalToCome'
  <2> SUFFICES ASSUME NEW q \in Requests, kind'[q] = "search",
                      answer'[q] \in {"pending", "ok"}, "local" \in Providers
               PROVE  \/ "local" \in found'[q]
                      \/ \E i \in 1 .. Len(todo'[q]) : todo'[q][i] = "local"
                      \/ Cardinality(Slow(q)') > 1
                      \/ AListingStalled'
    BY DEF LocalToCome
  <2>1. CASE q = r
    <3>1. p \in Search
      BY <1>5, <2>1 DEF Handlers
    <3> QED BY <1>5, <2>1, <3>1, LocalInSearch
  <2>2. CASE q # r
    <3>1. Slow(q)' = Slow(q)
      BY <1>4 DEF Slow
    <3> QED BY <1>4, <1>5, <1>14, <2>2, <3>1 DEF IInv, LocalToCome
  <2> QED BY <2>1, <2>2
<1>17. TimeSpent'
  <2>1. TimeSpent /\ "ia" \in Upstreams /\ "jamendo" \in Upstreams
    BY DEF IInv, Upstreams
  <2>2. \A u \in Upstreams : spent[r][u] = 0
    BY <1>4, <2>1 DEF TimeSpent
  <2> QED BY <1>4, <1>5, <1>13, <1>14, <2>1, <2>2 DEF TimeSpent
<1> QED BY <1>7, <1>9, <1>11, <1>12, <1>15, <1>16, <1>17 DEF IInv


\* Time only passes while everyone waits: a holder that waits is a listing.
LEMMA Ticks ==
  ASSUME IInv, Tick
  PROVE  IInv'
<1> USE DEF seen, list
<1>1. /\ UNCHANGED <<holder, kind, todo, answer, found, shown, exists, links, saved>>
      /\ \A r \in Requests : answer[r] = "pending" => Waits(r)
      /\ age' = [r \in Requests |-> IF answer[r] = "pending" THEN age[r] + 1 ELSE age[r]]
      /\ spent' = [r \in Requests |->
           [u \in Upstreams |-> IF Calling(r, u) THEN spent[r][u] + 1 ELSE spent[r][u]]]
  BY DEF Tick
<1>2. Shape /\ TypeOK /\ HolderInside /\ TimeSpent /\ Deadline \in Nat \ {0}
      /\ Timeout \in [Upstreams -> 1 .. Deadline]
  BY RequestsAssumption DEF IInv, Shape
<1>3. ASSUME NEW r \in Requests, NEW u \in Upstreams, Calling(r, u)
      PROVE  answer[r] = "pending" /\ spent[r][u] < Timeout[u] /\ u # "local"
             /\ \A v \in Upstreams : Calling(r, v) => v = u
  <2>1. answer[r] = "pending" /\ Head(todo[r]) = u
    BY <1>2, <1>3 DEF Calling, TypeOK
  <2>2. Head(todo[r]) \notin NeedsConn
    BY <2>1 DEF NeedsConn, Upstreams
  <2> QED BY <1>1, <2>1, <2>2 DEF Waits, Calling, Upstreams
<1>4. ASSUME NEW r \in Requests
      PROVE  /\ age'[r] = IF answer[r] = "pending" THEN age[r] + 1 ELSE age[r]
             /\ age[r] \in 0 .. Deadline /\ age'[r] \in 0 .. Deadline
  <2>1. age[r] \in 0 .. Deadline
    BY <1>2 DEF TypeOK
  <2>2. answer[r] = "pending" => age[r] < Deadline
    BY <1>1 DEF Waits
  <2> QED BY <1>1, <1>2, <2>1, <2>2
<1>5. ASSUME NEW r \in Requests, NEW u \in Upstreams
      PROVE  /\ spent'[r][u] = IF Calling(r, u) THEN spent[r][u] + 1 ELSE spent[r][u]
             /\ spent[r][u] \in 0 .. Deadline /\ spent'[r][u] \in 0 .. Deadline
             /\ spent'[r][u] <= Timeout[u]
  <2>1. spent[r][u] \in 0 .. Deadline /\ Timeout[u] \in 1 .. Deadline /\ spent[r][u] <= Timeout[u]
    BY <1>2 DEF TypeOK, TimeSpent
  <2> QED BY <1>1, <1>2, <1>3, <2>1
<1>6. Shape'
  <2>1. age' \in [Requests -> 0 .. Deadline]
    BY <1>1, <1>4
  <2>2. spent' \in [Requests -> [Upstreams -> 0 .. Deadline]]
    <3> DEFINE f(r) == [u \in Upstreams |-> IF Calling(r, u) THEN spent[r][u] + 1 ELSE spent[r][u]]
    <3>1. ASSUME NEW r \in Requests PROVE f(r) \in [Upstreams -> 0 .. Deadline]
      BY <1>1, <1>5
    <3>2. spent' = [r \in Requests |-> f(r)]
      BY <1>1
    <3> HIDE DEF f
    <3> QED BY <3>1, <3>2
  <2>3. TypeOK'
    BY <1>1, <1>2, <2>1, <2>2 DEF TypeOK
  <2> QED BY <1>1, <1>2, <2>3 DEF Shape
<1>7. HolderInside' /\ ListsWhole' /\ ShownWhole'
  BY <1>1 DEF IInv, HolderInside, ListsWhole, ShownWhole, WholeBy, IsInside
<1>8. AListingStalled => AListingStalled'
  <2> SUFFICES ASSUME NEW q \in Requests, kind[q] \in Listings, age[q] > 0 PROVE age'[q] > 0
    BY <1>1 DEF AListingStalled, Stalled
  <2> QED BY <1>4
<1>9. ASSUME NEW r \in Requests, answer[r] = "pending", ~(\E u \in Upstreams : Calling(r, u))
      PROVE  AListingStalled'
  <2>1. holder # Nobody
    BY <1>1, <1>9 DEF Waits
  <2>2. holder \in Requests /\ IsInside(todo[holder]) /\ Fits(kind[holder], todo[holder])
    BY <1>2, <2>1 DEF TypeOK, HolderInside, Shape
  <2>3. answer[holder] = "pending" /\ Waits(holder)
    BY <1>1, <1>2, <2>2 DEF TypeOK, IsInside
  <2>4. Head(todo[holder]) = "each"
    BY <2>2, <2>3 DEF Waits, Calling, IsInside, Inside, NeedsConn, Upstreams
  <2>5. kind[holder] \in Listings
    BY <2>2, <2>4, NextStep DEF IsInside
  <2>6. age'[holder] > 0
    BY <1>4, <2>2, <2>3
  <2> QED BY <1>1, <2>2, <2>5, <2>6 DEF AListingStalled, Stalled
<1>10. OnlyListingsStall'
  <2> SUFFICES ASSUME NEW r \in Requests, age'[r] > 0, ~AListingStalled'
               PROVE  \E u \in Upstreams : spent'[r][u] > 0
    BY DEF OnlyListingsStall, Stalled
  <2>1. CASE \E u \in Upstreams : Calling(r, u)
    BY <1>5, <2>1
  <2>2. CASE ~(\E u \in Upstreams : Calling(r, u))
    <3>1. answer[r] # "pending"
      BY <1>9, <2>2
    <3>2. age[r] > 0
      BY <1>4, <3>1
    <3>3. PICK u \in Upstreams : spent[r][u] > 0
      BY <1>8, <3>2 DEF IInv, OnlyListingsStall, Stalled
    <3>4. spent'[r][u] > 0
      BY <1>5, <3>3
    <3> QED BY <3>4
  <2> QED BY <2>1, <2>2
<1>11. LocalToCome'
  <2> SUFFICES ASSUME NEW r \in Requests, kind[r] = "search",
                      answer[r] \in {"pending", "ok"}, "local" \in Providers,
                      Cardinality(Slow(r)) > 1
               PROVE  Cardinality(Slow(r)') > 1
    BY <1>1, <1>8 DEF IInv, LocalToCome
  <2>1. Slow(r) \in SUBSET (Slow(r)')
    <3> SUFFICES ASSUME NEW u \in Upstreams, spent[r][u] > 0 PROVE spent'[r][u] > 0
      BY DEF Slow
    <3> QED BY <1>5
  <2>2. IsFiniteSet(Slow(r)')
    <3>1. IsFiniteSet({"ia"}) /\ IsFiniteSet({"jamendo"}) /\ IsFiniteSet({"rutracker"})
      BY FS_Singleton
    <3>2. IsFiniteSet({"ia"} \cup {"jamendo"})
      BY <3>1, FS_Union
    <3>3. IsFiniteSet(({"ia"} \cup {"jamendo"}) \cup {"rutracker"})
      BY <3>1, <3>2, FS_Union
    <3>4. Slow(r)' \in SUBSET (({"ia"} \cup {"jamendo"}) \cup {"rutracker"})
      BY DEF Slow, Upstreams
    <3> QED BY <3>3, <3>4, FS_Subset
  <2>3. IsFiniteSet(Slow(r)) /\ Cardinality(Slow(r)) <= Cardinality(Slow(r)')
    BY <2>1, <2>2, FS_Subset
  <2>4. Cardinality(Slow(r)) \in Nat /\ Cardinality(Slow(r)') \in Nat
    BY <2>2, <2>3, FS_CardinalityType
  <2> QED BY <2>3, <2>4
<1>12. TimeSpent'
  <2>1. ASSUME NEW r \in Requests, answer[r] = "idle"
        PROVE  age'[r] = 0 /\ \A u \in Upstreams : spent'[r][u] = 0
    BY <1>2, <1>3, <1>4, <1>5, <2>1 DEF TimeSpent
  <2>2. ASSUME NEW r \in Requests, kind[r] = "search"
        PROVE  /\ \A u \in Upstreams \ Providers : spent'[r][u] = 0
               /\ AListingStalled' \/ age'[r] <= spent'[r]["ia"] + spent'[r]["jamendo"]
    <3>1. ASSUME NEW u \in Upstreams, Calling(r, u) PROVE u \in Providers /\ u \in {"ia", "jamendo"}
      <4>1. answer[r] = "pending" /\ todo[r] # <<>> /\ Head(todo[r]) = u
            /\ Fits("search", todo[r]) /\ age[r] < Deadline
        BY <1>1, <1>2, <1>3, <2>2, <3>1 DEF Calling, Shape, Waits
      <4>2. At(r, u)
        BY <4>1 DEF At
      <4> QED BY <1>2, <1>3, <2>2, <3>1, <4>2, SearchStep
    <3>2. \A u \in Upstreams \ Providers : spent'[r][u] = 0
      BY <1>2, <1>5, <2>2, <3>1 DEF TimeSpent
    <3>3. ASSUME ~AListingStalled' PROVE age'[r] <= spent'[r]["ia"] + spent'[r]["jamendo"]
      <4>1. "ia" \in Upstreams /\ "jamendo" \in Upstreams
        BY DEF Upstreams
      <4>2. age[r] <= spent[r]["ia"] + spent[r]["jamendo"]
        BY <1>2, <1>8, <2>2, <3>3 DEF TimeSpent
      <4>3. answer[r] = "pending" => Calling(r, "ia") \/ Calling(r, "jamendo")
        BY <1>9, <3>1, <3>3
      <4>4. /\ spent'[r]["ia"] = IF Calling(r, "ia") THEN spent[r]["ia"] + 1 ELSE spent[r]["ia"]
            /\ spent'[r]["jamendo"] =
                 IF Calling(r, "jamendo") THEN spent[r]["jamendo"] + 1 ELSE spent[r]["jamendo"]
            /\ spent[r]["ia"] \in Nat /\ spent[r]["jamendo"] \in Nat
        BY <1>5, <4>1
      <4>5. age'[r] \in Nat /\ age[r] \in Nat /\ age'[r] <= age[r] + 1
            /\ (answer[r] # "pending" => age'[r] = age[r])
        BY <1>4
      <4> QED BY <4>2, <4>3, <4>4, <4>5
    <3> QED BY <3>2, <3>3
  <2> QED BY <1>1, <1>5, <2>1, <2>2 DEF TimeSpent
<1> QED BY <1>6, <1>7, <1>10, <1>11, <1>12 DEF IInv


-----------------------------------------------------------------------------
(* The theorems. *)

\* Nothing has happened yet: no request, and the list of the seed or none.
LEMMA Starts == Init => IInv
<1> SUFFICES ASSUME Init PROVE IInv
  OBVIOUS
<1> USE DEF Init
<1>1. Nobody \notin Requests /\ Deadline \in Nat \ {0} /\ ListLen \in Nat
      /\ Timeout \in [Upstreams -> 1 .. Deadline]
  BY RequestsAssumption
<1>2. WholeBy(links, answer) /\ links \subseteq AllLinks
  BY FullLists DEF WholeBy, Writers
<1>3. <<>> \in Seq(Steps)
  BY EmptySeq
<1>4. TypeOK
  BY <1>1, <1>2 DEF TypeOK, Answers
<1>5. Shape
  BY <1>3, <1>4, FitsEmpty DEF Shape
<1>6. HolderInside /\ ListsWhole /\ ShownWhole
  BY <1>1, <1>2 DEF HolderInside, IsInside, ListsWhole, ShownWhole, WholeBy
<1>7. OnlyListingsStall
  BY DEF OnlyListingsStall, Stalled
<1>8. LocalToCome
  BY DEF LocalToCome
<1>9. TimeSpent
  BY <1>1 DEF TimeSpent, Upstreams
<1> QED BY <1>5, <1>6, <1>7, <1>8, <1>9 DEF IInv

\* Every step keeps the invariant.
LEMMA Steadies == IInv /\ [Next]_vars => IInv'
<1> SUFFICES ASSUME IInv, [Next]_vars PROVE IInv'
  OBVIOUS
<1>1. CASE \E r \in Requests : Arrive(r)
  BY <1>1, Arrivals
<1>2. ASSUME NEW r \in Requests, Step(r) PROVE IInv'
  <2>1. Shape /\ TypeOK /\ HolderInside /\ ListsWhole /\ ShownWhole /\ LocalToCome /\ TimeSpent
    BY DEF IInv, Shape
  <2>2. GoesOn(r) /\ UNCHANGED <<kind, age, spent>>
    BY <1>2, <2>1, Moves
  <2>3. HolderInside' /\ holder' \in Requests \cup {Nobody}
    BY <1>2, <2>1, <2>2, HolderMoves, HolderKept
  <2>4. /\ ListsWhole' /\ exists' \in BOOLEAN /\ links' \subseteq AllLinks
        /\ saved' \in [exists : BOOLEAN, links : SUBSET AllLinks]
    BY <1>2, <2>1, ListsMove
  <2>5. ShownWhole' /\ shown' \in [Requests -> SUBSET AllLinks]
    BY <1>2, <2>1, ShownMoves
  <2>6. LocalToCome' /\ found' \in [Requests -> SUBSET Providers]
    BY <1>2, <2>1, SearchMoves
  <2>7. TypeOK'
    BY <2>1, <2>2, <2>3, <2>4, <2>5, <2>6 DEF TypeOK, GoesOn
  <2>8. Shape'
    BY <2>1, <2>2, <2>7 DEF Shape, GoesOn
  <2>9. AListingStalled' <=> AListingStalled
    BY <2>2 DEF AListingStalled, Stalled
  <2>10. OnlyListingsStall'
    BY <2>2, <2>9 DEF IInv, OnlyListingsStall, Stalled
  <2>11. TimeSpent'
    <3>1. \A q \in Requests : answer'[q] = "idle" => answer[q] = "idle"
      BY <2>2 DEF GoesOn
    <3> QED BY <2>1, <2>2, <2>9, <3>1 DEF TimeSpent
  <2> QED BY <2>3, <2>4, <2>5, <2>6, <2>8, <2>10, <2>11 DEF IInv
<1>3. CASE Tick
  BY <1>3, Ticks
<1>4. CASE UNCHANGED vars
  <2>1. UNCHANGED <<holder, kind, todo, answer, age, spent, found, exists, links, saved, shown>>
    BY <1>4 DEF vars
  <2>2. Shape'
    BY <2>1 DEF IInv, Shape, TypeOK
  <2>3. HolderInside' /\ ListsWhole' /\ ShownWhole'
    BY <2>1 DEF IInv, HolderInside, ListsWhole, ShownWhole, WholeBy, IsInside
  <2>4. AListingStalled' <=> AListingStalled
    BY <2>1 DEF AListingStalled, Stalled
  <2>5. OnlyListingsStall'
    BY <2>1, <2>4 DEF IInv, OnlyListingsStall, Stalled
  <2>6. LocalToCome'
    <3>1. \A r \in Requests : Slow(r)' = Slow(r)
      BY <2>1 DEF Slow
    <3> QED BY <2>1, <2>4, <3>1 DEF IInv, LocalToCome
  <2>7. TimeSpent'
    BY <2>1, <2>4 DEF IInv, TimeSpent
  <2> QED BY <2>2, <2>3, <2>5, <2>6, <2>7 DEF IInv
<1> QED BY <1>1, <1>2, <1>3, <1>4 DEF Next, Quiet

\* What IInv says holds of every behaviour, for all values of the constants.
LEMMA Invariant == Spec => []IInv
<1> QED BY Starts, Steadies, PTL DEF Spec

\* Every variable keeps its type, and a request is pending exactly while its
\* handler has steps left (router.go, admin.go, service.go).
THEOREM TypesHold == Spec => []TypeOK
<1>1. IInv => TypeOK
  BY DEF IInv, Shape
<1> QED BY <1>1, Invariant, PTL

\* The one connection of the pool is held by a handler that is running and has
\* its deferred Close or Rollback before it (db.go, admin.go).
THEOREM ConnectionIsReturned == Spec => []PoolSound
<1>1. IInv => PoolSound
  <2> SUFFICES ASSUME IInv, holder # Nobody
               PROVE  /\ answer[holder] = "pending"
                      /\ \/ kind[holder] \in Listings /\ Head(todo[holder]) \in {"each", "close"}
                         \/ /\ kind[holder] = "upsert"
                            /\ Head(todo[holder]) \in {"put", "clear", "link", "commit"}
    BY DEF PoolSound
  <2>1. holder \in Requests /\ IsInside(todo[holder]) /\ Fits(kind[holder], todo[holder])
    BY DEF IInv, Shape, TypeOK, HolderInside
  <2>2. todo[holder] # <<>> /\ Head(todo[holder]) \in Inside
    BY <2>1 DEF IsInside
  <2>3. answer[holder] = "pending"
    BY <2>1, <2>2 DEF IInv, Shape, TypeOK
  <2>4. CASE Head(todo[holder]) \in {"each", "close"}
    BY <2>1, <2>2, <2>3, <2>4, NextStep
  <2>5. CASE Head(todo[holder]) \in {"put", "clear", "link", "commit"}
    BY <2>1, <2>2, <2>3, <2>5, NextStep
  <2> QED BY <2>2, <2>4, <2>5 DEF Inside
<1> QED BY <1>1, Invariant, PTL

\* A page never shows a list half replaced, nor one that was rolled back
\* (AdminUpsertPlaylist, GetPlaylistTracks).
THEOREM PagesShowWholeLists == Spec => []PagesWhole
<1>1. IInv => PagesWhole
  BY DEF IInv, ShownWhole, WholeBy, PagesWhole
<1> QED BY <1>1, Invariant, PTL

\* Nothing but a listing ever keeps a request from the catalog (db.go,
\* AdminListPlaylists).
THEOREM CatalogIsFree == Spec => []OnlyListingsStall
<1>1. IInv => OnlyListingsStall
  BY DEF IInv
<1> QED BY <1>1, Invariant, PTL

\* One slow upstream does not cost a search the results of the local catalog
\* (Service.Search).
THEOREM SearchSurvives == Spec => []SearchDegrades
<1>1. IInv => SearchDegrades
  <2> SUFFICES ASSUME IInv, NEW r \in Requests, kind[r] = "search", answer[r] = "ok",
                      "local" \in Providers
               PROVE  \/ "local" \in found[r]
                      \/ Cardinality({u \in Upstreams : spent[r][u] > 0}) > 1
                      \/ AListingStalled
    BY DEF SearchDegrades
  <2>1. todo[r] = <<>>
    BY DEF IInv, Shape, TypeOK
  <2>2. ~(\E i \in 1 .. Len(todo[r]) : todo[r][i] = "local")
    BY <2>1
  <2> QED BY <2>2 DEF IInv, LocalToCome, Slow
<1> QED BY <1>1, Invariant, PTL

-----------------------------------------------------------------------------
(* What PlaylistsListed comes to. *)

\* A listing has found a playlist and is about to query its tracks.
AtRow(r) == todo[r] # <<>> /\ Head(todo[r]) = "each"

\* It never gets further.
RowsNeverRead ==
  [][\A r \in Requests : AtRow(r) => AtRow(r)' \/ answer'[r] = "late"]_vars

\* The query for a playlist's tracks waits for the connection its own listing
\* holds, so no listing or export of a catalog that has a playlist is ever
\* answered with success, whatever the other requests do: the run requests_list
\* shows no rare race (admin.go:52-84, db.go:45).
THEOREM ListingsAreLate == Spec => RowsNeverRead
<1>1. IInv /\ [Next]_vars =>
        [\A r \in Requests : AtRow(r) => AtRow(r)' \/ answer'[r] = "late"]_vars
  <2> SUFFICES ASSUME IInv, Next, NEW r \in Requests, AtRow(r)
               PROVE  AtRow(r)' \/ answer'[r] = "late"
    OBVIOUS
  <2>1. Shape /\ HolderInside /\ answer[r] = "pending"
    BY DEF IInv, Shape, TypeOK, AtRow
  <2>2. holder = r /\ r # Nobody
    BY <2>1, RequestsAssumption DEF HolderInside, IsInside, Inside, AtRow
  <2>3. kind[r] \in Listings /\ kind[r] \notin Tolerant
    <3>1. Fits(kind[r], todo[r])
      BY <2>1 DEF Shape
    <3>2. kind[r] \in Listings
      BY <3>1, NextStep DEF AtRow
    <3> QED BY <3>2 DEF Listings, Tolerant
  <2>4. CASE todo'[r] = todo[r]
    BY <2>4 DEF AtRow
  <2>5. ASSUME NEW q \in Requests, q # r, Step(q) PROVE todo'[r] = todo[r]
    BY <2>1, <2>5, Moves DEF GoesOn
  <2>6. ASSUME NEW q \in Requests, Arrive(q) PROVE todo'[r] = todo[r]
    <3>1. q # r /\ \E p : todo' = [todo EXCEPT ![q] = p]
      BY <2>1, <2>6 DEF Arrive
    <3> QED BY <2>1, <3>1 DEF Shape
  <2>7. ASSUME Tick \/ Quiet PROVE todo'[r] = todo[r]
    BY <2>7 DEF Tick, Quiet, vars
  <2>8. ASSUME Step(r) PROVE answer'[r] = "late"
    <3>1. ~\E s : At(r, s) /\ s # "each"
      BY DEF At, AtRow
    <3>2. Expire(r)
      BY <2>2, <2>8, <3>1 DEF Step, Statement, SearchLocal, ReadRow, ReadLinks, Drop, NotFound,
              Open, Close, Begin, Put, Clear, Link, Commit, WriteFails, Replies,
              UpstreamFails, Upstreams
    <3>3. Return(r, "late") /\ todo[r] # <<>>
      BY <2>3, <3>2 DEF Expire, AtRow
    <3> QED BY <2>1, <3>3, Returned DEF Answers
  <2> QED BY <2>4, <2>5, <2>6, <2>7, <2>8 DEF Next
<1> QED BY <1>1, Invariant, PTL DEF Spec, RowsNeverRead

=============================================================================
