----------------------------- MODULE MCCatalog -----------------------------
(* Small instances of Catalog. *)
EXTENDS Catalog

CONSTANTS t1, t2, p1, p2

TwoTracks    == {t1, t2}
TwoPlaylists == {p1, p2}
SeedOne      == {t1}
SeedLinksOne == {<<p1, t1>>}
AnyOrigin    == {"fresh", "v0.1", "v0.2"}

=============================================================================
