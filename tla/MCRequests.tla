----------------------------- MODULE MCRequests -----------------------------
(* Small instances of Requests: 15 s are 3 units, 10 s are 2. *)
EXTENDS Requests

CONSTANTS r1, r2, r3

ThreeRequests == {r1, r2, r3}
AllProviders  == {"local", "ia", "jamendo"}
TimeoutUnits  == [ia |-> 2, jamendo |-> 2, rutracker |-> 3]

\* One kind for every list of steps; the others take the same ones.
AnyKind == {"getLocal", "getForeign", "search", "play", "page", "stats", "bulk",
            "list", "export", "upsert", "remove", "import"}

\* Any request, beside a reader or a removal, beside a listing or a writer.
MixedKinds == [r \in Requests |->
  CASE r = r1 -> AnyKind
    [] r = r2 -> {"page", "remove"}
    [] r = r3 -> {"list", "upsert"}]

=============================================================================
