------------------------- MODULE MCReleaseDelivery -------------------------
(* The instances of ReleaseDelivery and ReleaseFormat that TLC checks. *)
EXTENDS ReleaseDelivery, TLC

Symmetry == Permutations(Procs) \cup Permutations(Trees)

\* A required file, a name that makes a file of its directory, two more files, and
\* a name that leaves the directory.
MCManifest == <<"manifest.json">>
MCServer   == <<"bin", "aura-server">>
MCNames    == {MCManifest, MCServer, <<"bin">>, <<"README.md">>, <<"data">>, <<"..", "data">>}
MCPlain    == {"manifest.json", "bin", "aura-server", "README.md", "data"}
MCRequired == {MCServer}
MCSize     == [b \in {"small", "large", "index", "link"} |-> IF b = "large" THEN 2 ELSE 1]

\* Two releases, one with the files of the other twice, and an archive cut short.
Of(n, b)  == [name |-> n, body |-> b]
Holding(b) == <<Of(MCServer, b), Of(MCManifest, "index")>>
MCContent == {<<>>, Holding("small"), Holding("large"), Holding("small") \o Holding("large")}
=============================================================================
