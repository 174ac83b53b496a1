----------------------------- MODULE MCMigrations -----------------------------
(* The migrations of the repository, as far as they depend on each other:    *)
(* the tables of the first release, sessions, the processing queue, and a    *)
(* column added to one of the first tables.                                  *)
EXTENDS MigrationsProperties

CONSTANTS share_links, sessions, processing_queue, message

Files == 1..4

FileCreates == [v \in Files |-> CASE v = 1 -> {share_links}
                                  [] v = 2 -> {sessions}
                                  [] v = 3 -> {processing_queue}
                                  [] v = 4 -> {message}]
FileNeeds   == [v \in Files |-> IF v = 4 THEN {share_links} ELSE {}]
FileLenient == {1, 2}

\* Two releases of the past, the present one, and a branch without the queue.
FileReleases == {{1}, {1, 2, 3}, {1, 2, 3, 4}, {1, 2, 4}}

=============================================================================
