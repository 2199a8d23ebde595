---------------------------- MODULE MCBackupJob -----------------------------
(* BackupJob on small trees.                                               *)
EXTENDS BackupJob

MCNodes    == {"f", "l", "d", "g", "e"}
MCParent   == [f |-> "/", l |-> "/", d |-> "/", g |-> "d", e |-> "d"]
MCKind     == [f |-> "file", l |-> "link", d |-> "dir", g |-> "file", e |-> "dir"]
MCContents == {"a", "b", "big"}
MCSize     == [a |-> 1, b |-> 1, big |-> 2]

Plain ==
  [names |-> {"f", "d", "g"}, force |-> FALSE, overwrite |-> TRUE, ignoreErrors |-> FALSE, recursive |-> TRUE,
   deepFirst |-> FALSE, elsewhere |-> FALSE, asks |-> FALSE, keep |-> {}, nozips |-> {},
   excludes |-> {}, ignores |-> {}, group |-> Owner, kinds |-> {"store", "restore"},
   content |-> "a", budget |-> [jobs |-> 2, edits |-> 1, faults |-> 0]]

Budget(j, e, f) == [jobs |-> j, edits |-> e, faults |-> f]

MCSettings ==
  {[Plain EXCEPT !.budget = Budget(2, 1, 1)],
   [Plain EXCEPT !.budget = Budget(3, 1, 0)],
   [Plain EXCEPT !.names = {"f"}, !.budget = Budget(3, 1, 1)],
   [Plain EXCEPT !.names = {"f"}, !.budget = Budget(2, 2, 0)],
   [Plain EXCEPT !.names = {"l", "d"}, !.kinds = {"store", "diff", "restore"}],
   [Plain EXCEPT !.force = TRUE, !.keep = {"owner", "rights", "times"}],
   [Plain EXCEPT !.force = TRUE, !.elsewhere = TRUE],
   [Plain EXCEPT !.names = {"d", "e", "l"}, !.deepFirst = TRUE, !.overwrite = FALSE,
                 !.asks = TRUE],
   [Plain EXCEPT !.recursive = FALSE, !.elsewhere = TRUE],
   [Plain EXCEPT !.ignoreErrors = TRUE, !.budget = Budget(2, 0, 1)],
   [Plain EXCEPT !.ignores = {"f"}, !.nozips = {"g"}, !.content = "big"],
   [Plain EXCEPT !.excludes = {"d"}, !.content = "big"],
   [Plain EXCEPT !.excludes = {"/"}, !.budget = Budget(2, 0, 0)],
   [Plain EXCEPT !.ignores = {"d"}, !.group = "staff"]}
=============================================================================
