--------------------------- MODULE MCDriveRestore ---------------------------
EXTENDS DriveRestore

MCFiles == {"save", "trophy"}
MCContents == {"old", "new"}
MCCores == {"mine", "theirs"}
MCLooks == {"mine", "theirs"}

\* A snapshot
MCBackups ==
  {[files |-> [f \in MCFiles |-> "new"],
    settings |-> [core |-> "theirs", look |-> "theirs", font |-> "SYSTEM"]]}

\* Everything, or one file and the customization
MCWishes ==
  {[files |-> MCFiles, settings |-> TRUE, customization |-> TRUE],
   [files |-> {"save"}, settings |-> FALSE, customization |-> TRUE]}

\* The user's own settings and font at first; one file exists and one does not
MCInit ==
  /\ Init
  /\ disk = [save |-> "old", trophy |-> None]
  /\ settings = [core |-> "mine", look |-> "mine", font |-> "CUSTOM"]
MCSpec == MCInit /\ [][Next]_vars
MCFairSpec == MCSpec /\ Fairness
=============================================================================
