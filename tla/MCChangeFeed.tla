----------------------------- MODULE MCChangeFeed -----------------------------
(* Instances of ChangeFeed for TLC.  Resource ids are numbers because the feed *)
(* orders them, so no symmetry is used.                                        *)
EXTENDS ChangeFeed

Everything == Formats \cup {"meta", "delete"}
JsonOnly == {"json", "delete"}
==============================================================================
