------------------------------- MODULE MCBatch --------------------------------
(* Instances of Batch for TLC.  "owner/a" and "owner:a" have one log and one    *)
(* lock; the URL of a repository has a log of its own and the same lock.        *)
EXTENDS Batch, TLC

MCLists ==
  { << "o/a", "o/b" >>, << "o/a", "o:a" >>, << "o/a", "o/a" >>, << "https://o/a", "o/b", "o/a" >> }

MCLogOf(repo) ==
  CASE repo \in {"o/a", "o:a"} -> "o__a" [] repo = "o/b" -> "o__b" [] OTHER -> "https__o__a"

MCSlugOf(repo) == IF repo = "o/b" THEN "o__b" ELSE "o__a"
===============================================================================
