---------------------------- MODULE MCTargetQueue -----------------------------
(* Instances of TargetQueue for TLC.                                            *)
EXTENDS TargetQueue, TLC

Seed(id, source, risk, shape, gap) ==
  [id |-> id, source |-> source, risk |-> risk, status |-> "queued", shape |-> shape,
   fp |-> NoFp, lineage |-> {}, gapOf |-> NoId, gap |-> gap]

\* Shapes "a" and "alias of a" are told apart until taxonomies are normalized.
\* "bulk" and "BULK" are 40 items each in two spellings: the 64 that a merge
\* keeps of them are not the same list any more.
Normal == [weak |-> "weak", a |-> "a", alias |-> "alias", b |-> "b",
           bulk |-> "bulk", BULK |-> "bulk", rest |-> "rest"]
Canonical == [s \in DOMAIN Normal |-> IF s = "alias" THEN "a" ELSE s]
Merged ==
  [s \in DOMAIN Normal |-> [S \in SUBSET DOMAIN Normal |->
     IF {"bulk", "BULK"} \subseteq S THEN "rest" ELSE s]]

\* A legacy list without marks; a provider's list that claims marks of its own.
Legacy ==
  << Seed(1, NoSource, 2, "a", FALSE), Seed(2, NoSource, 1, "alias", FALSE),
     Seed(3, NoSource, 3, "b", FALSE) >>
Short == << Seed(1, NoSource, 2, "a", FALSE), Seed(2, NoSource, 1, "weak", FALSE) >>
Provided == << Seed(1, "scanner", 2, "alias", TRUE), Seed(2, NoSource, 1, "weak", FALSE) >>
Repeated == << Seed(1, NoSource, 2, "b", FALSE), Seed(1, NoSource, 2, "weak", FALSE) >>

\* Two targets with one fingerprint, in two spellings and in one, and a third.
Spelled == << Seed(1, NoSource, 2, "bulk", FALSE), Seed(2, NoSource, 1, "BULK", FALSE) >>
Alike == << Seed(1, NoSource, 2, "b", FALSE), Seed(2, NoSource, 1, "b", FALSE) >>
Third == Seed(7, "scanner", 3, "b", FALSE)

Scanned == Seed(6, "scanner", 3, "weak", FALSE)

Budget(total, each) == [total |-> total, of |-> [s \in BudgetedSources |-> each]]
Tight == Budget(1, 1)
Wide == Budget(3, 2)

CONSTANTS t1, t2

\* Operators change the selection of a legacy list; producers add to the list of a
\* provider; two operators overlap; targets are put back or added and merge up to the limits.
MCSettings ==
  [selection |->
     [tools |-> {t1}, jobs |-> {"mark", "research", "rebalance", "normalize"},
      lists |-> {Legacy}, posture |-> {}, gapfills |-> {}, budgets |-> {Tight, Wide},
      policies |-> {"strict", "risk-weighted"}, marks |-> {"reviewed"}],
   producers |->
     [tools |-> {t1}, jobs |-> {"mark", "gapfill", "generate", "triage"},
      lists |-> {Provided, Repeated}, posture |-> {Scanned}, gapfills |-> {8, 9},
      budgets |-> {Tight}, policies |-> {"risk-weighted"}, marks |-> {"in_progress"}],
   overlap |->
     [tools |-> {t1, t2}, jobs |-> {"mark", "rebalance"},
      lists |-> {Short}, posture |-> {}, gapfills |-> {}, budgets |-> {Tight},
      policies |-> {"risk-weighted"}, marks |-> {"reviewed"}],
   limits |->
     [tools |-> {t1}, jobs |-> {"mark", "append", "rebalance"},
      lists |-> {Spelled, Alike}, posture |-> {Third}, gapfills |-> {}, budgets |-> {Tight, Wide},
      policies |-> {"risk-weighted"}, marks |-> {"reviewed", "queued"}]]
===============================================================================
