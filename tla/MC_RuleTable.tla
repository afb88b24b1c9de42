--------------------------- MODULE MC_RuleTable ---------------------------
(***************************************************************************)
(* Two relations, two targets, and three raw items: "'a'", and " 'a'" and  *)
(* " 'b'" as split(',') leaves them after the first item, so that a line   *)
(* such as cc_flags['t1'] = ['a', 'b', 'a'] has a duplicate only after     *)
(* stripping.  Two lines are enough for every case of HandleParsedRule: a *)
(* new relation, a new key of a known relation, and a key seen before.    *)
(***************************************************************************)
EXTENDS RuleTable, TLC

MC_Token == {"'a'", " 'a'", " 'b'"}
MC_Unquote == [x \in MC_Token |-> IF x = " 'b'" THEN "b" ELSE "a"]
=============================================================================
