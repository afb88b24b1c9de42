--------------------------- MODULE RuleTableProofs ---------------------------
(***************************************************************************)
(* Proofs about the rule table of one ParseInput call (RuleTable).         *)
(*                                                                         *)
(* RulesFromLastLine is almost inductive by itself: it only needs the     *)
(* lines read to be lines of the trace, so that a new line is a record    *)
(* with a relation, a key and a raw item list.  What UniqueKeepOrder      *)
(* computes is never opened: both sides of the stored list are the same   *)
(* UniqueKeepOrder(ParseValue(...)), so the proof holds whatever the fold *)
(* returns, and what it returns (ItemsAtFirstOccurrence, the item typing  *)
(* of TypeOK) stays with TLC.                                              *)
(***************************************************************************)
EXTENDS RuleTable, TLAPS

RuleInv ==
    /\ consumed \in Seq(Line)
    /\ done \in BOOLEAN
    /\ RulesFromLastLine

\* The first two conjuncts of RulesFromLastLine: what rules holds.
StoredFromLastLine ==
    /\ DOMAIN rules = {consumed[i].rule : i \in DOMAIN consumed}
    /\ \A r \in DOMAIN rules :
          /\ DOMAIN rules[r] = KeysOf(r)
          /\ \A k \in DOMAIN rules[r] :
                \E i \in DOMAIN consumed :
                   /\ IsLastLine(i, r, k)
                   /\ rules[r][k] = UniqueKeepOrder(ParseValue(consumed[i].value))

(* No line has been read in the initial state. *)
LEMMA InitRuleInv == Init => RuleInv
<1> SUFFICES ASSUME Init PROVE RuleInv
  OBVIOUS
<1>1. consumed = <<>> /\ rules = EmptyDict /\ done = FALSE
  BY DEF Init
<1>2. consumed \in Seq(Line) /\ DOMAIN consumed = {}
  BY <1>1
<1>3. DOMAIN rules = {}
  BY <1>1 DEF EmptyDict
<1>. QED
  BY <1>1, <1>2, <1>3 DEF RuleInv, RulesFromLastLine

(* The stored lists and their last lines depend on rules and consumed only. *)
LEMMA StoredStable ==
    ASSUME RuleInv, UNCHANGED <<rules, consumed>>
    PROVE  StoredFromLastLine'
<1>1. UNCHANGED <<rules, consumed>>
  OBVIOUS
<1>3. (DOMAIN rules = {consumed[i].rule : i \in DOMAIN consumed})'
  BY <1>1 DEF RuleInv, RulesFromLastLine
<1>4. ASSUME NEW r \in DOMAIN rules'
      PROVE  /\ DOMAIN rules'[r] = KeysOf(r)'
             /\ \A k \in DOMAIN rules'[r] :
                   \E i \in DOMAIN consumed' :
                      /\ IsLastLine(i, r, k)'
                      /\ rules'[r][k] = UniqueKeepOrder(ParseValue(consumed'[i].value))
  <2>1. r \in DOMAIN rules /\ DOMAIN rules[r] = KeysOf(r)
    BY <1>1 DEF RuleInv, RulesFromLastLine
  <2>2. KeysOf(r)' = KeysOf(r)
    BY <1>1 DEF KeysOf
  <2>3. ASSUME NEW k \in DOMAIN rules'[r]
        PROVE  \E i \in DOMAIN consumed' :
                  /\ IsLastLine(i, r, k)'
                  /\ rules'[r][k] = UniqueKeepOrder(ParseValue(consumed'[i].value))
    <3>1. PICK i \in DOMAIN consumed :
                 /\ IsLastLine(i, r, k)
                 /\ rules[r][k] = UniqueKeepOrder(ParseValue(consumed[i].value))
      BY <1>1, <2>1 DEF RuleInv, RulesFromLastLine
    <3>2. IsLastLine(i, r, k)' = IsLastLine(i, r, k)
      BY <1>1 DEF IsLastLine, LinesAbout
    <3>. QED
      BY <1>1, <3>1, <3>2
  <2>. QED
    BY <1>1, <2>1, <2>2, <2>3
<1>. QED
  BY <1>3, <1>4 DEF StoredFromLastLine

(* The end of the input reads each table out of rules, and a relation no  *)
(* line named is not in rules, so its table is empty like its keys.       *)
LEMMA EndOfInputRuleInv ==
    ASSUME RuleInv, EndOfInput
    PROVE  RuleInv'
<1>1. UNCHANGED <<rules, consumed>> /\ done' = TRUE
  BY DEF EndOfInput
<1>2. ASSUME NEW r \in RuleNames
      PROVE  DOMAIN tables'[r] = KeysOf(r)'
  <2>0. KeysOf(r)' = KeysOf(r)
    BY <1>1 DEF KeysOf
  <2>1. CASE r \in DOMAIN rules
    <3>1. tables'[r] = rules[r]
      BY <2>1 DEF EndOfInput
    <3>2. DOMAIN rules[r] = KeysOf(r)
      BY <2>1 DEF RuleInv, RulesFromLastLine
    <3>. QED
      BY <2>0, <3>1, <3>2
  <2>2. CASE r \notin DOMAIN rules
    <3>1. KeysOf(r) = {}
      BY <2>2 DEF RuleInv, RulesFromLastLine, KeysOf
    <3>2. tables'[r] = EmptyDict
      BY <2>2 DEF EndOfInput
    <3>. QED
      BY <2>0, <3>1, <3>2 DEF EmptyDict
  <2>. QED
    BY <2>0, <2>1, <2>2
<1>3. StoredFromLastLine'
  BY <1>1, StoredStable
<1>5. (consumed \in Seq(Line) /\ done \in BOOLEAN)'
  BY <1>1 DEF RuleInv
<1>. QED
  BY <1>2, <1>3, <1>5 DEF RuleInv, RulesFromLastLine, StoredFromLastLine

(***************************************************************************)
(* Reading a line adds its relation and key and stores its items under    *)
(* them; every other (relation, key) keeps its list and its last line,    *)
(* since the new line, at index Len(consumed) + 1, is not about it.       *)
(***************************************************************************)
LEMMA ParseLineRuleInv ==
    ASSUME RuleInv, ~done, NEW line \in Line, HandleParsedRule(line),
           consumed' = Append(consumed, line), UNCHANGED <<done, tables>>
    PROVE  RuleInv'
<1> DEFINE n == Len(consumed)
           inner == IF line.rule \in DOMAIN rules THEN rules[line.rule]
                    ELSE EmptyDict
           val == UniqueKeepOrder(ParseValue(line.value))
<1>1. /\ n \in Nat
      /\ DOMAIN consumed = 1..n
      /\ consumed' \in Seq(Line)
      /\ DOMAIN consumed' = 1..(n + 1)
      /\ consumed'[n + 1] = line
      /\ \A i \in 1..n : consumed'[i] = consumed[i]
  BY DEF RuleInv
<1>2. rules' = SetKey(rules, line.rule, SetKey(inner, line.key, val))
  BY DEF HandleParsedRule
<1>3. /\ DOMAIN rules' = DOMAIN rules \cup {line.rule}
      /\ rules'[line.rule] = SetKey(inner, line.key, val)
      /\ \A r \in DOMAIN rules \ {line.rule} : rules'[r] = rules[r]
  BY <1>2 DEF SetKey
<1>4. {consumed'[i].rule : i \in DOMAIN consumed'}
        = {consumed[i].rule : i \in DOMAIN consumed} \cup {line.rule}
  BY <1>1
<1>5. ASSUME NEW r
      PROVE  KeysOf(r)' = IF r = line.rule THEN KeysOf(r) \cup {line.key}
                          ELSE KeysOf(r)
  BY <1>1 DEF KeysOf
<1>6. ASSUME NEW r, NEW k
      PROVE  LinesAbout(r, k)' =
                IF r = line.rule /\ k = line.key
                THEN LinesAbout(r, k) \cup {n + 1} ELSE LinesAbout(r, k)
  BY <1>1 DEF LinesAbout
<1>7. line.rule \notin DOMAIN rules => KeysOf(line.rule) = {}
  BY DEF RuleInv, RulesFromLastLine, KeysOf
<1>8. DOMAIN inner = IF line.rule \in DOMAIN rules THEN KeysOf(line.rule) ELSE {}
  BY DEF RuleInv, RulesFromLastLine, EmptyDict
<1>9. ASSUME NEW r \in DOMAIN rules'
      PROVE  DOMAIN rules'[r] = KeysOf(r)'
  <2>1. CASE r = line.rule
    <3>1. DOMAIN rules'[r] = DOMAIN inner \cup {line.key}
      BY <1>3, <2>1 DEF SetKey
    <3>. QED
      BY <1>5, <1>7, <1>8, <2>1, <3>1
  <2>2. CASE r # line.rule
    BY <1>3, <1>5, <2>2 DEF RuleInv, RulesFromLastLine
  <2>. QED
    BY <2>1, <2>2
<1>10. ASSUME NEW r \in DOMAIN rules', NEW k \in DOMAIN rules'[r]
       PROVE  \E i \in DOMAIN consumed' :
                 /\ IsLastLine(i, r, k)'
                 /\ rules'[r][k] = UniqueKeepOrder(ParseValue(consumed'[i].value))
  <2>1. CASE r = line.rule /\ k = line.key
    <3>1. n + 1 \in LinesAbout(r, k)'
      BY <1>6, <2>1
    <3>2. LinesAbout(r, k)' \subseteq 1..(n + 1)
      BY <1>1 DEF LinesAbout
    <3>4. rules'[r][k] = val
      BY <1>3, <2>1 DEF SetKey
    <3>5. UniqueKeepOrder(ParseValue(consumed'[n + 1].value)) = val
      BY <1>1
    <3>6. n + 1 \in DOMAIN consumed'
      BY <1>1
    <3>. QED
      BY <3>1, <3>2, <3>4, <3>5, <3>6 DEF IsLastLine
  <2>2. CASE ~(r = line.rule /\ k = line.key)
    <3>1. /\ r \in DOMAIN rules
          /\ k \in DOMAIN rules[r]
          /\ rules'[r][k] = rules[r][k]
      <4>1. CASE r = line.rule
        <5>1. k \in DOMAIN inner /\ rules'[r][k] = inner[k]
          BY <1>3, <2>2, <4>1 DEF SetKey
        <5>2. line.rule \in DOMAIN rules
          BY <5>1 DEF EmptyDict
        <5>. QED
          BY <4>1, <5>1, <5>2
      <4>2. CASE r # line.rule
        BY <1>3, <4>2
      <4>. QED
        BY <4>1, <4>2
    <3>2. PICK i \in DOMAIN consumed :
                 /\ IsLastLine(i, r, k)
                 /\ rules[r][k] = UniqueKeepOrder(ParseValue(consumed[i].value))
      BY <3>1 DEF RuleInv, RulesFromLastLine
    <3>3. LinesAbout(r, k)' = LinesAbout(r, k)
      BY <1>6, <2>2
    <3>4. IsLastLine(i, r, k)'
      BY <3>2, <3>3 DEF IsLastLine
    <3>5. consumed'[i] = consumed[i] /\ i \in DOMAIN consumed'
      BY <1>1
    <3>. QED
      BY <3>1, <3>2, <3>4, <3>5
  <2>. QED
    BY <2>1, <2>2
<1>11. (done \in BOOLEAN /\ ~done)'
  BY DEF RuleInv
<1>. QED
  BY <1>1, <1>3, <1>4, <1>9, <1>10, <1>11 DEF RuleInv, RulesFromLastLine

(* Every step of the loop and of the read-out keeps RuleInv. *)
LEMMA NextRuleInv ==
    ASSUME RuleInv, [Next]_vars
    PROVE  RuleInv'
<1>1. CASE ParseLine
  <2>1. PICK line \in Line : /\ HandleParsedRule(line)
                             /\ consumed' = Append(consumed, line)
    BY <1>1 DEF ParseLine
  <2>. QED
    BY <1>1, <2>1, ParseLineRuleInv DEF ParseLine
<1>2. CASE EndOfInput
  BY <1>2, EndOfInputRuleInv
<1>3. CASE UNCHANGED vars
  <2>1. StoredFromLastLine'
    BY <1>3, StoredStable DEF vars
  <2>2. \A r \in RuleNames : KeysOf(r)' = KeysOf(r)
    BY <1>3 DEF vars, KeysOf
  <2>. QED
    BY <1>3, <2>1, <2>2 DEF vars, RuleInv, RulesFromLastLine, StoredFromLastLine
<1>. QED
  BY <1>1, <1>2, <1>3 DEF Next

(***************************************************************************)
(* For every set of relations, keys and raw items, every bound on the     *)
(* lines, and every stripping table Unquote: after any prefix of the      *)
(* trace, ParseInput's rules (lines 308-310, through HandleParsedRule,    *)
(* lines 280-296) name exactly the relations and keys the lines named,    *)
(* each key holding the items of the last line about it, and the tables  *)
(* read out at lines 312-327 hold exactly the keys of their relation.     *)
(***************************************************************************)
THEOREM RulesFromLastLineSafe == Spec => []RulesFromLastLine
<1>1. Spec => []RuleInv
  BY InitRuleInv, NextRuleInv, PTL DEF Spec
<1>. QED
  BY <1>1, PTL DEF RuleInv

=============================================================================
