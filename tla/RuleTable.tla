----------------------------- MODULE RuleTable -----------------------------
(***************************************************************************)
(* The rule table of one ParseInput call (lines 308-327): every line of    *)
(* the parsed trace, relation['key'] = ['item', ...], goes through         *)
(* HandleParsedRule (lines 280-296), which splits the item list, strips    *)
(* each item of its blanks and quotes, removes duplicates keeping the      *)
(* first occurrence (UniqueKeepOrder, lines 61-72) and stores the list     *)
(* under rules[relation][key]; then the eight tables are read out with     *)
(* rules.get(name, {}).                                                    *)
(*                                                                         *)
(* A line is abstracted to its three regex groups: the relation, the key  *)
(* and the list of raw items that split(',') yields.  The raw items are    *)
(* the constant Token, and strip()[1:-1] is the table Unquote, so that two *)
(* raw items that differ in blanks only become one item.  The loop reads  *)
(* one line per step, any line each time, up to MaxLines lines; the       *)
(* history of the lines read is kept in 'consumed' for the properties.    *)
(***************************************************************************)
EXTENDS Naturals, Sequences, FiniteSets, SequencesExt

CONSTANTS
    Relation,   \* the relation names a trace line can carry
    Target,     \* the keys: targets and objects
    Token,      \* the raw items of a line, blanks and quotes included
    Item,       \* the items once stripped
    Unquote,    \* i.strip()[1:-1], on Token
    MaxItems,   \* the most raw items on one line
    MaxLines    \* the most lines in one trace

\* The tables ParseInput reads out of rules (lines 312-327).
RuleNames == {"ar", "cc_link", "cc_compile", "cc_compilelink", "cc_flags",
              "cc_includes", "cc_libraries", "install"}

ASSUME RuleTableAssumption ==
    /\ Unquote \in [Token -> Item]
    /\ MaxItems \in Nat
    /\ MaxLines \in Nat

\* The raw item lists of a line: groups[2] == '' is the empty list.
RawValues == UNION {[1..n -> Token] : n \in 0..MaxItems}

\* A trace line, as the three groups of the regex at line 287.
Line == [rule : Relation, key : Target, value : RawValues]

EmptyDict == [x \in {} |-> x]

\* d[k] = v, in a dict that may not hold k yet.
SetKey(f, k, v) == [x \in DOMAIN f \cup {k} |-> IF x = k THEN v ELSE f[x]]

(* Mutant: the items keep their quotes (i.strip() without [1:-1]). *)
ParseValue_KeepQuotes(raw) == raw

(* Lines 290-293: each raw item stripped of blanks and quotes. *)
ParseValue(raw) == [i \in DOMAIN raw |-> Unquote[raw[i]]]

(* Mutant: seen.add(x) is forgotten, so every item is kept. *)
KeepStep_NoSeen(acc, x) ==
    IF x \in acc.seen THEN acc
    ELSE [seen |-> acc.seen, out |-> Append(acc.out, x)]

(* One element of the comprehension of line 72: x is kept iff it is not   *)
(* in seen yet, and seen.add(x) records it.                                *)
KeepStep(acc, x) ==
    IF x \in acc.seen THEN acc
    ELSE [seen |-> acc.seen \cup {x}, out |-> Append(acc.out, x)]

(* UniqueKeepOrder (lines 61-72): one left-to-right pass with a seen set. *)
UniqueKeepOrder(sequence) ==
    FoldLeft(KeepStep, [seen |-> {}, out |-> <<>>], sequence).out

VARIABLES
    rules,      \* rules: relation -> key -> item list (line 308)
    consumed,   \* the lines of input_list handled so far
    done,       \* the loop of lines 309-310 is over
    tables      \* ar, cc_link, ..., install, once read out (lines 312-327)

vars == <<rules, consumed, done, tables>>

Init ==
    /\ rules = EmptyDict
    /\ consumed = <<>>
    /\ done = FALSE
    /\ tables = [r \in RuleNames |-> EmptyDict]

(* Mutant: the first line about a key wins (a setdefault on the key too). *)
HandleParsedRule_KeepFirst(line) ==
    LET inner == IF line.rule \in DOMAIN rules THEN rules[line.rule]
                 ELSE EmptyDict
    IN  rules' = SetKey(rules, line.rule,
                        IF line.key \in DOMAIN inner THEN inner
                        ELSE SetKey(inner, line.key,
                                    UniqueKeepOrder(ParseValue(line.value))))

(* HandleParsedRule (lines 280-296): rules.setdefault(rule, {})[key] = value. *)
HandleParsedRule(line) ==
    LET inner == IF line.rule \in DOMAIN rules THEN rules[line.rule]
                 ELSE EmptyDict
    IN  rules' = SetKey(rules, line.rule,
                        SetKey(inner, line.key,
                               UniqueKeepOrder(ParseValue(line.value))))

(* One iteration of the loop of lines 309-310. *)
ParseLine ==
    /\ ~done
    /\ Len(consumed) < MaxLines
    /\ \E line \in Line :
          /\ HandleParsedRule(line)
          /\ consumed' = Append(consumed, line)
    /\ UNCHANGED <<done, tables>>

(* The end of the input (lines 312-327): each table is rules.get(name, {}). *)
EndOfInput ==
    /\ ~done
    /\ done' = TRUE
    /\ tables' = [r \in RuleNames |->
                     IF r \in DOMAIN rules THEN rules[r] ELSE EmptyDict]
    /\ UNCHANGED <<rules, consumed>>

Next == ParseLine \/ EndOfInput

Spec == Init /\ [][Next]_vars

-----------------------------------------------------------------------------
(***************************************************************************)
(* Reference definitions.                                                  *)
(***************************************************************************)
\* The items of s at their first occurrence, in the order of s.
FirstOccurrences(s) ==
    LET firsts == {i \in DOMAIN s : \A j \in 1..(i - 1) : s[j] # s[i]}
        nth(n) == CHOOSE i \in firsts :
                      Cardinality({j \in firsts : j <= i}) = n
    IN  [n \in 1..Cardinality(firsts) |-> s[nth(n)]]

\* The indices of the lines read so far that are about rule r and key k.
LinesAbout(r, k) ==
    {i \in DOMAIN consumed : consumed[i].rule = r /\ consumed[i].key = k}

\* Line i is the last line read about rule r and key k.
IsLastLine(i, r, k) ==
    /\ i \in LinesAbout(r, k)
    /\ \A j \in LinesAbout(r, k) : j <= i

\* The keys the lines read so far give to rule r.
KeysOf(r) ==
    {consumed[i].key : i \in {j \in DOMAIN consumed : consumed[j].rule = r}}

(***************************************************************************)
(* Properties.                                                             *)
(***************************************************************************)
(* The tables hold item lists of stripped items, read out for all eight   *)
(* names once the input is over.                                           *)
TypeOK ==
    /\ DOMAIN rules \subseteq Relation
    /\ \A r \in DOMAIN rules :
          /\ DOMAIN rules[r] \subseteq Target
          /\ \A k \in DOMAIN rules[r] :
                rules[r][k] \in UNION {[1..n -> Item] : n \in 0..MaxItems}
    /\ consumed \in Seq(Line)
    /\ done \in BOOLEAN
    /\ DOMAIN tables = RuleNames

(***************************************************************************)
(* After any prefix of the trace, rules[r][k] exists exactly for the       *)
(* relations and keys some line named, and holds UniqueKeepOrder of the   *)
(* stripped items of the LAST such line: a later line about the same      *)
(* target replaces an earlier one whole (line 296), whatever came between.*)
(* Once the input is over, each of the eight tables holds the keys the    *)
(* lines gave its relation, and none for a relation the trace never named.*)
(***************************************************************************)
RulesFromLastLine ==
    /\ DOMAIN rules = {consumed[i].rule : i \in DOMAIN consumed}
    /\ \A r \in DOMAIN rules :
          /\ DOMAIN rules[r] = KeysOf(r)
          /\ \A k \in DOMAIN rules[r] :
                \E i \in DOMAIN consumed :
                   /\ IsLastLine(i, r, k)
                   /\ rules[r][k] = UniqueKeepOrder(ParseValue(consumed[i].value))
    /\ done => \A r \in RuleNames : DOMAIN tables[r] = KeysOf(r)

(***************************************************************************)
(* The stored list is the stripped items of the last line about the key,  *)
(* each once, at its first occurrence: the seen-set pass of lines 61-72   *)
(* agrees with the declarative FirstOccurrences, duplicates being judged  *)
(* after stripping (line 295), so " 'a'" and "'a'" are one item.          *)
(***************************************************************************)
ItemsAtFirstOccurrence ==
    \A r \in DOMAIN rules : \A k \in DOMAIN rules[r] :
       \A i \in DOMAIN consumed :
          IsLastLine(i, r, k) =>
             rules[r][k] = FirstOccurrences(ParseValue(consumed[i].value))

=============================================================================
