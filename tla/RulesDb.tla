------------------------------ MODULE RulesDb ------------------------------
(***************************************************************************)
(* The rule database (rules_db.c): a list of groups in the order in which  *)
(* they were first met, each with the list of its rules sorted by name.    *)
(* Looking up an id that only matches an indexed rule, the template, adds  *)
(* a clone of it to the database.                                          *)
(*                                                                         *)
(* What lookup does depends on the order of the names and on one being a   *)
(* prefix of another, so a name is a sequence of numbers.  A rule is a     *)
(* record with at least the fields group, name, indexed and params.        *)
(***************************************************************************)
EXTENDS Naturals, Sequences, SequencesExt, FiniteSetsExt

CONSTANT NoParams \* optionalParams is NULL

\* strcmp(a, b) < 0
Less(a, b) ==
  \/ IsStrictPrefix(a, b)
  \/ \E i \in DOMAIN a \cap DOMAIN b :
       a[i] < b[i] /\ \A j \in 1..(i - 1) : a[j] = b[j]

\* Mutant: the walk stops behind the first rule
PlaceMut(rules, name) == 2

\* Where the walk of PCD_rulesdb_add_rule_to_group stops
Place(rules, name) ==
  Min({i \in 1..(Len(rules) + 1) :
         i \in DOMAIN rules => ~Less(rules[i].name, name)})

\* PCD_rulesdb_add_rule_to_group: a name that is there already is ignored
AddToGroup(rules, rule) ==
  LET i == Place(rules, rule.name)
  IN  IF i \in DOMAIN rules /\ rules[i].name = rule.name
      THEN rules ELSE InsertAt(rules, i, rule)

\* PCD_rulesdb_add_rule
AddRule(db, rule) ==
  IF \E g \in DOMAIN db : db[g].group = rule.group
  THEN [g \in DOMAIN db |->
          IF db[g].group = rule.group
          THEN [db[g] EXCEPT !.rules = AddToGroup(@, rule)] ELSE db[g]]
  ELSE Append(db, [group |-> rule.group, rules |-> <<rule>>])

\* The rules of a group, none if it does not exist
GroupRules(db, group) ==
  LET gs == {g \in DOMAIN db : db[g].group = group}
  IN  IF gs = {} THEN <<>> ELSE db[Min(gs)].rules

AllRules(db) == UNION {Range(db[g].rules) : g \in DOMAIN db}

Has(db, id) == \E x \in AllRules(db) : x.group = id[1] /\ x.name = id[2]
RuleOf(db, id) == CHOOSE x \in AllRules(db) : x.group = id[1] /\ x.name = id[2]

\* The templates an id matches, by their places in the list of its group
Matches(rules, name) ==
  {i \in DOMAIN rules : rules[i].indexed /\ IsPrefix(rules[i].name, name)}

\* Mutant: the first match is kept instead of the last
TemplateMut(rules, name) == rules[Min(Matches(rules, name))]

Template(rules, name) == rules[Max(Matches(rules, name))]

\* Mutant: the clone is a template again
CloneMut(rule, name) == [rule EXCEPT !.params = NoParams, !.name = name]

\* A copy of the template with everything in it, its state and its process too
Clone(rule, name) ==
  [rule EXCEPT !.indexed = FALSE, !.params = NoParams, !.name = name]

\* The database after PCD_rulesdb_get_rule_by_id; if it has the rule then that
\* is the result, and otherwise NULL
Lookup(db, id) ==
  LET rules == GroupRules(db, id[1])
  IN  IF Has(db, id) \/ Matches(rules, id[2]) = {} THEN db
      ELSE AddRule(db, Clone(Template(rules, id[2]), id[2]))

\* The database with f of a rule in place of the rule
Update(db, id, f(_)) ==
  [g \in DOMAIN db |->
     [db[g] EXCEPT !.rules =
        [i \in DOMAIN @ |-> IF db[g].group = id[1] /\ @[i].name = id[2]
                            THEN f(@[i]) ELSE @[i]]]]

\* Mutant: the last rule of a group is followed by nothing
NextRuleMut(db, at) ==
  IF at[2] < Len(db[at[1]].rules) THEN <<at[1], at[2] + 1>> ELSE <<>>

\* PCD_rulesdb_get_next, at being the group and the rule it returned last
NextRule(db, at) ==
  IF at[2] < Len(db[at[1]].rules) THEN <<at[1], at[2] + 1>>
  ELSE IF at[1] < Len(db) THEN <<at[1] + 1, 1>> ELSE <<>>

\* PCD_rulesdb_get_first
FirstRule(db) == IF db = <<>> THEN <<>> ELSE <<1, 1>>
=============================================================================
