------------------------------- MODULE Parser -------------------------------
(***************************************************************************)
(* The parser of the rule files (parser.c).  It reads line by line, which  *)
(* line being left open: all files up to MaxRules blocks are parsed.  A     *)
(* line is its keyword and what its handler makes of the value.            *)
(*                                                                         *)
(* To tell whether a rule is made of the lines of its own block, every     *)
(* RULE line opens a block with a number, and a field remembers the block  *)
(* its line stood in.                                                      *)
(***************************************************************************)
EXTENDS Integers, RulesDb

CONSTANTS
  RuleIds,    \* ids <<group, name>> of RULE lines
  Templates,  \* those of them written with a $
  NoGroup,    \* the group of a rule that has been cleared
  NoProc,     \* proc is NULL
  MaxRules,   \* bound of the model: RULE lines
  MaxIncludes \* bound of the model: INCLUDE lines

\* A name is a string of characters
ASSUME RuleIdsAssumption ==
  \A id \in RuleIds : id = <<id[1], id[2]>> /\ id[2] \in Seq(Nat)

VARIABLES
  phase,   \* parsing, activating, running, or failed
  status,  \* readParseStatus: the mandatory keywords seen
  rule,    \* the rule being read
  stack,   \* what PCD_parser_handle_INCLUDE has saved, innermost first
  db,      \* the rule database
  block,   \* the block the reader stands in, 0 before the first of a file
  blocks,  \* RULE lines so far
  includes \* INCLUDE lines so far

parserVars == <<status, rule, stack, block, blocks, includes>>

Mandatory == <<"RULE", "START_COND", "COMMAND", "END_COND",
               "END_COND_TIMEOUT", "FAILURE_ACTION", "ACTIVE">>

Fields == Range(Mandatory) \ {"RULE"}

\* Stands for the block of a line in front of all blocks of its file
Stray == -1
Unset == 0

Forever == -1

\* A rule after memset; from[k] is the block of the line that set field k
NoRule ==
  [group |-> NoGroup, name |-> <<>>, indexed |-> FALSE, block |-> Unset,
   from |-> [k \in Fields |-> Unset], option |-> Unset, end |-> "NONE",
   timeout |-> 0, active |-> FALSE, params |-> NoParams, proc |-> NoProc,
   waiting |-> FALSE]

\* The lines the model reads.  good is FALSE when the handler refuses the value.
\* OPTION is SCHED, DAEMON or USER.
Line(k, vals, goods) == [key : {k}, val : vals, good : goods]

Lines ==
  Line("RULE", RuleIds, BOOLEAN)
  \cup Line("START_COND", {"NONE"}, BOOLEAN)
  \cup Line("COMMAND", {"NONE"}, {TRUE})
  \cup Line("END_COND", {"WAIT"}, BOOLEAN)
  \cup Line("END_COND_TIMEOUT", {5}, {TRUE})
  \cup Line("FAILURE_ACTION", {"NONE"}, BOOLEAN)
  \cup Line("ACTIVE", BOOLEAN, {TRUE})
  \cup Line("OPTION", {"NICE"}, BOOLEAN)

Complete == status = Range(Mandatory)

\* PCD_parser_update_parse_status: only the first keyword that is missing is
\* accepted
Expects(seen, key) ==
  \E i \in DOMAIN Mandatory :
    /\ Mandatory[i] = key /\ key \notin seen
    /\ \A j \in 1..(i - 1) : Mandatory[j] \in seen

ParserInit ==
  /\ phase = "parse" /\ status = {} /\ rule = NoRule /\ stack = <<>>
  /\ db = <<>> /\ block = 0 /\ blocks = 0 /\ includes = 0

\* Mutant: the including file goes on with the rule of the included one
RestoreMut ==
  /\ status' = stack[1].status /\ rule' = rule

Restore ==
  /\ status' = stack[1].status /\ rule' = stack[1].rule

(***************************************************************************)
(* read_config_exit: the rule that is being read is written if it is       *)
(* complete.  The result of an included file is not looked at.             *)
(***************************************************************************)
Close(seen, ok) ==
  /\ db' = IF seen = Range(Mandatory) THEN AddRule(db, rule) ELSE db
  /\ \/ /\ stack # <<>>
        /\ Restore
        /\ block' = stack[1].block /\ stack' = Tail(stack)
        /\ UNCHANGED <<phase, blocks, includes>>
     \/ /\ stack = <<>>
        /\ status' = {}
        /\ phase' = IF ok /\ seen \in {{}, Range(Mandatory)} THEN "activate"
                                                              ELSE "failed"
        \* these are not read again
        /\ rule' = NoRule /\ block' = 0 /\ blocks' = 0 /\ includes' = 0
        /\ UNCHANGED stack

EndOfFile == phase = "parse" /\ Close(status, TRUE)

\* The rule a RULE line starts from
Cleared == IF "RULE" \in status THEN NoRule ELSE rule

\* PCD_parser_handle_RULE
ReadRule(l) ==
  /\ phase = "parse" /\ l.key = "RULE" /\ blocks < MaxRules
  /\ IF ("RULE" \in status /\ ~Complete) \/ ~l.good
     THEN Close(status, FALSE)
     ELSE /\ db' = IF Complete THEN AddRule(db, rule) ELSE db
          /\ status' = {"RULE"}
          /\ rule' = [Cleared EXCEPT !.group = l.val[1], !.name = l.val[2],
                                     !.indexed = l.val \in Templates,
                                     !.block = blocks + 1]
          /\ blocks' = blocks + 1 /\ block' = blocks + 1
          /\ UNCHANGED <<phase, stack, includes>>

\* PCD_parser_handle_END_COND_TIMEOUT
Timeout(l) == IF rule.end = "WAIT" THEN Forever ELSE l.val

\* The field a handler sets
Set(l) ==
  [[rule EXCEPT !.from[l.key] = block]
     EXCEPT !.end = IF l.key = "END_COND" THEN l.val ELSE @,
            !.timeout = IF l.key = "END_COND_TIMEOUT" THEN Timeout(l) ELSE @,
            !.active = IF l.key = "ACTIVE" THEN l.val ELSE @]

\* The handlers of the other mandatory keywords
ReadField(l) ==
  /\ phase = "parse" /\ l.key \in Fields
  /\ IF ~Expects(status, l.key) \/ ~l.good
     THEN Close(status, FALSE)
     ELSE /\ rule' = Set(l)
          /\ status' = status \cup {l.key}
          /\ UNCHANGED <<phase, stack, db, block, blocks, includes>>

\* The handlers of the optional keywords, which may stand anywhere
ReadOption(l) ==
  /\ phase = "parse" /\ l.key = "OPTION"
  /\ IF ~l.good
     THEN Close(status, FALSE)
     ELSE /\ rule' = [rule EXCEPT !.option = IF block = 0 THEN Stray ELSE block]
          /\ UNCHANGED <<phase, status, stack, db, block, blocks, includes>>

\* PCD_parser_handle_INCLUDE; a file that cannot be opened is as good as empty
ReadInclude ==
  /\ phase = "parse" /\ includes < MaxIncludes
  /\ includes' = includes + 1
  /\ stack' = <<[status |-> status, rule |-> rule, block |-> block]>> \o stack
  /\ status' = {} /\ rule' = NoRule /\ block' = 0
  /\ UNCHANGED <<phase, db, blocks>>

ParserNext ==
  \/ \E l \in Lines : ReadRule(l) \/ ReadField(l) \/ ReadOption(l)
  \/ ReadInclude \/ EndOfFile
=============================================================================
