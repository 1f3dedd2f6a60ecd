------------------------------ MODULE PcdRules ------------------------------
(***************************************************************************)
(* A rule on its way through the supervisor: parsed, stored, activated,    *)
(* looked up by the requests of the clients, cloned, started and stopped.  *)
(* How processes are started, watched and ended is the matter of Pcd; here *)
(* a rule either waits in the timer queue, or has a process, or neither.   *)
(***************************************************************************)
EXTENDS Parser

CONSTANTS
  Ids,       \* ids <<group, name>> the clients ask for
  Params,    \* optional parameters the clients give
  Default,   \* the parameters of the rule file
  MaxReqs    \* bound of the model: requests

ASSUME IdsAssumption ==
  \A id \in Ids : id = <<id[1], id[2]>> /\ id[2] \in Seq(Nat)

VARIABLES
  queue,     \* the ids of the rules in the timer queue
  cursor,    \* what PCD_rulesdb_get_next returned last, <<>> for NULL
  activated, \* the ids PCD_rulesdb_activate has enqueued, in order
  sharing,   \* ids of clones made from a template that was busy itself
  asked,     \* the parameters last asked for with an id since its last stop
  reqs       \* requests so far

runVars == <<queue, cursor, activated, sharing, asked, reqs>>
vars == <<phase, status, rule, stack, db, block, blocks, includes, queue,
          cursor, activated, sharing, asked, reqs>>

Init ==
  /\ ParserInit
  /\ queue = {} /\ cursor = <<>> /\ activated = <<>>
  /\ sharing = {} /\ reqs = 0
  /\ asked = [id \in Ids \cup RuleIds |-> NoParams]

Id(x) == <<x.group, x.name>>

Parse == ParserNext /\ UNCHANGED runVars

\* PCD_rulesdb_activate starts with PCD_rulesdb_get_first
ActivateFirst ==
  /\ phase = "activate"
  /\ phase' = "activating" /\ cursor' = FirstRule(db)
  /\ UNCHANGED <<parserVars, db, queue, activated, sharing, asked, reqs>>

\* PCD_timer_enqueue_rule accepts a rule that neither waits nor has a process
Startable(x) == ~x.waiting /\ x.proc = NoProc

Enqueued(x) == [x EXCEPT !.waiting = TRUE]

ActivateNext ==
  /\ phase = "activating" /\ cursor # <<>>
  /\ LET x == db[cursor[1]].rules[cursor[2]]
     IN  IF x.active
         THEN /\ db' = Update(db, Id(x), Enqueued)
              /\ queue' = queue \cup {Id(x)}
              /\ activated' = Append(activated, Id(x))
         ELSE UNCHANGED <<db, queue, activated>>
  /\ cursor' = NextRule(db, cursor)
  /\ UNCHANGED <<phase, parserVars, sharing, asked, reqs>>

ActivateDone ==
  /\ phase = "activating" /\ cursor = <<>>
  /\ phase' = "run"
  /\ activated' = <<>> \* not read again
  /\ UNCHANGED <<parserVars, db, queue, cursor, sharing, asked, reqs>>

-----------------------------------------------------------------------------
\* Looking the id up clones a rule of the files that waits or has a process
ClonesBusy(id) ==
  LET rules == GroupRules(db, id[1])
  IN  /\ ~Has(db, id) /\ Matches(rules, id[2]) # {}
      /\ Id(Template(rules, id[2])) \in Templates
      /\ ~Startable(Template(rules, id[2]))

\* A message of a client about the rule id: it is looked up, whatever is asked.
\* So is the rule of a RULE_COMPLETED condition and of EXEC_RULE.
Request(id) ==
  /\ phase = "run" /\ reqs < MaxReqs
  /\ reqs' = reqs + 1
  /\ sharing' = IF ClonesBusy(id) THEN sharing \cup {id} ELSE sharing
  /\ UNCHANGED <<phase, parserVars, cursor, activated>>

\* The answer to PCD_API_GET_RULE_STATE and the like, or PCD_STATUS_INVALID_RULE
ApiQuery(id) ==
  /\ Request(id)
  /\ db' = Lookup(db, id)
  /\ UNCHANGED <<queue, asked>>

\* PCD_API_START_PROCESS: the parameters are stored before the start is tried
ApiStart(id, par) ==
  /\ Request(id) /\ Has(Lookup(db, id), id)
  /\ LET found == Lookup(db, id)
         starts == Startable(RuleOf(found, id))
         set(x) == [x EXCEPT !.params = IF par = NoParams THEN @ ELSE par,
                             !.waiting = @ \/ starts]
     IN  /\ db' = Update(found, id, set)
         /\ queue' = IF starts THEN queue \cup {id} ELSE queue
  /\ asked' = IF par = NoParams THEN asked ELSE [asked EXCEPT ![id] = par]

\* Mutant: the optional parameters survive the stop
ClearParamsMut(x) == x

\* PCD_rulesdb_clear_optional_params
ClearParams(x) == [x EXCEPT !.params = NoParams]

(***************************************************************************)
(* PCD_api_stop: a rule that is not in the timer queue and has no process  *)
(* only loses its parameters.  What is stopped through a clone that points *)
(* at the process of its template is not followed.                         *)
(***************************************************************************)
ApiStop(id) ==
  /\ Request(id) /\ Has(Lookup(db, id), id)
  /\ LET stop(x) ==
           IF id \in queue \/ x.proc # NoProc
           THEN [ClearParams(x) EXCEPT !.waiting = FALSE, !.proc = NoProc]
           ELSE ClearParams(x)
     IN  db' = Update(Lookup(db, id), id, stop)
  /\ queue' = queue \ {id}
  /\ asked' = [asked EXCEPT ![id] = NoParams]

\* PCD_process_spawn: optionalParams of the rule if there are any, else params
Spawn(id) ==
  /\ phase = "run" /\ id \in queue
  /\ LET run(x) ==
           [x EXCEPT !.waiting = FALSE,
                     !.proc = [rule |-> id, asked |-> asked[id],
                               args |-> IF x.params = NoParams THEN Default
                                                               ELSE x.params]]
     IN  db' = Update(db, id, run)
  /\ queue' = queue \ {id}
  /\ UNCHANGED <<phase, parserVars, cursor, activated, sharing, asked, reqs>>

\* The process of a rule ends, and its rule is disconnected from it
Exit(id) ==
  /\ phase = "run" /\ Has(db, id)
  /\ RuleOf(db, id).proc # NoProc /\ RuleOf(db, id).proc.rule = id
  /\ LET end(x) == [x EXCEPT !.proc = NoProc]
     IN  db' = Update(db, id, end)
  /\ UNCHANGED <<phase, parserVars, runVars>>

Next ==
  \/ Parse \/ ActivateFirst \/ ActivateNext \/ ActivateDone
  \/ \E id \in Ids :
       ApiQuery(id) \/ ApiStop(id)
       \/ \E par \in Params \cup {NoParams} : ApiStart(id, par)
  \/ \E id \in Ids \cup RuleIds : Spawn(id) \/ Exit(id)

Spec == Init /\ [][Next]_vars

-----------------------------------------------------------------------------
\* Every rule in the database is whole: each of its fields comes from a line of
\* its own block, whatever was included in the middle of it, whatever was wrong
\* in the files before, and however often the same static rule was used.  The
\* one exception is an option in front of the first block of a file.  And WAIT
\* has no timeout, which the supervisor relies on.
RulesAreWhole ==
  \A x \in AllRules(db) :
    /\ \A k \in Fields : x.from[k] = x.block
    /\ x.option \in {Unset, Stray, x.block}
    /\ x.end = "WAIT" => x.timeout = Forever

\* A group is there once, and its rules are sorted by name without duplicates,
\* clones included: strcmp of lookup and of insertion rely on it.
DbIsSorted ==
  /\ \A g, h \in DOMAIN db : db[g].group = db[h].group => g = h
  /\ \A g \in DOMAIN db :
       LET rules == db[g].rules
       IN  /\ rules # <<>>
           /\ \A i \in DOMAIN rules : rules[i].group = db[g].group
           /\ \A i, j \in DOMAIN rules : i < j => Less(rules[i].name, rules[j].name)

\* The rule of id a stands before that of id b: in an earlier group, or earlier
\* in the same group
Precedes(d, a, b) ==
  \E g, h \in DOMAIN d :
    \E i \in DOMAIN d[g].rules, j \in DOMAIN d[h].rules :
      /\ Id(d[g].rules[i]) = a /\ Id(d[h].rules[j]) = b
      /\ g < h \/ (g = h /\ i < j)

\* Once the walk of PCD_rulesdb_activate is over, the active rules and no others
\* have been enqueued, in the order of the database; so each of them once, as no
\* two rules have the same id.
ActivatedInOrder ==
  phase = "activating" /\ cursor = <<>> =>
    /\ Range(activated) = {Id(x) : x \in {y \in AllRules(db) : y.active}}
    /\ \A j, k \in DOMAIN activated :
         j < k => Precedes(db, activated[j], activated[k])

\* An id that is not in the database is served by the most specific template of
\* its group: the last match in the sorted list is the longest prefix.
TemplateIsLongest ==
  \A id \in Ids :
    LET rules == GroupRules(db, id[1])
    IN  ~Has(db, id) =>
          \A i \in Matches(rules, id[2]) :
            Len(rules[i].name) <= Len(Template(rules, id[2]).name)

\* A rule points at no process but its own, and is in the timer queue if and
\* only if its state says so, whatever instances of the same template do.  The
\* exception is a clone made while its template was itself started: it has the
\* state and the process of the template.
InstancesAreApart ==
  phase = "run" =>
    \A x \in AllRules(db) : Id(x) \notin sharing =>
      /\ x.proc # NoProc => x.proc.rule = Id(x)
      /\ x.waiting <=> Id(x) \in queue

\* A process runs with the parameters that were last asked for with the id of
\* its rule since the rule was last stopped (by a start that was refused, too),
\* or else with those of the rule file; never with those of another instance.
ArgsAreAsked ==
  \A x \in AllRules(db) : x.proc # NoProc =>
    x.proc.args = IF x.proc.asked = NoParams THEN Default ELSE x.proc.asked
=============================================================================
