------------------------------ MODULE MCRules ------------------------------
(***************************************************************************)
(* Rule files with up to two blocks, of which one may be in an included    *)
(* file: templates that are prefixes of one another in one group, and a    *)
(* plain rule in another.                                                  *)
(***************************************************************************)
EXTENDS PcdRules

MCTemplates == {<<"g", <<1>> >>, <<"g", <<1, 1>> >>}
MCRuleIds == MCTemplates \cup {<<"h", <<1>> >>}
MCIds == {<<"g", <<1, 1, 1>> >>, <<"g", <<1, 1, 1, 2>> >>}
=============================================================================
