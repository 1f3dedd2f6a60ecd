---------------------------- MODULE MCDataplane ----------------------------
(***************************************************************************)
(* A producer and a consumer on the ring the dispatcher flushes, a ring    *)
(* for a single producer like ring_3 of config/ressources.json.            *)
(***************************************************************************)
EXTENDS Dataplane

CONSTANTS ring1, ring2

Rings2 == <<ring2, ring1>>

Rx == [kind |-> "rx", name |-> "if1-rx", used |-> TRUE, eth |-> TRUE,
       bypass |-> "if1-tx"]

DispIfs ==
  << Rx,
     [Rx EXCEPT !.kind = "tx", !.name = "if1-tx", !.bypass = NoName],
     [Rx EXCEPT !.kind = "app", !.name = "if2", !.used = FALSE,
                !.bypass = NoName],
     [Rx EXCEPT !.kind = "app", !.name = "if3", !.eth = FALSE,
                !.bypass = NoName] >>
=============================================================================
