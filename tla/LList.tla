------------------------------- MODULE LList -------------------------------
(***************************************************************************)
(* common/llist: the doubly linked list in which the platform's processes  *)
(* keep what they read from their configuration.  A list is the record of  *)
(* its header and of the pointers in its elements; an element that is in   *)
(* no list points back at itself.                                          *)
(***************************************************************************)
EXTENDS Naturals, Sequences

CONSTANTS Elements, Nil

ASSUME NilAssumption == Nil \notin Elements

\* LL_Init of the header and LL_InitElement of every element
LL_Init ==
  [head |-> Nil, tail |-> Nil, count |-> 0,
   next |-> [e \in Elements |-> Nil], prev |-> [e \in Elements |-> e]]

LL_InList(l, e) == l.prev[e] # e

\* Mutant: the old tail is not linked to the new element
LListAddMut(l, e) ==
  [l EXCEPT !.prev[e] = l.tail, !.tail = e,
            !.head = IF @ = Nil THEN e ELSE @, !.count = @ + 1]

\* LListAdd: to the end of the list; an element that is in a list stays there
LListAdd(l, e) ==
  IF LL_InList(l, e) THEN l ELSE
  [l EXCEPT !.next = [x \in Elements |-> IF x = l.tail THEN e
                                         ELSE IF x = e THEN Nil ELSE @[x]],
            !.prev[e] = l.tail,
            !.tail = e,
            !.head = IF @ = Nil THEN e ELSE @,
            !.count = @ + 1]

\* The loop of LL_ForEach goes on at element e
LL_Continues(l, e) == e # Nil /\ LL_InList(l, e)

\* The list is the sequence s: walking next from the head, or prev from the
\* tail, meets the elements of s in their order, and nothing else.
IsSequence(l, s) ==
  LET n == Len(s)
  IN  /\ l.count = n
      /\ l.head = IF n = 0 THEN Nil ELSE s[1]
      /\ l.tail = IF n = 0 THEN Nil ELSE s[n]
      /\ \A i \in 1..n :
           /\ l.next[s[i]] = IF i = n THEN Nil ELSE s[i + 1]
           /\ l.prev[s[i]] = IF i = 1 THEN Nil ELSE s[i - 1]
=============================================================================
