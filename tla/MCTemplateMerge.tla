--------------------------- MODULE MCTemplateMerge ---------------------------
(***************************************************************************)
(* TemplateMerge in small worlds: one instance with fields, one with       *)
(* children, one whose children both sides have edited at the start, one   *)
(* whose template hides a field, a token, and two instances of one field   *)
(* pushed to; and, apart, an instance of a template that was itself        *)
(* stamped.  The template is edited to the values ours, the instances to   *)
(* the values mine.                                                        *)
(***************************************************************************)
EXTENDS TemplateMerge

World == [insts |-> {"i1"}, fields |-> {}, kids |-> {}, owned |-> {"i1"},
          hidden |-> {}, placed |-> {}, chained |-> FALSE, diverged |-> FALSE, ours |-> {0, 1}, mine |-> {0, 1}]
MCWorlds ==
  {[World EXCEPT !.fields = {<<"box">>, <<"box", "in">>}],
   [World EXCEPT !.kids = {0, 1, 3}, !.owned = {}, !.ours = {0, 1}, !.mine = {0, 2}],
   [World EXCEPT !.kids = {1, 2}, !.diverged = TRUE, !.owned = {}, !.ours = {1}, !.mine = {0, 2}],
   [World EXCEPT !.fields = {<<"a">>}, !.hidden = {<<"a">>}],
   [World EXCEPT !.fields = {<<"a">>, <<"box", "in">>}, !.placed = {<<"a">>}, !.owned = {}, !.ours = {1}, !.mine = {1}],
   [World EXCEPT !.insts = {"i1", "i2"}, !.fields = {<<"a">>}, !.owned = {"i1", Template}]}
MCChained == {[World EXCEPT !.kids = 1..3, !.chained = TRUE, !.owned = {}]}
=============================================================================
