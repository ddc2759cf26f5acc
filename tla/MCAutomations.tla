----------------------------- MODULE MCAutomations -----------------------------
(* Automations on one rule, which says one of four things: of an entry or  *)
(* of a stay in review, under a condition or not, and with actions of      *)
(* which each changes what the next, or the condition, sees.               *)
EXTENDS Automations

Saying(trigger, onlyIf, actions) == [trigger |-> trigger, onlyIf |-> onlyIf, actions |-> actions]

SomeBodies ==
    {Saying("event", "always",   <<"assign", "comment">>),
     Saying("event", "no_owner", <<"assign", "comment">>),
     Saying("time",  "always",   <<"comment", "escalate">>),
     Saying("time",  "no_owner", <<"notify", "assign">>)}
=============================================================================
