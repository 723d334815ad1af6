----------------------------- MODULE MCCtlSock ------------------------------
(***************************************************************************)
(* CtlSock on small instances: one button, one key and one modifier, and a *)
(* screen one position wide.                                               *)
(***************************************************************************)
EXTENDS CtlSock

Verb(verb, a, b) == [verb |-> verb, a |-> a, b |-> b]

BtnVerbs  == {Verb("BTN", 1, e) : e \in {0, 1}}
HoldVerbs ==
  {Verb("BTN", 1, 1)} \cup {Verb("MOD", m, 1) : m \in Mods}
    \cup {Verb("KEY", k, 1) : k \in Keys}
AnyVerbs  ==
  {Verb("MOVEA", Width, 0), Verb("MOVEP", 1, 0), Verb("BTN", 1, 1), Verb("BAD", 0, 0)}
=============================================================================
