--------------------------- MODULE MCDefinitionSync ---------------------------
(* Small instances of DefinitionSync. *)
EXTENDS DefinitionSync

AllDeployments == {{"amqp"}, {"pull"}, {"amqp", "pull"}}

Limits == [d \in AllDeployments |->
             IF d = {"amqp", "pull"} THEN [changes |-> 2, happenings |-> 1]
                                     ELSE [changes |-> 3, happenings |-> 2]]
=============================================================================
