------------------------------ MODULE ThreadsMC ------------------------------
(* A thread of four messages, one of which answers a message that is missing. *)
EXTENDS Threads

\* Message 2 answers 1; 3 answers a message "p" that answered 2; 4 answers 2.
\* References are kept with the nearest first.
Thread ==
  [ m \in 1 .. 4 |->
      [ id   |-> <<"a", "b", "x", "y">>[m],
        irt  |-> << <<>>, <<"a">>, <<"p">>, <<"b">> >>[m],
        refs |-> << <<>>, <<"a">>, <<"p", "b", "a">>, <<"b", "a">> >>[m],
        subj |-> "s", re |-> m > 1, date |-> m ] ]

\* Options as they are by default.
Default ==
  { [aux_last |-> FALSE, aux_reverse |-> FALSE, groups |-> "aux", groups_reverse |-> FALSE,
     strict |-> FALSE, dup_threads |-> TRUE, sort_re |-> TRUE, reverse |-> FALSE,
     uncollapse_new |-> FALSE] }
==============================================================================
