------------------------------- MODULE MCTask -------------------------------
(* A small instance of the task graph for TLC. *)
EXTENDS TaskProperties

Heading(anchor, verify, inputs, explicit, depends) ==
    [anchor |-> anchor, verify |-> verify, inputs |-> inputs, explicit |-> explicit,
     depends |-> depends, band |-> FALSE, in_build_seq |-> TRUE]
Silent == <<FALSE, {}>>
Says(depends) == <<TRUE, depends>>

\* Two tasks in one milestone and one in another, on the two that may need it.
ThePlans ==
    LET a == <<"p", "a">>  b == <<"p", "b">>  c == <<"q", "a">>
    IN  {[p |-> << Heading("a", Mechanical("test"), << "in", "out" >>, x[1], x[2]),
                   Heading("b", Attested("call"), << >>, y[1], y[2]) >>,
          q |-> << Heading("a", Mechanical("gate"), << >>, z[1], z[2]) >>] :
            x \in {Silent, Says({c})}, y \in {Silent},
            z \in {Silent, Says({a, b})}}
TheVerify == {Mechanical("test"), Attested("call"), NoVerify}
TheLists == {<< "in", "out" >>, << "out", "in" >>, << "out" >>}
TheProse == {<<"q", "a">>}
=============================================================================
