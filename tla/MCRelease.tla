----------------------------- MODULE MCRelease ------------------------------
(* A small instance of a component's release for TLC. *)
EXTENDS ReleaseProperties

TheFirst == <<0, 9, 1>>
TheDerived == {{"o"}}
TheUntracked == {{}, {"config"}}
TheProvable == {<<1, 0>>, <<1, 1>>}
ThePhases ==
    {[name |-> "release", order |-> 1, requires |-> {}, conditional_on |-> "Where",
      skippable |-> TRUE, recheck |-> TRUE],
     [name |-> "publish", order |-> 2, requires |-> {"release"}, conditional_on |-> "none",
      skippable |-> FALSE, recheck |-> TRUE]}
=============================================================================
