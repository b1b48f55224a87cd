------------------------------- MODULE MCUser -------------------------------
(* A small instance of the memory store and its servers for TLC. *)
EXTENDS UserProperties

\* One kind of entry, that links another and cites a superseded record.
TheBody ==
    [d \in Draft |->
        [links |-> << "a", "b" >>, superseded_by |-> {}, cites |-> << "call/1" >>,
         terms |-> {}, denies |-> {}, type |-> "fact", done |-> FALSE, lore |-> FALSE]]

\* The first line of one of them links the entry "b"; no slug has a bracket.
TheTitles == [d \in Draft |-> IF d = "linked" THEN << "b" >> ELSE << >>]
WholeSlugs == [s \in Slug |-> s]

\* One section of the repository's log, that links an entry of the store.
TheRepo ==
    {[slug |-> "r", links |-> << "a" >>, superseded_by |-> {}, cites |-> << >>,
      terms |-> {}, denies |-> {}, type |-> "fact", done |-> FALSE, lore |-> FALSE,
      edited |-> FALSE]}

\* One client asks for everything, about one entry whose title holds a link; the
\* others write the store, with entries of plain titles.
First == CHOOSE s \in Server : TRUE
Others == Server \ {First}
TheAsks ==
    [s \in Server |-> {tool \in Tool :
        IF s = First
        THEN IF tool.kind = "write" THEN tool.slug = "a" /\ tool.draft = "linked"
             ELSE tool.slug \in {"a", INDEX}
        ELSE (tool.kind = "write" /\ tool.draft = "t")
                \/ (tool.kind = "delete" /\ tool.slug = "a")}]
=============================================================================
