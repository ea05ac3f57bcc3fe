------------------------------ MODULE MCPrewarm ------------------------------
(* Prewarm on a query file of two candidates, which are one place.         *)
EXTENDS Prewarm

\* A note worth keeping, one without a saved image, and an advertisement.
Note == [title |-> TRUE, body |-> "medium", image |-> "local", hard |-> 0, soft |-> 0,
         local |-> 2, merchant |-> FALSE, contact |-> FALSE, detail |-> TRUE,
         about |-> {"afuri", "ramen"}, city |-> "tokyo", stub |-> "none"]
Bare == [Note EXCEPT !.image = "none"]
Promo == [Note EXCEPT !.hard = 1, !.contact = TRUE]

MCPosts == {Note, Bare, Promo}
MCPages == {{}, {Note, Promo}, {Bare, Promo}}
MCQueries == {"q1", "q2", "n1"}
MCItems == << [candidate |-> "a", queries |-> <<"q1">>],
              [candidate |-> "b", queries |-> <<"q2">>] >>
\* q1 has another name to try.
MCAttempts == [p \in {"a", "b"} \X MCQueries |->
  IF p[2] = "q1" THEN <<"q1", "n1">> ELSE <<p[2]>>]
MCTerms == [p \in {"a", "b"} \X MCQueries |-> {"afuri"}]
MCCity == [q \in MCQueries |-> "tokyo"]
MCKey == [c \in {"a", "b"} |-> "tokyo:afuri"]
===============================================================================
