------------------------------- MODULE MCSearch -------------------------------
(* XhsSearch: two calls for the same query.                                *)
EXTENDS XhsSearch

Note == [title |-> TRUE, body |-> "medium", image |-> "local", hard |-> 0, soft |-> 0,
         local |-> 2, merchant |-> FALSE, contact |-> FALSE, detail |-> TRUE,
         about |-> {"afuri"}, city |-> "tokyo", stub |-> "none"]
Bare == [Note EXCEPT !.image = "none"]
Promo == [Note EXCEPT !.hard = 1]
Link == [Bare EXCEPT !.body = "none", !.detail = FALSE, !.local = 0, !.stub = "link"]

Image == [Note EXCEPT !.image = "remote", !.detail = FALSE, !.local = 0, !.stub = "image"]

MCPosts == {Note, Bare, Promo, Link, Image}
MCDetail == [p \in MCPosts |-> IF p = Link THEN Promo ELSE IF p = Bare THEN Note ELSE p]
MCNoteOf == [p \in MCPosts |-> IF p \in {Link, Image} THEN "n1" ELSE "n2"]
MCSite == {{}, {Bare, Promo}}
MCLinks == {{}, {Link}}
MCImages == {{}, {Image}}
MCTerms == [q \in {"q1"} |-> {"afuri"}]
===============================================================================
