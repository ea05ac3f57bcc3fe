------------------------------- MODULE MCJoiner -------------------------------
(* Joiner on two candidates, the second of which part of the hits only name *)
(* in part.                                                                 *)
EXTENDS Joiner

MCNames == <<"Afuri", "Menya Musashi">>
MCFold == [n \in {"Afuri", "AFURI", "Menya Musashi", "Ghost", "none"} |->
             IF n = "AFURI" THEN "Afuri" ELSE n]
MCParty == {"user", "mum"}

Praise == [strong |-> {"Afuri"}, weak |-> {"Menya Musashi"}, city |-> "here",
           gem |-> TRUE, trap |-> FALSE, reliable |-> TRUE, image |-> FALSE]
Warning == [Praise EXCEPT !.gem = FALSE, !.trap = TRUE, !.image = TRUE]
Advert == [Praise EXCEPT !.reliable = FALSE, !.image = TRUE]
Elsewhere == [Praise EXCEPT !.city = "away"]
Stray == [Warning EXCEPT !.city = "away"]
Vague == [Warning EXCEPT !.strong = {"Menya Musashi"}, !.city = "none"]
Plain == [Praise EXCEPT !.gem = FALSE, !.weak = {}]

MCPages == [reddit |-> {<<Praise, Elsewhere>>, <<Vague>>},
            xiaohongshu |-> {<<Advert, Warning>>, <<Advert>>, <<Stray>>},
            foursquare |-> {<<>>, <<Plain, Vague>>}]

Raw == [name |-> "AFURI", ids |-> TRUE, classification |-> "local_gem", en |-> "local_gem",
        zh |-> "neutral", scores |-> [p \in {"user", "stranger"} |-> 14],
        confidence |-> 120, image |-> FALSE]
Ghost == [Raw EXCEPT !.name = "Ghost"]
Nameless == [Raw EXCEPT !.name = "none"]
BadKey == [Raw EXCEPT !.ids = FALSE]
MCAnswers == {<<Ghost, Raw>>, <<Nameless, Ghost>>, <<BadKey>>,
              <<BadKey, [Raw EXCEPT !.name = "Menya Musashi", !.zh = "insufficient"]>>}
===============================================================================
