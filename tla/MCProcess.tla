------------------------------ MODULE MCProcess ------------------------------
EXTENDS Process

CONSTANTS p1, p2

MCActions ==
  {[id |-> 1, risk |-> "medium"], [id |-> 2, risk |-> "high"], [id |-> 2, risk |-> "low"]}
MCMetrics ==
  {[likes |-> 0, comments |-> 0, shares |-> 0, views |-> 40, heat |-> 34],
   [likes |-> 3, comments |-> 1, shares |-> 0, views |-> 1, heat |-> 195]}
MCIdeas ==
  {[id |-> 1, variant |-> 1, score |-> 650], [id |-> 2, variant |-> 2, score |-> 651],
   [id |-> 3, variant |-> 0, score |-> 900], [id |-> 4, variant |-> 1, score |-> 901]}
MCMeasured ==
  LET record(post, likes, comments) == [post |-> post, likes |-> likes, comments |-> comments]
  IN  {<<record(1, 0, <<FALSE, TRUE>>), record(2, 10, <<FALSE>>)>>,
       <<record(1, 0, <<FALSE>>), record(1, 3, <<FALSE, TRUE>>)>>,
       <<record(1, 0, <<>>), record(2, 5, <<TRUE, FALSE>>), record(1, 5, <<TRUE>>)>>}

MCThemes == {<<{}>>, <<{"tech"}, {"life", "tech"}>>, <<{"hot"}, {}>>}
MCTargets == <<"en", "ja">>
MCSizes == {[title |-> 8, body |-> 200], [title |-> 8, body |-> 277], [title |-> 30, body |-> 1999],
              [title |-> 0, body |-> 40001]}
MCTagLists == {<<4, 6, 3>>, <<4, 6, 3, 17, 17>>}
MCAnswers ==
  {[l \in {"en", "ja"} |-> "whole"],
   [l \in {"en", "ja"} |-> IF l = "en" THEN "bare" ELSE "throws"],
   [l \in {"en", "ja"} |-> IF l = "en" THEN "blank" ELSE "whole"]}
=============================================================================
